----------------------------- MODULE BsmpProofs -----------------------------
(***************************************************************************)
(* The BSMP server, its client library and a curve, proved for every set   *)
(* of variables, functions and operations, every size, permission and list *)
(* of ids, every number and size of blocks and all data.                   *)
(*                                                                         *)
(* The server comes first: sums of sizes, groups as they are built, the    *)
(* invariant of its tables, what each command may change, the bytes of its *)
(* lists.  Then what the client and other hosts may do to the server, the  *)
(* client's copies of the lists, and the blocks of a curve.  The theorems  *)
(* are at the end.                                                         *)
(***************************************************************************)
EXTENDS BsmpCurves, FiniteSetTheorems, SequenceTheorems, WellFoundedInduction, TLAPS

(***************************************************************************)
(* Induction for a set of numbers.                                         *)
(***************************************************************************)
LEMMA AllNumbers ==
    ASSUME NEW S \in SUBSET Nat, 0 \in S, \A n \in S : n + 1 \in S
    PROVE  S = Nat
<1> DEFINE less == {p \in Nat \X Nat : p[1] < p[2]}
<1>1. IsWellFoundedOn(less, Nat)
  BY NatLessThanWellFounded DEF OpToRel
<1> HIDE DEF less
<1>2. SUFFICES ASSUME Nat \ S # {} PROVE FALSE
  OBVIOUS
<1>3. PICK x \in Nat \ S : \A y \in Nat \ S : <<y, x>> \notin less
  BY <1>1, <1>2, WFMin
<1>4. x # 0 /\ x - 1 \in Nat /\ x - 1 < x
  BY <1>3
<1>5. <<x - 1, x>> \in less
  BY <1>3, <1>4 DEF less
<1>6. x - 1 \in S
  BY <1>3, <1>4, <1>5
<1> QED BY <1>3, <1>4, <1>6

-----------------------------------------------------------------------------
(***************************************************************************)
(* Sums over a list, by the sums over its beginnings.                      *)
(***************************************************************************)
Sums(p, f, list) ==
    /\ p \in [0 .. Len(list) -> Nat] /\ p[0] = 0
    /\ \A n \in 1 .. Len(list) : p[n] = p[n - 1] + f[list[n]]

LEMMA SumOfIsLast ==
    ASSUME NEW f, NEW list, Len(list) \in Nat,
           \A n \in 1 .. Len(list) : f[list[n]] \in Nat
    PROVE  \E p : Sums(p, f, list) /\ SumOf(f, list) = p[Len(list)]
<1> DEFINE N == Len(list)
           E(p) == [n \in 0 .. N |-> IF n = 0 THEN 0 ELSE p[n - 1] + f[list[n]]]
           upTo == CHOOSE p : p = E(p)
           Good(p, n) == /\ p \in [0 .. n -> Nat] /\ p[0] = 0
                         /\ \A k \in 1 .. n : p[k] = p[k - 1] + f[list[k]]
           S == {n \in Nat : n <= N => \E p : Good(p, n)}
<1>1. 0 \in S
  <2> DEFINE z == [k \in 0 .. 0 |-> 0]
  <2>1. z \in [0 .. 0 -> Nat] /\ z[0] = 0
    OBVIOUS
  <2>2. \A k \in 1 .. 0 : FALSE
    OBVIOUS
  <2> HIDE DEF z
  <2>3. Good(z, 0)
    <3>1. \A k \in 1 .. 0 : z[k] = z[k - 1] + f[list[k]]
      BY <2>2
    <3> QED BY <2>1, <3>1
  <2> QED BY <2>3
<1>2. ASSUME NEW n \in S PROVE n + 1 \in S
  <2> HIDE DEF Good, N
  <2> SUFFICES ASSUME n + 1 <= N PROVE \E p : Good(p, n + 1)
    OBVIOUS
  <2> USE DEF Good, N
  <2>1. n \in Nat /\ N \in Nat /\ n <= N
    OBVIOUS
  <2>2. PICK p : Good(p, n)
    BY <2>1
  <2> DEFINE last == p[n] + f[list[n + 1]]
             q == [k \in 0 .. n + 1 |-> IF k <= n THEN p[k] ELSE last]
  <2>3. last \in Nat
    BY <2>1, <2>2
  <2> HIDE DEF last
  <2>4. /\ q[n + 1] = last /\ \A k \in 0 .. n : q[k] = p[k]
        /\ q \in [0 .. n + 1 -> Nat]
    BY <2>1, <2>2, <2>3
  <2> HIDE DEF q
  <2>5. ASSUME NEW k \in 1 .. n + 1 PROVE q[k] = q[k - 1] + f[list[k]]
    <3>0. k - 1 \in 0 .. n
      BY <2>1
    <3>1. k - 1 \in 0 .. n /\ q[k - 1] = p[k - 1]
      BY <3>0, <2>4
    <3>2. CASE k = n + 1
      BY <2>1, <2>4, <3>1, <3>2 DEF last
    <3>3. CASE k \in 1 .. n
      BY <2>1, <2>2, <2>4, <3>1, <3>3
    <3> QED BY <2>1, <3>2, <3>3
  <2>6. q[0] = 0
    BY <2>1, <2>2, <2>4
  <2>7. Good(q, n + 1)
    BY <2>4, <2>5, <2>6
  <2> QED BY <2>7
<1>3. PICK p : Good(p, N)
  <2> HIDE DEF Good
  <2>1. N \in S
    <3> HIDE DEF S
    <3>1. S \subseteq Nat
      BY DEF S
    <3> QED BY <1>1, <1>2, <3>1, AllNumbers
  <2> QED BY <2>1
<1>4. p = E(p)
  BY <1>3
<1>5. upTo = E(upTo)
  BY <1>4
<1>6. SumOf(f, list) = upTo[N]
  BY DEF SumOf
<1> HIDE DEF upTo
<1> DEFINE T == {n \in Nat : n <= N => upTo[n] = p[n]}
<1>7. T = Nat
  <2>1. 0 \in T
    BY <1>3, <1>5
  <2>2. ASSUME NEW n \in T PROVE n + 1 \in T
    <3> SUFFICES ASSUME n + 1 <= N PROVE upTo[n + 1] = p[n + 1]
      OBVIOUS
    <3>1. upTo[n] = p[n] /\ n + 1 \in 1 .. N /\ n + 1 - 1 = n
      OBVIOUS
    <3>2. upTo[n + 1] = upTo[n] + f[list[n + 1]]
      BY <1>5, <3>1
    <3>3. p[n + 1] = p[n] + f[list[n + 1]]
      BY <1>3, <3>1
    <3> QED BY <3>1, <3>2, <3>3
  <2> HIDE DEF T
  <2>3. T \subseteq Nat
    BY DEF T
  <2> QED BY <2>1, <2>2, <2>3, AllNumbers
<1>8. upTo[N] = p[N]
  BY <1>7
<1> QED BY <1>3, <1>6, <1>8 DEF Sums

\* Lists with the same terms have the same sum.
Agree(f, list, g, other, n) ==
    /\ n \in Nat /\ Len(list) \in Nat /\ Len(other) \in Nat
    /\ n <= Len(list) /\ n <= Len(other)
    /\ \A k \in 1 .. n : f[list[k]] = g[other[k]]

LEMMA SumsAgree ==
    ASSUME NEW f, NEW list, NEW g, NEW other, NEW n, Agree(f, list, g, other, n),
           NEW p, NEW q, Sums(p, f, list), Sums(q, g, other)
    PROVE  p[n] = q[n]
<1> n \in Nat /\ Len(list) \in Nat /\ Len(other) \in Nat
  BY DEF Agree
<1> DEFINE T == {k \in Nat : k <= n => p[k] = q[k]}
<1>1. 0 \in T
  BY DEF Sums
<1>2. ASSUME NEW k \in T PROVE k + 1 \in T
  <2> SUFFICES ASSUME k + 1 <= n PROVE p[k + 1] = q[k + 1]
    OBVIOUS
  <2>1. p[k] = q[k] /\ k + 1 \in 1 .. n /\ k + 1 - 1 = k
    OBVIOUS
  <2>2. p[k + 1] = p[k] + f[list[k + 1]] /\ q[k + 1] = q[k] + g[other[k + 1]]
    BY <2>1 DEF Sums, Agree
  <2>3. f[list[k + 1]] = g[other[k + 1]]
    BY <2>1 DEF Agree
  <2> QED BY <2>1, <2>2, <2>3
<1>3. T = Nat
  <2> HIDE DEF T
  <2>1. T \subseteq Nat
    BY DEF T
  <2> QED BY <1>1, <1>2, <2>1, AllNumbers
<1> QED BY <1>3

LEMMA SameSum ==
    ASSUME NEW f, NEW list, NEW g, NEW other, Len(list) \in Nat, Len(other) = Len(list),
           \A k \in 1 .. Len(list) : f[list[k]] \in Nat /\ g[other[k]] = f[list[k]]
    PROVE  SumOf(f, list) = SumOf(g, other) /\ SumOf(f, list) \in Nat
<1>1. PICK p : Sums(p, f, list) /\ SumOf(f, list) = p[Len(list)]
  BY SumOfIsLast
<1>2. PICK q : Sums(q, g, other) /\ SumOf(g, other) = q[Len(other)]
  BY SumOfIsLast
<1>3. p[Len(list)] = q[Len(list)]
  <2>1. Agree(f, list, g, other, Len(list))
    BY DEF Agree
  <2> QED BY <1>1, <1>2, <2>1, SumsAgree
<1>4. p[Len(list)] \in Nat
  BY <1>1 DEF Sums
<1> QED BY <1>1, <1>2, <1>3, <1>4

LEMMA SumOfNone == ASSUME NEW f PROVE SumOf(f, << >>) = 0
<1>0. Len(<< >>) \in Nat /\ \A n \in 1 .. Len(<< >>) : FALSE
  OBVIOUS
<1>1. PICK p : Sums(p, f, << >>) /\ SumOf(f, << >>) = p[Len(<< >>)]
  BY ONLY <1>0, SumOfIsLast
<1> QED BY <1>1 DEF Sums

LEMMA SumOfOneMore ==
    ASSUME NEW S, NEW f \in [S -> Nat], NEW list \in Seq(S), NEW v \in S
    PROVE  SumOf(f, Append(list, v)) = SumOf(f, list) + f[v]
<1> DEFINE more == Append(list, v)
<1>1. /\ Len(list) \in Nat /\ Len(more) = Len(list) + 1 /\ more[Len(list) + 1] = v
      /\ \A k \in 1 .. Len(list) : more[k] = list[k] /\ list[k] \in S
  OBVIOUS
<1>2. PICK p : Sums(p, f, list) /\ SumOf(f, list) = p[Len(list)]
  BY <1>1, SumOfIsLast
<1>3. \A k \in 1 .. Len(more) : f[more[k]] \in Nat
  BY <1>1
<1> HIDE DEF more
<1>4. PICK q : Sums(q, f, more) /\ SumOf(f, more) = q[Len(more)]
  <2>1. Len(more) \in Nat
    BY <1>1
  <2> QED BY ONLY <2>1, <1>3, SumOfIsLast
<1>5. p[Len(list)] = q[Len(list)]
  <2>1. Agree(f, list, f, more, Len(list))
    BY <1>1 DEF Agree
  <2> QED BY <1>2, <1>4, <2>1, SumsAgree
<1>6. q[Len(list) + 1] = q[Len(list)] + f[v]
  <2> DEFINE n == Len(list) + 1
  <2>1. n \in 1 .. Len(more) /\ n - 1 = Len(list) /\ more[n] = v
    BY <1>1
  <2>2. \A k \in 1 .. Len(more) : q[k] = q[k - 1] + f[more[k]]
    BY <1>4 DEF Sums
  <2> HIDE DEF n
  <2>3. q[n] = q[Len(list)] + f[v]
    BY <2>1, <2>2
  <2> QED BY <2>3 DEF n
<1> QED BY <1>1, <1>2, <1>4, <1>5, <1>6 DEF more

-----------------------------------------------------------------------------
(***************************************************************************)
(* Groups.  In the list of variables none comes twice, and a group has     *)
(* them in the order of that list.                                         *)
(***************************************************************************)
NoTwice(list) == \A a, b \in 1 .. Len(list) : list[a] = list[b] => a = b

\* Wherever they are in the list, x comes before y.
Before(list, x, y) ==
    \A a, b \in 1 .. Len(list) : list[a] = x /\ list[b] = y => a < b

Proper(g, list) ==
    /\ g \in Group
    /\ \A j \in 1 .. Len(g.vars) : g.vars[j] \in Registered(list)
    /\ \A j, k \in 1 .. Len(g.vars) : j < k => Before(list, g.vars[j], g.vars[k])
    /\ g.size = SumOf(Size, g.vars)
    /\ g.writable <=> Registered(g.vars) \subseteq Writable

LEMMA RegisteredAppend ==
    ASSUME NEW list \in Seq(Var), NEW v \in Var
    PROVE  Registered(Append(list, v)) = Registered(list) \cup {v}
<1> DEFINE more == Append(list, v)
<1>1. /\ DOMAIN list = 1 .. Len(list) /\ DOMAIN more = 1 .. Len(list) + 1 /\ Len(list) \in Nat
      /\ more[Len(list) + 1] = v /\ \A k \in 1 .. Len(list) : more[k] = list[k]
  OBVIOUS
<1> HIDE DEF more
<1>2. \A k \in 1 .. Len(list) + 1 : k \in 1 .. Len(list) \/ k = Len(list) + 1
  BY <1>1
<1>3. Registered(more) = Registered(list) \cup {v}
  BY <1>1, <1>2 DEF Registered
<1> QED BY <1>3 DEF more

LEMMA WithVarProper ==
    ASSUME NEW list, NEW g, Proper(g, list), NEW v \in Var, v \in Registered(list),
           \A j \in 1 .. Len(g.vars) : Before(list, g.vars[j], v)
    PROVE  /\ Proper(WithVar(g, v), list)
           /\ WithVar(g, v).vars = Append(g.vars, v)
<1> DEFINE h == WithVar(g, v)
           w == g.writable /\ v \in Writable
<1>0. h = [vars |-> Append(g.vars, v), size |-> g.size + Size[v], writable |-> w]
  BY DEF WithVar
<1>1. w \in BOOLEAN /\ (w <=> g.writable /\ v \in Writable)
  BY DEF w
<1> HIDE DEF w, h
<1>2. g.vars \in Seq(Var) /\ g.size \in Nat /\ g.writable \in BOOLEAN /\ Size \in [Var -> Nat]
  BY ServerAssumption DEF Proper, Group
<1>3. h.vars = Append(g.vars, v) /\ h.size = g.size + Size[v] /\ h.writable = w
  BY <1>0
<1>4. /\ h.vars \in Seq(Var) /\ Len(h.vars) = Len(g.vars) + 1 /\ Len(g.vars) \in Nat
      /\ \A j \in 1 .. Len(g.vars) : h.vars[j] = g.vars[j]
      /\ h.vars[Len(g.vars) + 1] = v
  BY <1>2, <1>3
<1>5. h \in Group
  BY <1>0, <1>1, <1>2 DEF Group
<1>6. \A j \in 1 .. Len(h.vars) : j \in 1 .. Len(g.vars) \/ j = Len(g.vars) + 1
  BY <1>4
<1>7. \A j \in 1 .. Len(h.vars) : h.vars[j] \in Registered(list)
  BY <1>4, <1>6 DEF Proper
<1>8. ASSUME NEW j \in 1 .. Len(h.vars), NEW k \in 1 .. Len(h.vars), j < k
      PROVE  Before(list, h.vars[j], h.vars[k])
  <2>1. j \in 1 .. Len(g.vars)
    BY <1>4, <1>8
  <2>2. CASE k \in 1 .. Len(g.vars)
    BY <1>4, <1>8, <2>1, <2>2 DEF Proper
  <2>3. CASE k = Len(g.vars) + 1
    BY <1>4, <2>1, <2>3
  <2> QED BY <1>6, <2>2, <2>3
<1>9. h.size = SumOf(Size, h.vars)
  <2>1. SumOf(Size, Append(g.vars, v)) = SumOf(Size, g.vars) + Size[v]
    BY <1>2, SumOfOneMore
  <2> QED BY <1>3, <2>1 DEF Proper
<1>10. h.writable <=> Registered(h.vars) \subseteq Writable
  <2>1. Registered(h.vars) = Registered(g.vars) \cup {v}
    BY <1>2, <1>3, RegisteredAppend
  <2>2. g.writable <=> Registered(g.vars) \subseteq Writable
    BY DEF Proper
  <2> QED BY <1>1, <1>3, <2>1, <2>2
<1>11. Proper(h, list)
  BY <1>5, <1>7, <1>8, <1>9, <1>10 DEF Proper
<1> QED BY <1>3, <1>11 DEF h

LEMMA EmptyProper == ASSUME NEW list PROVE Proper(EmptyGroup, list)
<1>1. EmptyGroup \in Group /\ EmptyGroup.vars = << >> /\ EmptyGroup.size = 0 /\ EmptyGroup.writable
  BY DEF EmptyGroup, Group
<1>2. Registered(<< >>) = {} /\ Len(<< >>) = 0
  BY DEF Registered
<1> QED BY <1>1, <1>2, SumOfNone DEF Proper

LEMMA CollectedProper ==
    ASSUME NEW ids, Len(ids) \in Nat, vars \in Seq(Var), NoTwice(vars), WellChosen(ids),
           DOMAIN ids = 1 .. Len(ids)
    PROVE  Proper(Collected(ids), vars)
<1> DEFINE N == Len(ids)
           E(f) == [n \in 0 .. N |-> IF n = 0 THEN EmptyGroup
                                     ELSE WithVar(f[n - 1], vars[ids[n] + 1])]
           upTo == CHOOSE f : f = E(f)
           Till(g, n) == \A j \in 1 .. Len(g.vars) : \A a \in 1 .. Len(vars) :
                             vars[a] = g.vars[j] => n > 0 /\ a <= ids[n] + 1
           Fit(g, n) == Proper(g, vars) /\ Till(g, n)
           Good(f, n) == /\ f \in [0 .. n -> Group] /\ f[0] = EmptyGroup
                         /\ \A k \in 1 .. n : f[k] = WithVar(f[k - 1], vars[ids[k] + 1])
                         /\ \A k \in 0 .. n : Fit(f[k], k)
           S == {n \in Nat : n <= N => \E f : Good(f, n)}
<1>1. \A k \in 1 .. N : /\ ids[k] \in Nat /\ ids[k] + 1 \in 1 .. Len(vars)
                        /\ vars[ids[k] + 1] \in Var /\ vars[ids[k] + 1] \in Registered(vars)
                        /\ k > 1 => ids[k - 1] \in Nat /\ ids[k - 1] < ids[k]
  <2> SUFFICES ASSUME NEW k \in 1 .. N
               PROVE  /\ ids[k] \in Nat /\ ids[k] + 1 \in 1 .. Len(vars)
                      /\ vars[ids[k] + 1] \in Var /\ vars[ids[k] + 1] \in Registered(vars)
                      /\ k > 1 => ids[k - 1] \in Nat /\ ids[k - 1] < ids[k]
    OBVIOUS
  <2>1. ids[k] \in Nat /\ ids[k] + 1 \in 1 .. Len(vars)
    BY DEF Ids, WellChosen
  <2>2. ids[k] + 1 \in DOMAIN vars /\ DOMAIN vars = 1 .. Len(vars)
    BY <2>1
  <2>3. k > 1 => k - 1 \in 1 .. N /\ k \in 2 .. N
    OBVIOUS
  <2>4. k > 1 => ids[k - 1] \in Nat /\ ids[k - 1] < ids[k]
    BY <2>3 DEF Ids, WellChosen
  <2> QED BY <2>1, <2>2, <2>4 DEF Registered
<1>2. Fit(EmptyGroup, 0)
  <2>1. Len(EmptyGroup.vars) = 0
    BY DEF EmptyGroup
  <2> QED BY <2>1, EmptyProper
\* One more variable.
<1>3. ASSUME NEW n \in Nat, n + 1 <= N, NEW g, Fit(g, n)
      PROVE  Fit(WithVar(g, vars[ids[n + 1] + 1]), n + 1)
  <2> DEFINE v == vars[ids[n + 1] + 1]
             h == WithVar(g, v)
  <2>1. n + 1 \in 1 .. N /\ n + 1 - 1 = n
    BY <1>3
  <2>2. /\ ids[n + 1] \in Nat /\ ids[n + 1] + 1 \in 1 .. Len(vars)
        /\ v \in Var /\ v \in Registered(vars)
        /\ n > 0 => ids[n] \in Nat /\ ids[n] < ids[n + 1]
    BY <1>1, <2>1
  <2>3. \A b \in 1 .. Len(vars) : vars[b] = v => b = ids[n + 1] + 1
    BY <2>2 DEF NoTwice
  <2> HIDE DEF v
  <2>4. ASSUME NEW j \in 1 .. Len(g.vars) PROVE Before(vars, g.vars[j], v)
    <3> SUFFICES ASSUME NEW a \in 1 .. Len(vars), NEW b \in 1 .. Len(vars),
                        vars[a] = g.vars[j], vars[b] = v
                 PROVE  a < b
      BY DEF Before
    <3>1. n > 0 /\ a <= ids[n] + 1
      BY <1>3
    <3>2. b = ids[n + 1] + 1
      BY <2>3
    <3> QED BY <2>2, <3>1, <3>2
  <2>5. Proper(h, vars) /\ h.vars = Append(g.vars, v)
    BY <1>3, <2>2, <2>4, WithVarProper
  <2> HIDE DEF h
  <2>6. Till(h, n + 1)
    <3> SUFFICES ASSUME NEW j \in 1 .. Len(h.vars), NEW a \in 1 .. Len(vars),
                        vars[a] = h.vars[j]
                 PROVE  a <= ids[n + 1] + 1
      BY <1>3
    <3>1. g.vars \in Seq(Var)
      BY <1>3 DEF Proper, Group
    <3>2. CASE j \in 1 .. Len(g.vars)
      <4>1. vars[a] = g.vars[j]
        BY <2>2, <2>5, <3>1, <3>2
      <4>2. n > 0 /\ a <= ids[n] + 1
        BY <1>3, <3>2, <4>1
      <4> QED BY <2>2, <4>2
    <3>3. CASE j = Len(g.vars) + 1
      <4>1. vars[a] = v
        BY <2>2, <2>5, <3>1, <3>3
      <4> QED BY <2>2, <2>3, <4>1
    <3> QED BY <2>2, <2>5, <3>1, <3>2, <3>3
  <2> QED BY <2>5, <2>6 DEF h, v
<1> HIDE DEF Fit, Till
<1>4. 0 \in S
  <2> DEFINE z == [k \in 0 .. 0 |-> EmptyGroup]
  <2>1. z \in [0 .. 0 -> Group] /\ z[0] = EmptyGroup
    BY EmptyProper DEF Proper
  <2>2. \A k \in 1 .. 0 : FALSE
    OBVIOUS
  <2>3. \A k \in 0 .. 0 : k = 0
    OBVIOUS
  <2> HIDE DEF z
  <2>4. Good(z, 0)
    BY <1>2, <2>1, <2>2, <2>3
  <2> QED BY <2>4
<1>5. ASSUME NEW n \in S PROVE n + 1 \in S
  <2> HIDE DEF Good, N
  <2> SUFFICES ASSUME n + 1 <= N PROVE \E f : Good(f, n + 1)
    OBVIOUS
  <2> USE DEF Good, N
  <2>1. n \in Nat /\ N \in Nat /\ n <= N
    OBVIOUS
  <2>2. PICK f : Good(f, n)
    BY <2>1
  <2> DEFINE last == WithVar(f[n], vars[ids[n + 1] + 1])
             g == [k \in 0 .. n + 1 |-> IF k <= n THEN f[k] ELSE last]
  <2>3. Fit(last, n + 1) /\ last \in Group
    <3>1. Fit(f[n], n)
      BY <2>1, <2>2
    <3>2. Fit(last, n + 1)
      BY <1>3, <2>1, <3>1
    <3> QED BY <3>2 DEF Fit, Proper
  <2> HIDE DEF last
  <2>4. /\ g[n + 1] = last /\ \A k \in 0 .. n : g[k] = f[k]
        /\ g \in [0 .. n + 1 -> Group]
    BY <2>1, <2>2, <2>3
  <2> HIDE DEF g
  <2>5. ASSUME NEW k \in 1 .. n + 1
        PROVE  g[k] = WithVar(g[k - 1], vars[ids[k] + 1])
    <3>0. k - 1 \in 0 .. n
      BY <2>1
    <3>1. g[k - 1] = f[k - 1]
      BY <3>0, <2>4
    <3>2. CASE k = n + 1
      BY <2>1, <2>4, <3>1, <3>2 DEF last
    <3>3. CASE k \in 1 .. n
      BY <2>1, <2>2, <2>4, <3>1, <3>3
    <3> QED BY <2>1, <3>2, <3>3
  <2>6. \A k \in 0 .. n + 1 : Fit(g[k], k)
    <3> TAKE k \in 0 .. n + 1
    <3>1. k \in 0 .. n \/ k = n + 1
      BY <2>1
    <3> QED BY <2>2, <2>3, <2>4, <3>1
  <2>7. g[0] = EmptyGroup
    BY <2>1, <2>2, <2>4
  <2>8. Good(g, n + 1)
    BY <2>4, <2>5, <2>6, <2>7
  <2> QED BY <2>8
<1>6. PICK f : Good(f, N)
  <2> HIDE DEF Good
  <2>1. N \in S
    <3> HIDE DEF S
    <3>1. S \subseteq Nat
      BY DEF S
    <3> QED BY <1>4, <1>5, <3>1, AllNumbers
  <2> QED BY <2>1
<1>7. f = E(f)
  BY <1>6
<1>8. upTo = E(upTo)
  BY <1>7
<1>9. Collected(ids) = upTo[N]
  BY DEF Collected
<1> HIDE DEF upTo
<1> DEFINE T == {n \in Nat : n <= N => Fit(upTo[n], n)}
<1>10. T = Nat
  <2>1. 0 \in T
    <3>1. upTo[0] = EmptyGroup
      BY <1>8
    <3> QED BY <1>2, <3>1
  <2>2. ASSUME NEW n \in T PROVE n + 1 \in T
    <3> SUFFICES ASSUME n + 1 <= N PROVE Fit(upTo[n + 1], n + 1)
      OBVIOUS
    <3>1. Fit(upTo[n], n) /\ n \in Nat
      OBVIOUS
    <3>2. upTo[n + 1] = WithVar(upTo[n], vars[ids[n + 1] + 1])
      BY <1>8
    <3> QED BY <1>3, <3>1, <3>2
  <2> HIDE DEF T
  <2>3. T \subseteq Nat
    BY DEF T
  <2> QED BY <2>1, <2>2, <2>3, AllNumbers
<1>11. Fit(upTo[N], N)
  BY <1>10
<1> QED BY <1>9, <1>11 DEF Fit

-----------------------------------------------------------------------------
(***************************************************************************)
(* The invariant of the server.                                            *)
(***************************************************************************)
Standard ==
    /\ Registered(groups[GROUP_ALL].vars) = Registered(vars)
    /\ Registered(groups[GROUP_READ].vars) = Registered(vars) \ Writable
    /\ Registered(groups[GROUP_WRITE].vars) = Registered(vars) \cap Writable

ServerInv ==
    /\ TypeOK
    /\ NoTwice(vars)
    /\ \A i \in 1 .. Len(groups) : Proper(groups[i], vars)
    /\ Standard

LEMMA InitServerInv == Init => ServerInv
<1> SUFFICES ASSUME Init PROVE ServerInv
  OBVIOUS
<1>1. vars \in Seq(Var) /\ Len(vars) = 0 /\ funcs \in Seq(Func) /\ Len(funcs) = 0
  BY DEF Init
<1>2. groups \in Seq(Group) /\ Len(groups) = 3 /\ \A i \in 1 .. 3 : groups[i] = EmptyGroup
  BY EmptyProper DEF Init, StandardGroups, Proper
<1>3. TypeOK
  BY <1>1, <1>2, ServerAssumption DEF Init, TypeOK
<1>4. Standard
  <2>1. Registered(vars) = {} /\ Registered(EmptyGroup.vars) = {}
    BY <1>1 DEF Registered, EmptyGroup
  <2>2. /\ groups[GROUP_ALL] = EmptyGroup /\ groups[GROUP_READ] = EmptyGroup
        /\ groups[GROUP_WRITE] = EmptyGroup
    BY <1>2 DEF GROUP_ALL, GROUP_READ, GROUP_WRITE
  <2> QED BY <2>1, <2>2 DEF Standard
<1> QED BY <1>1, <1>2, <1>3, <1>4, EmptyProper DEF ServerInv, NoTwice

LEMMA RegisterKeepsInv ==
    ASSUME ServerInv, NEW v \in Var, RegisterVariable(v) PROVE ServerInv'
<1>1. vars' = Append(vars, v) /\ groups' = Joined(groups, v) /\ UNCHANGED <<funcs, value>>
      /\ Len(vars) < MaxVars /\ v \notin Registered(vars)
  BY DEF RegisterVariable
<1>2. /\ vars \in Seq(Var) /\ groups \in Seq(Group) /\ MaxVars \in Nat /\ Len(vars) \in Nat
      /\ Len(groups) \in 3 .. MaxGroups /\ MaxGroups \in Nat
      /\ \A i \in 1 .. Len(groups) : Proper(groups[i], vars)
  BY ServerAssumption DEF ServerInv, TypeOK
<1> DEFINE more == Append(vars, v)
<1>3. /\ more \in Seq(Var) /\ Len(more) = Len(vars) + 1 /\ more[Len(vars) + 1] = v
      /\ \A j \in 1 .. Len(vars) : more[j] = vars[j]
      /\ DOMAIN vars = 1 .. Len(vars)
      /\ Registered(more) = Registered(vars) \cup {v}
  BY <1>2, RegisteredAppend
<1>4. vars' = more
  BY <1>1
<1> HIDE DEF more
<1>5. \A j \in 1 .. Len(more) : j \in 1 .. Len(vars) \/ j = Len(vars) + 1
  BY <1>2, <1>3
<1>6. \A a \in 1 .. Len(vars) : more[a] # v
  BY <1>1, <1>3 DEF Registered
<1>7. NoTwice(more)
  <2> SUFFICES ASSUME NEW a \in 1 .. Len(more), NEW b \in 1 .. Len(more), more[a] = more[b]
               PROVE  a = b
    BY DEF NoTwice
  <2>1. CASE a \in 1 .. Len(vars) /\ b \in 1 .. Len(vars)
    BY <1>3, <2>1 DEF ServerInv, NoTwice
  <2> QED BY <1>3, <1>5, <1>6, <2>1
<1>8. ASSUME NEW g, Proper(g, vars)
      PROVE  Proper(g, more) /\ \A j \in 1 .. Len(g.vars) : Before(more, g.vars[j], v)
  <2>0. g.vars \in Seq(Var)
    BY <1>8 DEF Proper, Group
  <2>1. \A j \in 1 .. Len(g.vars) : g.vars[j] \in Registered(vars) /\ g.vars[j] # v
    BY <1>1, <1>8 DEF Proper
  <2>2. \A j \in 1 .. Len(g.vars), a \in 1 .. Len(more) :
            more[a] = g.vars[j] => a \in 1 .. Len(vars) /\ vars[a] = g.vars[j]
    BY <1>3, <1>5, <2>1
  <2>3. ASSUME NEW j \in 1 .. Len(g.vars), NEW k \in 1 .. Len(g.vars), j < k
        PROVE  Before(more, g.vars[j], g.vars[k])
    <3>1. Before(vars, g.vars[j], g.vars[k])
      BY <1>8, <2>3 DEF Proper
    <3> QED BY <2>2, <3>1 DEF Before
  <2>4. ASSUME NEW j \in 1 .. Len(g.vars) PROVE Before(more, g.vars[j], v)
    <3> SUFFICES ASSUME NEW a \in 1 .. Len(more), NEW b \in 1 .. Len(more),
                        more[a] = g.vars[j], more[b] = v
                 PROVE  a < b
      BY DEF Before
    <3>1. a \in 1 .. Len(vars)
      BY <2>2
    <3>2. b = Len(vars) + 1
      BY <1>5, <1>6
    <3> QED BY <1>2, <3>1, <3>2
  <2>5. \A j \in 1 .. Len(g.vars) : g.vars[j] \in Registered(more)
    BY <1>3, <2>1
  <2>6. Proper(g, more)
    BY <1>8, <2>3, <2>5 DEF Proper
  <2> QED BY <2>4, <2>6
<1>9. \A i \in 1 .. Len(groups) :
          /\ Proper(groups[i], more) /\ Proper(WithVar(groups[i], v), more)
          /\ WithVar(groups[i], v).vars = Append(groups[i].vars, v)
  <2> TAKE i \in 1 .. Len(groups)
  <2>1. /\ Proper(groups[i], more)
        /\ \A j \in 1 .. Len(groups[i].vars) : Before(more, groups[i].vars[j], v)
    BY <1>2, <1>8
  <2>2. v \in Registered(more)
    BY <1>3
  <2> QED BY <2>1, <2>2, WithVarProper
<1> DEFINE kind == IF v \in Writable THEN GROUP_WRITE ELSE GROUP_READ
<1>10. /\ groups' \in Seq(Group) /\ Len(groups') = Len(groups)
       /\ \A i \in 1 .. Len(groups) :
              groups'[i] = IF i \in {GROUP_ALL, kind} THEN WithVar(groups[i], v) ELSE groups[i]
  <2>1. DOMAIN groups = 1 .. Len(groups) /\ Len(groups) \in Nat
    BY <1>2
  <2>2. \A i \in 1 .. Len(groups) : groups[i] \in Group /\ WithVar(groups[i], v) \in Group
    BY <1>9 DEF Proper
  <2>3. groups' = [i \in 1 .. Len(groups) |->
                      IF i \in {GROUP_ALL, kind} THEN WithVar(groups[i], v) ELSE groups[i]]
    BY <1>1, <2>1 DEF Joined
  <2> HIDE DEF kind
  <2> QED BY <2>1, <2>2, <2>3
<1>11. \A i \in 1 .. Len(groups') : Proper(groups'[i], more)
  <2> HIDE DEF kind
  <2> QED BY <1>9, <1>10
<1>12. Standard'
  <2>1. \A i \in 1 .. Len(groups) :
            Registered(WithVar(groups[i], v).vars) = Registered(groups[i].vars) \cup {v}
    <3> TAKE i \in 1 .. Len(groups)
    <3>0. groups[i] \in Group
      BY <1>2
    <3>1. groups[i].vars \in Seq(Var)
      BY <3>0 DEF Group
    <3> QED BY <1>9, <3>1, RegisteredAppend
  <2>2. 1 \in 1 .. Len(groups) /\ 2 \in 1 .. Len(groups) /\ 3 \in 1 .. Len(groups)
    BY <1>2
  <2>3. /\ groups'[1] = WithVar(groups[1], v)
        /\ groups'[2] = IF v \in Writable THEN groups[2] ELSE WithVar(groups[2], v)
        /\ groups'[3] = IF v \in Writable THEN WithVar(groups[3], v) ELSE groups[3]
    BY <1>10, <2>2 DEF GROUP_ALL, GROUP_READ, GROUP_WRITE
  <2>4. /\ Registered(groups[1].vars) = Registered(vars)
        /\ Registered(groups[2].vars) = Registered(vars) \ Writable
        /\ Registered(groups[3].vars) = Registered(vars) \cap Writable
    BY DEF ServerInv, Standard, GROUP_ALL, GROUP_READ, GROUP_WRITE
  <2>5. Registered(vars') = Registered(vars) \cup {v}
    BY <1>3, <1>4
  <2>6. Registered(groups'[1].vars) = Registered(vars')
    BY <2>1, <2>2, <2>3, <2>4, <2>5
  <2>7. Registered(groups'[2].vars) = Registered(vars') \ Writable
    BY <2>1, <2>2, <2>3, <2>4, <2>5
  <2>8. Registered(groups'[3].vars) = Registered(vars') \cap Writable
    BY <2>1, <2>2, <2>3, <2>4, <2>5
  <2> QED BY <2>6, <2>7, <2>8 DEF Standard, GROUP_ALL, GROUP_READ, GROUP_WRITE
<1>13. TypeOK'
  <2>1. vars' \in Seq(Var) /\ Len(vars') <= MaxVars
    BY <1>1, <1>2, <1>3, <1>4
  <2>2. groups' \in Seq(Group) /\ Len(groups') \in 3 .. MaxGroups
    BY <1>2, <1>10
  <2> QED BY <1>1, <2>1, <2>2 DEF ServerInv, TypeOK
<1> QED BY <1>4, <1>7, <1>11, <1>12, <1>13 DEF ServerInv

-----------------------------------------------------------------------------
(***************************************************************************)
(* The groups after a command.                                             *)
(***************************************************************************)
Moved ==
    \/ UNCHANGED groups
    \/ groups' = SubSeq(groups, 1, 3)
    \/ \E ids \in Seq(Nat) :
          WellChosen(ids) /\ groups' = Append(groups, Collected(ids)) /\ Len(groups) # MaxGroups

LEMMA CreateMoves ==
    ASSUME NEW ids \in Seq(Nat), GroupCreate(ids) PROVE Moved /\ UNCHANGED value
  BY DEF GroupCreate, Moved, Refuse, Give

LEMMA RemoveMoves == ASSUME GroupRemoveAll PROVE Moved /\ UNCHANGED value
  BY DEF GroupRemoveAll, Moved, Give

\* What the groups become, and which of them stay.
LEMMA MovedKeepsInv ==
    ASSUME ServerInv, Moved, UNCHANGED <<vars, funcs, value>>
    PROVE  /\ ServerInv'
           /\ \A i \in 1 .. Len(groups) : i <= 3 \/ Len(groups) <= Len(groups') =>
                  i <= Len(groups') /\ groups'[i] = groups[i]
<1>1. /\ vars \in Seq(Var) /\ groups \in Seq(Group) /\ Len(groups) \in 3 .. MaxGroups
      /\ MaxGroups \in Nat /\ Len(groups) \in Nat
      /\ \A i \in 1 .. Len(groups) : Proper(groups[i], vars)
  BY ServerAssumption DEF ServerInv, TypeOK
<1>2. /\ groups' \in Seq(Group) /\ Len(groups') \in 3 .. MaxGroups
      /\ \A i \in 1 .. Len(groups') : Proper(groups'[i], vars)
      /\ \A i \in 1 .. Len(groups) : i <= 3 \/ Len(groups) <= Len(groups') =>
             i <= Len(groups') /\ groups'[i] = groups[i]
  <2>1. CASE UNCHANGED groups
    BY <1>1, <2>1
  <2>2. CASE groups' = SubSeq(groups, 1, 3)
    <3>1. groups' \in Seq(Group) /\ Len(groups') = 3 /\ \A i \in 1 .. 3 : groups'[i] = groups[i]
      BY <1>1, <2>2
    <3>2. \A i \in 1 .. Len(groups') : i \in 1 .. Len(groups) /\ groups'[i] = groups[i]
      BY <1>1, <3>1
    <3>3. 3 \in 3 .. MaxGroups
      BY ServerAssumption
    <3> QED BY <1>1, <3>1, <3>2, <3>3
  <2>3. ASSUME NEW ids \in Seq(Nat), WellChosen(ids),
               groups' = Append(groups, Collected(ids)), Len(groups) # MaxGroups
        PROVE  /\ groups' \in Seq(Group) /\ Len(groups') \in 3 .. MaxGroups
               /\ \A i \in 1 .. Len(groups') : Proper(groups'[i], vars)
               /\ \A i \in 1 .. Len(groups) : i <= 3 \/ Len(groups) <= Len(groups') =>
                      i <= Len(groups') /\ groups'[i] = groups[i]
    <3> DEFINE c == Collected(ids)
    <3>1. Proper(c, vars)
      BY <1>1, <2>3, CollectedProper DEF ServerInv
    <3> HIDE DEF c
    <3>2. c \in Group
      BY <3>1 DEF Proper
    <3>3. /\ groups' \in Seq(Group) /\ Len(groups') = Len(groups) + 1
          /\ groups'[Len(groups) + 1] = c
          /\ \A i \in 1 .. Len(groups) : groups'[i] = groups[i]
      BY <1>1, <2>3, <3>2 DEF c
    <3>4. \A i \in 1 .. Len(groups') : Proper(groups'[i], vars)
      <4> TAKE i \in 1 .. Len(groups')
      <4>1. i \in 1 .. Len(groups) \/ i = Len(groups) + 1
        BY <1>1, <3>3
      <4> QED BY <1>1, <3>1, <3>3, <4>1
    <3>5. Len(groups') \in 3 .. MaxGroups
      BY <1>1, <2>3, <3>3
    <3>6. \A i \in 1 .. Len(groups) : i <= Len(groups')
      BY <1>1, <3>3
    <3> QED BY <3>3, <3>4, <3>5, <3>6
  <2> QED BY <2>1, <2>2, <2>3 DEF Moved
<1>3. Standard'
  <2>1. 1 \in 1 .. Len(groups) /\ 2 \in 1 .. Len(groups) /\ 3 \in 1 .. Len(groups)
    BY <1>1
  <2>2. groups'[1] = groups[1] /\ groups'[2] = groups[2] /\ groups'[3] = groups[3]
    BY <1>2, <2>1
  <2> QED BY <2>2 DEF ServerInv, Standard, GROUP_ALL, GROUP_READ, GROUP_WRITE
<1>4. TypeOK'
  BY <1>2 DEF ServerInv, TypeOK
<1> QED BY <1>2, <1>3, <1>4 DEF ServerInv

-----------------------------------------------------------------------------
(***************************************************************************)
(* The groups are right.                                                   *)
(***************************************************************************)
\* Where a registered variable is.
LEMMA IdOfPlace ==
    ASSUME vars \in Seq(Var), NEW v \in Registered(vars)
    PROVE  IdOf(v) \in Nat /\ IdOf(v) + 1 \in 1 .. Len(vars) /\ vars[IdOf(v) + 1] = v
<1>1. DOMAIN vars = 1 .. Len(vars)
  OBVIOUS
<1>2. \E i \in DOMAIN vars : vars[i] = v
  BY DEF Registered
<1> DEFINE c == CHOOSE i \in DOMAIN vars : vars[i] = v
<1>3. c \in DOMAIN vars /\ vars[c] = v
  BY <1>2
<1> HIDE DEF c
<1>4. IdOf(v) = c - 1
  BY DEF IdOf, c
<1> QED BY <1>1, <1>3, <1>4

LEMMA InvWellFormed == ServerInv => GroupsWellFormed
<1> SUFFICES ASSUME ServerInv PROVE GroupsWellFormed
  OBVIOUS
<1>1. ASSUME NEW i \in DOMAIN groups
      PROVE  LET g == groups[i] IN
             /\ \A j \in DOMAIN g.vars : g.vars[j] \in Registered(vars)
             /\ \A j \in 2 .. Len(g.vars) : IdOf(g.vars[j - 1]) < IdOf(g.vars[j])
             /\ g.size = SumOf(Size, g.vars)
             /\ g.writable <=> Registered(g.vars) \subseteq Writable
  <2> DEFINE g == groups[i]
  <2>1. vars \in Seq(Var) /\ i \in 1 .. Len(groups)
    BY DEF ServerInv, TypeOK
  <2>2. Proper(g, vars)
    BY <2>1 DEF ServerInv
  <2> HIDE DEF g
  <2>3. g.vars \in Seq(Var) /\ DOMAIN g.vars = 1 .. Len(g.vars)
    BY <2>2 DEF Proper, Group
  <2>4. ASSUME NEW j \in 2 .. Len(g.vars) PROVE IdOf(g.vars[j - 1]) < IdOf(g.vars[j])
    <3>1. j - 1 \in 1 .. Len(g.vars) /\ j \in 1 .. Len(g.vars) /\ j - 1 < j
      BY <2>3
    <3> DEFINE x == g.vars[j - 1]
               y == g.vars[j]
    <3>2. Before(vars, x, y) /\ x \in Registered(vars) /\ y \in Registered(vars)
      BY <2>2, <3>1 DEF Proper
    <3> HIDE DEF x, y
    <3>3. /\ IdOf(x) \in Nat /\ IdOf(x) + 1 \in 1 .. Len(vars) /\ vars[IdOf(x) + 1] = x
          /\ IdOf(y) \in Nat /\ IdOf(y) + 1 \in 1 .. Len(vars) /\ vars[IdOf(y) + 1] = y
      BY <2>1, <3>2, IdOfPlace
    <3>4. IdOf(x) + 1 < IdOf(y) + 1
      BY <3>2, <3>3 DEF Before
    <3>5. IdOf(x) < IdOf(y)
      BY <3>3, <3>4
    <3> QED BY <3>5 DEF x, y
  <2>5. /\ \A j \in DOMAIN g.vars : g.vars[j] \in Registered(vars)
        /\ g.size = SumOf(Size, g.vars)
    BY <2>2, <2>3 DEF Proper
  <2>6. g.writable <=> Registered(g.vars) \subseteq Writable
    BY <2>2 DEF Proper
  <2> QED BY <2>4, <2>5, <2>6 DEF g
<1> QED BY <1>1 DEF GroupsWellFormed, ServerInv, Standard

-----------------------------------------------------------------------------
(***************************************************************************)
(* What a command may do to the values.                                    *)
(***************************************************************************)
Kept == \A v \in Var : v \notin Writable \cap Registered(vars) => value'[v] = value[v]

Harmless ==
    answer'.code \notin {"OK", "VAR_VALUE"} =>
        \A v \in Var : value'[v] # value[v] =>
            answer'.code = "INVALID_VALUE" /\ value'[v] \in Accepts[v]

Right == value' \in [Var -> Value] /\ Kept /\ Harmless

LEMMA SameIsRight == ASSUME value \in [Var -> Value], UNCHANGED value PROVE Right
  BY DEF Right, Kept, Harmless

\* What is in the list may be asked for by its id.
LEMMA OfId ==
    ASSUME ServerInv, NEW id \in Ids(vars)
    PROVE  vars[id + 1] \in Var /\ vars[id + 1] \in Registered(vars)
<1>1. vars \in Seq(Var) /\ id + 1 \in 1 .. Len(vars)
  BY DEF ServerInv, TypeOK, Ids
<1> QED BY <1>1 DEF Registered

LEMMA OfGroup ==
    ASSUME ServerInv, NEW id \in Ids(groups)
    PROVE  /\ Registered(groups[id + 1].vars) \subseteq Var \cap Registered(vars)
           /\ groups[id + 1].writable <=> Registered(groups[id + 1].vars) \subseteq Writable
<1> DEFINE g == groups[id + 1]
<1>1. id + 1 \in 1 .. Len(groups)
  BY DEF ServerInv, TypeOK, Ids
<1>2. Proper(g, vars)
  BY <1>1 DEF ServerInv
<1> HIDE DEF g
<1>3. g.vars \in Seq(Var)
  BY <1>2 DEF Proper, Group
<1>4. Registered(g.vars) \subseteq Var \cap Registered(vars)
  BY <1>2, <1>3 DEF Proper, Registered
<1>5. g.writable <=> Registered(g.vars) \subseteq Writable
  BY <1>2 DEF Proper
<1> QED BY <1>4, <1>5 DEF g

\* One variable is given a value.
LEMMA OneIsKept ==
    ASSUME value \in [Var -> Value], NEW v \in Var \cap Writable \cap Registered(vars),
           NEW x \in Value, value' = [value EXCEPT ![v] = x]
    PROVE  value' \in [Var -> Value] /\ Kept
  BY DEF Kept

\* Several variables are given values.
LEMMA SomeAreKept ==
    ASSUME value \in [Var -> Value], NEW D \in SUBSET (Var \cap Writable \cap Registered(vars)),
           NEW xs \in [D -> Value], value' = With(xs)
    PROVE  /\ value' \in [Var -> Value] /\ Kept
           /\ \A v \in Var : value'[v] = IF v \in D THEN xs[v] ELSE value[v]
<1>1. value' = [v \in Var |-> IF v \in D THEN xs[v] ELSE value[v]]
  BY DEF With
<1> QED BY <1>1 DEF Kept

LEMMA BinOpType ==
    ASSUME NEW op \in Op, NEW x \in Value, NEW mask \in Value
    PROVE  BinOp(op, x, mask) \in Value
<1>1. op \in {"A", "O", "X", "S", "C", "T"}
  BY ServerAssumption
<1> QED BY <1>1 DEF BinOp, Value

LEMMA QueriesAreRight == ASSUME ServerInv, Queries PROVE Right
<1>1. UNCHANGED value
  BY DEF Queries, QueryVersion, VarQueryList, GroupQueryList, FuncQueryList, GroupQuery,
         GroupRead, VarRead, FuncExecute, BadId, BadSize, Give, Refuse
<1> QED BY <1>1, SameIsRight DEF ServerInv, TypeOK

LEMMA VarWriteIsRight == ASSUME ServerInv, NEW id, VarWrite(id) PROVE Right
<1> value \in [Var -> Value]
  BY DEF ServerInv, TypeOK
<1>1. CASE UNCHANGED value
  BY <1>1, SameIsRight
<1>2. CASE ~UNCHANGED value
  <2>1. /\ id \in Ids(vars)
        /\ \E x \in Value : /\ MayWrite(vars[id + 1], x)
                            /\ value' = [value EXCEPT ![vars[id + 1]] = x]
                            /\ answer' = [code |-> "OK", payload |-> << >>]
    BY <1>2 DEF VarWrite, BadId, BadSize, Refuse, RefuseWrite
  <2>2. Harmless
    BY <2>1 DEF Harmless
  <2> QED BY <2>1, <2>2, OfId, OneIsKept DEF Right, MayWrite
<1> QED BY <1>1, <1>2

LEMMA VarWriteReadIsRight == ASSUME ServerInv, NEW id, NEW rd, VarWriteRead(id, rd) PROVE Right
<1> value \in [Var -> Value]
  BY DEF ServerInv, TypeOK
<1>1. CASE UNCHANGED value
  BY <1>1, SameIsRight
<1>2. CASE ~UNCHANGED value
  <2>1. /\ id \in Ids(vars)
        /\ \E x \in Value : /\ MayWrite(vars[id + 1], x)
                            /\ value' = [value EXCEPT ![vars[id + 1]] = x]
        /\ answer'.code = "VAR_VALUE"
    BY <1>2 DEF VarWriteRead, BadId, BadSize, Refuse, RefuseWrite
  <2>2. Harmless
    BY <2>1 DEF Harmless
  <2> QED BY <2>1, <2>2, OfId, OneIsKept DEF Right, MayWrite
<1> QED BY <1>1, <1>2

LEMMA VarBinOpIsRight == ASSUME ServerInv, NEW id, NEW op \in Op, VarBinOp(id, op) PROVE Right
<1>0. value \in [Var -> Value]
  BY DEF ServerInv, TypeOK
<1>1. CASE UNCHANGED value
  BY <1>0, <1>1, SameIsRight
<1>2. CASE ~UNCHANGED value
  <2>1. /\ id \in Ids(vars) /\ vars[id + 1] \in Writable
        /\ \E mask \in Value : value' = [value EXCEPT ![vars[id + 1]] = BinOp(op, @, mask)]
        /\ answer' = [code |-> "OK", payload |-> << >>]
    BY <1>2 DEF VarBinOp, BadId, BadSize, Refuse
  <2>2. PICK mask \in Value : value' = [value EXCEPT ![vars[id + 1]] = BinOp(op, @, mask)]
    BY <2>1
  <2>3. vars[id + 1] \in Var /\ vars[id + 1] \in Registered(vars)
    BY <2>1, OfId
  <2>4. BinOp(op, value[vars[id + 1]], mask) \in Value
    BY <1>0, <2>3, BinOpType
  <2>5. Harmless
    BY <2>1 DEF Harmless
  <2> QED BY <1>0, <2>1, <2>2, <2>3, <2>4, <2>5, OneIsKept DEF Right
<1> QED BY <1>1, <1>2

LEMMA GroupWriteIsRight == ASSUME ServerInv, NEW id, GroupWrite(id) PROVE Right
<1>0. value \in [Var -> Value]
  BY DEF ServerInv, TypeOK
<1>1. CASE UNCHANGED value
  BY <1>0, <1>1, SameIsRight
<1>2. CASE ~UNCHANGED value
  <2> DEFINE g == groups[id + 1]
  <2>1. /\ id \in Ids(groups) /\ g.writable
        /\ \E xs \in Parcel(g) :
              LET bad == {v \in DOMAIN xs : xs[v] \notin Accepts[v]} IN
              /\ value' = With([v \in DOMAIN xs \ bad |-> xs[v]])
              /\ answer' = [code |-> IF bad = {} THEN "OK" ELSE "INVALID_VALUE",
                            payload |-> << >>]
    BY <1>2 DEF GroupWrite, BadId, BadSize, Refuse
  <2>2. Registered(g.vars) \subseteq Var \cap Writable \cap Registered(vars)
    BY <2>1, OfGroup
  <2>3. PICK xs \in Parcel(g) :
              LET bad == {v \in DOMAIN xs : xs[v] \notin Accepts[v]} IN
              /\ value' = With([v \in DOMAIN xs \ bad |-> xs[v]])
              /\ answer' = [code |-> IF bad = {} THEN "OK" ELSE "INVALID_VALUE",
                            payload |-> << >>]
    BY <2>1
  <2> DEFINE D == {v \in Registered(g.vars) : xs[v] \in Accepts[v]}
             ys == [v \in D |-> xs[v]]
  <2>4. xs \in [Registered(g.vars) -> Value]
    BY DEF Parcel
  <2>5. value' = With(ys)
    <3>1. DOMAIN xs \ {v \in DOMAIN xs : xs[v] \notin Accepts[v]} = D
      BY <2>4
    <3> QED BY <2>3, <3>1
  <2>6. ys \in [D -> Value] /\ D \in SUBSET (Var \cap Writable \cap Registered(vars))
    BY <2>2, <2>4
  <2>7. answer'.code \in {"OK", "INVALID_VALUE"}
    BY <2>3
  <2>8. \A v \in D : ys[v] \in Accepts[v]
    OBVIOUS
  <2> HIDE DEF D, ys
  <2>9. /\ value' \in [Var -> Value] /\ Kept
        /\ \A v \in Var : value'[v] = IF v \in D THEN ys[v] ELSE value[v]
    BY <1>0, <2>5, <2>6, SomeAreKept
  <2>10. Harmless
    BY <2>7, <2>8, <2>9 DEF Harmless
  <2> QED BY <2>9, <2>10 DEF Right
<1> QED BY <1>1, <1>2

LEMMA GroupBinOpIsRight == ASSUME ServerInv, NEW id, NEW op \in Op, GroupBinOp(id, op) PROVE Right
<1>0. value \in [Var -> Value]
  BY DEF ServerInv, TypeOK
<1>1. CASE UNCHANGED value
  BY <1>0, <1>1, SameIsRight
<1>2. CASE ~UNCHANGED value
  <2> DEFINE g == groups[id + 1]
  <2>1. /\ id \in Ids(groups) /\ g.writable
        /\ \E masks \in Parcel(g) :
              value' = With([v \in DOMAIN masks |-> BinOp(op, value[v], masks[v])])
        /\ answer' = [code |-> "OK", payload |-> << >>]
    BY <1>2 DEF GroupBinOp, BadId, BadSize, Refuse
  <2>2. Registered(g.vars) \subseteq Var \cap Writable \cap Registered(vars)
    BY <2>1, OfGroup
  <2>3. PICK masks \in Parcel(g) :
              value' = With([v \in DOMAIN masks |-> BinOp(op, value[v], masks[v])])
    BY <2>1
  <2> DEFINE D == Registered(g.vars)
             ys == [v \in D |-> BinOp(op, value[v], masks[v])]
  <2>4. masks \in [D -> Value]
    BY DEF Parcel
  <2>5. value' = With(ys)
    BY <2>3, <2>4
  <2>6. ys \in [D -> Value]
    BY <1>0, <2>2, <2>4, BinOpType
  <2>7. D \in SUBSET (Var \cap Writable \cap Registered(vars))
    BY <2>2
  <2> HIDE DEF D, ys
  <2>8. value' \in [Var -> Value] /\ Kept
    BY <1>0, <2>5, <2>6, <2>7, SomeAreKept
  <2>9. Harmless
    BY <2>1 DEF Harmless
  <2> QED BY <2>8, <2>9 DEF Right
<1> QED BY <1>1, <1>2

LEMMA CommandIsRight == ASSUME ServerInv, Command PROVE Right
<1>1. CASE Queries
  BY <1>1, QueriesAreRight
<1>2. CASE \E id \in SomeVar : VarWrite(id) \/ \E rd \in SomeVar : VarWriteRead(id, rd)
  BY <1>2, VarWriteIsRight, VarWriteReadIsRight
<1>3. CASE \E id \in SomeVar, op \in Op : VarBinOp(id, op)
  BY <1>3, VarBinOpIsRight
<1>4. CASE \E id \in SomeGroup : GroupWrite(id) \/ \E op \in Op : GroupBinOp(id, op)
  BY <1>4, GroupWriteIsRight, GroupBinOpIsRight
<1> QED BY <1>1, <1>2, <1>3, <1>4 DEF Command, Writes

-----------------------------------------------------------------------------
(***************************************************************************)
(* What one step may do to the server, whoever takes it.                   *)
(***************************************************************************)
Effect ==
    \/ \E v \in Var : RegisterVariable(v)
    \/ \E f \in Func : RegisterFunction(f)
    \/ UNCHANGED <<vars, groups, funcs>> /\ (Right \/ UNCHANGED value)
    \/ UNCHANGED <<vars, funcs, value>> /\ Moved

LEMMA SomeIds == ASSUME NEW n \in 0 .. Len(vars), vars \in Seq(Var), NEW ids \in [1 .. n -> SomeVar]
                 PROVE  ids \in Seq(Nat)
<1>1. n \in Nat /\ \A i \in 1 .. n : ids[i] \in Nat
  BY DEF SomeVar
<1> QED BY <1>1

LEMMA ServerEffect == ASSUME ServerInv, [Next]_server PROVE Effect
<1>1. CASE Command
  BY <1>1, CommandIsRight DEF Command, Effect
<1>2. CASE Rearrange
  <2>1. vars \in Seq(Var) /\ UNCHANGED <<vars, funcs>>
    BY <1>2 DEF ServerInv, TypeOK, Rearrange
  <2>2. Moved /\ UNCHANGED value
    BY <1>2, <2>1, SomeIds, CreateMoves, RemoveMoves DEF Rearrange
  <2> QED BY <2>1, <2>2 DEF Effect
<1>3. CASE UNCHANGED server
  BY <1>3 DEF server, Effect
<1> QED BY <1>1, <1>2, <1>3 DEF Next, Effect

LEMMA EffectKeepsInv == ASSUME ServerInv, Effect PROVE ServerInv'
<1>1. CASE \E v \in Var : RegisterVariable(v)
  BY <1>1, RegisterKeepsInv
<1>2. CASE \E f \in Func : RegisterFunction(f)
  <2>1. PICK f \in Func : RegisterFunction(f)
    BY <1>2
  <2>2. /\ UNCHANGED <<vars, groups, value>>
        /\ funcs' = Append(funcs, f) /\ Len(funcs) < MaxFuncs
    BY <2>1 DEF RegisterFunction
  <2>3. funcs' \in Seq(Func) /\ Len(funcs') <= MaxFuncs
    BY <2>2, ServerAssumption DEF ServerInv, TypeOK
  <2> QED BY <2>2, <2>3 DEF ServerInv, TypeOK, Standard
<1>3. CASE UNCHANGED <<vars, groups, funcs>> /\ (Right \/ UNCHANGED value)
  <2>1. value' \in [Var -> Value]
    BY <1>3 DEF Right, ServerInv, TypeOK
  <2> QED BY <1>3, <2>1 DEF ServerInv, TypeOK, Standard
<1>4. CASE UNCHANGED <<vars, funcs, value>> /\ Moved
  BY <1>4, MovedKeepsInv
<1> QED BY <1>1, <1>2, <1>3, <1>4 DEF Effect

LEMMA EffectIsRight == Effect => Kept /\ Harmless
  BY DEF Effect, Right, Kept, Harmless, RegisterVariable, RegisterFunction

(***************************************************************************)
(* The lists.  Their bytes tell the sizes and numbers apart when there are *)
(* fewer variables than the flag in the byte leaves room for: BSMP_MAX_-   *)
(* VARIABLES of them in a group would be told as none.  No variable is     *)
(* empty, and the largest size is the one that is told as 0.               *)
(***************************************************************************)
ListsHaveRoom ==
    /\ IsFiniteSet(Var) /\ Cardinality(Var) < Flag
    /\ VarMaxSize = Flag /\ \A v \in Var : Size[v] \in 1 .. VarMaxSize

\* The two parts of a byte.
LEMMA Parts ==
    ASSUME NEW n \in 0 .. Flag - 1
    PROVE  /\ n % Flag = n /\ (n + Flag) % Flag = n /\ (n + 0) % (2 * Flag) = n
           /\ (n + Flag) % (2 * Flag) = n + Flag /\ Flag % Flag = 0
<1> Flag \in Nat /\ Flag > 0 /\ n \in Nat /\ n < Flag
  BY ServerAssumption
<1>1. n % Flag = n
  OBVIOUS
<1>2. (n + Flag) % Flag = n
  OBVIOUS
<1>3. n % (2 * Flag) = n
  OBVIOUS
<1>4. (n + Flag) % (2 * Flag) = n + Flag
  OBVIOUS
<1>5. Flag % Flag = 0
  OBVIOUS
<1> QED BY <1>1, <1>2, <1>3, <1>4, <1>5

LEMMA VarByteTells ==
    ASSUME ListsHaveRoom, NEW v \in Var
    PROVE  /\ Size[v] = IF Low(VarByte(v)) = 0 THEN VarMaxSize ELSE Low(VarByte(v))
           /\ v \in Writable <=> High(VarByte(v))
<1>1. Size[v] \in 1 .. Flag /\ VarMaxSize = Flag /\ Flag \in Nat /\ Flag > 0
  BY ServerAssumption DEF ListsHaveRoom
<1>2. CASE Size[v] = Flag
  <2>1. Size[v] % Flag = 0 /\ 0 % Flag = 0 /\ (0 + Flag) % Flag = 0
    BY <1>1, <1>2, Parts
  <2> QED BY <1>1, <1>2, <2>1 DEF Low, High, VarByte
<1>3. CASE Size[v] < Flag
  <2>1. Size[v] \in 0 .. Flag - 1
    BY <1>1, <1>3
  <2>2. Size[v] % Flag = Size[v] /\ (Size[v] + Flag) % Flag = Size[v]
    BY <2>1, Parts
  <2>3. CASE v \in Writable
    <3>1. VarByte(v) = Size[v] + Flag
      BY <2>2, <2>3 DEF VarByte
    <3> QED BY <1>1, <1>3, <2>2, <2>3, <3>1 DEF Low, High
  <2>4. CASE v \notin Writable
    <3>1. VarByte(v) = Size[v]
      BY <1>1, <2>2, <2>4 DEF VarByte
    <3> QED BY <1>1, <1>3, <2>2, <2>4, <3>1 DEF Low, High
  <2> QED BY <2>3, <2>4
<1> QED BY <1>1, <1>2, <1>3

LEMMA GroupByteTells ==
    ASSUME ListsHaveRoom, vars \in Seq(Var), NEW g, Proper(g, vars)
    PROVE  Len(g.vars) = Low(GroupByte(g)) /\ (g.writable <=> High(GroupByte(g)))
<1>1. /\ g.vars \in Seq(Var) /\ Len(g.vars) \in Nat /\ g.writable \in BOOLEAN
      /\ Flag \in Nat /\ Flag > 0
  BY ServerAssumption DEF Proper, Group
<1>2. Len(g.vars) < Flag
  <2> DEFINE n == Len(g.vars)
             f == [j \in 1 .. n |-> g.vars[j]]
  <2>1. ASSUME NEW j \in 1 .. n, NEW k \in 1 .. n, j < k PROVE g.vars[j] # g.vars[k]
    <3>1. Before(vars, g.vars[j], g.vars[k]) /\ g.vars[j] \in Registered(vars)
      BY <2>1 DEF Proper
    <3>2. PICK a \in 1 .. Len(vars) : vars[a] = g.vars[j]
      BY <3>1 DEF Registered
    <3> SUFFICES ASSUME g.vars[j] = g.vars[k] PROVE FALSE
      OBVIOUS
    <3>3. a < a
      BY <3>1, <3>2 DEF Before
    <3> QED BY <3>3
  <2>2. \A j, k \in 1 .. n : g.vars[j] = g.vars[k] => j = k
    <3> TAKE j, k \in 1 .. n
    <3>1. j < k \/ k < j \/ j = k
      BY <1>1
    <3> QED BY <2>1, <3>1
  <2>3. f \in Injection(1 .. n, Var)
    BY <1>1, <2>2 DEF Injection, IsInjective
  <2>4. Cardinality(1 .. n) = n /\ IsFiniteSet(1 .. n)
    <3>1. 1 \in Int /\ n \in Int /\ n \in Nat
      BY <1>1
    <3>2. IsFiniteSet(1 .. n) /\ Cardinality(1 .. n) = IF 1 > n THEN 0 ELSE n - 1 + 1
      BY <3>1, FS_Interval
    <3> HIDE DEF n
    <3> QED BY <3>1, <3>2
  <2>5. Cardinality(1 .. n) <= Cardinality(Var) /\ Cardinality(Var) \in Nat
    BY <2>3, FS_Injection, FS_CardinalityType DEF ListsHaveRoom
  <2> QED BY <1>1, <2>4, <2>5 DEF ListsHaveRoom
<1>3. Len(g.vars) \in 0 .. Flag - 1
  BY <1>1, <1>2
<1> DEFINE n == Len(g.vars)
<1>4. /\ n % Flag = n /\ (n + Flag) % Flag = n /\ (n + 0) % (2 * Flag) = n
      /\ (n + Flag) % (2 * Flag) = n + Flag
  BY <1>3, Parts
<1>5. CASE g.writable
  <2>1. GroupByte(g) = n + Flag
    BY <1>4, <1>5 DEF GroupByte
  <2>2. Low(GroupByte(g)) = n /\ High(GroupByte(g))
    <3> HIDE DEF n
    <3>1. n \in Nat
      BY <1>1 DEF n
    <3> QED BY <1>1, <1>4, <2>1, <3>1 DEF Low, High
  <2> QED BY <1>5, <2>2
<1>6. CASE ~g.writable
  <2>1. GroupByte(g) = n
    BY <1>4, <1>6 DEF GroupByte
  <2>2. Low(GroupByte(g)) = n /\ ~High(GroupByte(g))
    <3> HIDE DEF n
    <3>1. n \in Nat /\ n < Flag
      BY <1>1, <1>2 DEF n
    <3> QED BY <1>1, <1>4, <2>1, <3>1 DEF Low, High
  <2> QED BY <1>6, <2>2
<1> QED BY <1>5, <1>6

LEMMA InvTellsTruth == ASSUME ListsHaveRoom, ServerInv PROVE ListsTellTheTruth
<1>1. /\ vars \in Seq(Var) /\ groups \in Seq(Group)
      /\ \A i \in 1 .. Len(groups) : Proper(groups[i], vars)
  BY DEF ServerInv, TypeOK
<1>2. Registered(vars) \subseteq Var
  BY <1>1 DEF Registered
<1>3. \A g \in Registered(groups) : Proper(g, vars)
  BY <1>1 DEF Registered
<1>4. \A v \in Registered(vars) :
        /\ Size[v] = IF Low(VarByte(v)) = 0 THEN VarMaxSize ELSE Low(VarByte(v))
        /\ v \in Writable <=> High(VarByte(v))
  BY <1>2, VarByteTells
<1>5. \A g \in Registered(groups) :
        Len(g.vars) = Low(GroupByte(g)) /\ (g.writable <=> High(GroupByte(g)))
  BY <1>1, <1>3, GroupByteTells
<1> QED BY <1>4, <1>5 DEF ListsTellTheTruth

-----------------------------------------------------------------------------
(***************************************************************************)
(* What the client and the other hosts may do to the server.               *)
(***************************************************************************)
Quiet == UNCHANGED <<vars, groups, funcs>> /\ (Right \/ UNCHANGED value)
Still == UNCHANGED <<vars, groups, funcs, value>>

LEMMA StillIsQuiet == (Still => Quiet) /\ (UNCHANGED server => Still)
  BY DEF Still, Quiet, server

LEMMA AskingIsStill ==
    ASSUME KeepLists, NEW id,
           \/ QueryVersion \/ VarQueryList \/ GroupQueryList \/ FuncQueryList
           \/ GroupQuery(id) \/ VarRead(id) \/ GroupRead(id) \/ \E ret \in {0, 1} : FuncExecute(id, ret)
    PROVE  Still
  BY DEF KeepLists, Still, QueryVersion, VarQueryList, GroupQueryList, FuncQueryList, GroupQuery,
         VarRead, GroupRead, FuncExecute, BadId, BadSize, Refuse, Give

LEMMA OpeningIsStill == ASSUME Opening PROVE Still /\ report' = NoReport
<1>1. CASE Open
  BY <1>1, StillIsQuiet DEF Open
<1>2. CASE GetVersion
  BY <1>2, StillIsQuiet, AskingIsStill DEF GetVersion, Exchange
<1>3. CASE UpdateVars
  BY <1>3, StillIsQuiet, AskingIsStill DEF UpdateVars, Exchange
<1>4. CASE ListGroups
  BY <1>4, StillIsQuiet, AskingIsStill DEF ListGroups, Exchange
<1>5. CASE QueryGroup
  BY <1>5, StillIsQuiet, AskingIsStill DEF QueryGroup, Exchange
<1>6. CASE UpdateFuncs
  BY <1>6, StillIsQuiet, AskingIsStill DEF UpdateFuncs, Exchange
<1> QED BY <1>1, <1>2, <1>3, <1>4, <1>5, <1>6 DEF Opening

\* What does not change when the application asks for something.
Asked == job.at = "idle" /\ UNCHANGED <<cache, job, removed>>

LEMMA ReadsAreQuiet ==
    ASSUME NEW id, ReadVar(id) \/ ReadGroup(id) \/ ExecuteFunc(id) PROVE Still /\ Asked
<1>1. CASE ReadVar(id)
  BY <1>1, StillIsQuiet, AskingIsStill DEF ReadVar, Call, Exchange, Asked
<1>2. CASE ReadGroup(id)
  BY <1>2, StillIsQuiet, AskingIsStill DEF ReadGroup, Call, Exchange, Asked
<1>3. CASE ExecuteFunc(id)
  BY <1>3, StillIsQuiet, AskingIsStill DEF ExecuteFunc, Call, Exchange, Asked
<1> QED BY <1>1, <1>2, <1>3

LEMMA WritesAreQuiet ==
    ASSUME ServerInv, NEW id,
           \/ WriteVar(id) \/ WriteGroup(id) \/ \E rd : WriteReadVars(id, rd)
           \/ \E op \in Op : BinOpVar(id, op) \/ BinOpGroup(id, op)
    PROVE  Quiet /\ Asked
<1>1. CASE WriteVar(id)
  BY <1>1, StillIsQuiet, VarWriteIsRight DEF WriteVar, Call, Exchange, Asked, KeepLists, Quiet
<1>2. CASE WriteGroup(id)
  BY <1>2, StillIsQuiet, GroupWriteIsRight DEF WriteGroup, Call, Exchange, Asked, KeepLists, Quiet
<1>3. CASE \E rd : WriteReadVars(id, rd)
  BY <1>3, StillIsQuiet, VarWriteReadIsRight
     DEF WriteReadVars, Call, Exchange, Asked, KeepLists, Quiet
<1>4. CASE \E op \in Op : BinOpVar(id, op)
  BY <1>4, StillIsQuiet, VarBinOpIsRight DEF BinOpVar, Call, Exchange, Asked, KeepLists, Quiet
<1>5. CASE \E op \in Op : BinOpGroup(id, op)
  BY <1>5, StillIsQuiet, GroupBinOpIsRight DEF BinOpGroup, Call, Exchange, Asked, KeepLists, Quiet
<1> QED BY <1>1, <1>2, <1>3, <1>4, <1>5

\* Groups are created or removed.
Rearranging == Moved /\ UNCHANGED <<vars, funcs, value, cache>> /\ Rearranged

Updating ==
    /\ Rearranging /\ job.at = "idle"
    /\ UNCHANGED job \/ Go("groups", 0)
    /\ report'.read = << >>

LEMMA StillMoves == ASSUME UNCHANGED server PROVE Moved /\ UNCHANGED <<vars, funcs, value>>
  BY DEF server, Moved

LEMMA CreateUpdates == ASSUME NEW ids \in Choice, CreateGroup(ids) PROVE Updating
<1>0. ids \in Seq(Nat)
  BY ClientAssumption
<1>1. Moved /\ UNCHANGED <<vars, funcs, value>>
  BY <1>0, CreateMoves, StillMoves DEF CreateGroup, Update, Exchange
<1> QED BY <1>1 DEF CreateGroup, Update, Exchange, Updating, Rearranging, Tell, CommunicationFailed

LEMMA RemoveUpdates == ASSUME RemoveAllGroups PROVE Updating
<1>1. Moved /\ UNCHANGED <<vars, funcs, value>>
  BY RemoveMoves, StillMoves DEF RemoveAllGroups, Update, Exchange
<1> QED BY <1>1 DEF RemoveAllGroups, Update, Exchange, Updating, Rearranging, Tell, CommunicationFailed

LEMMA OthersRearrange ==
    ASSUME OtherHost PROVE Rearranging /\ UNCHANGED job /\ report' = NoReport
<1>0. Choice \subseteq Seq(Nat)
  BY ClientAssumption
<1>1. Moved /\ UNCHANGED value
  BY <1>0, CreateMoves, RemoveMoves DEF OtherHost
<1> QED BY <1>1 DEF OtherHost, Rearranging

LEMMA ApplicationAsks ==
    ASSUME ServerInv, Application PROVE (Quiet /\ Asked) \/ Updating
<1>1. CASE \E id \in Ids(cache.vars) :
               \/ ReadVar(id) \/ WriteVar(id)
               \/ \E rd \in Ids(cache.vars) : WriteReadVars(id, rd)
               \/ \E op \in Op : BinOpVar(id, op)
  BY <1>1, ReadsAreQuiet, WritesAreQuiet, StillIsQuiet
<1>2. CASE \E i \in Ids(cache.groups) :
               ReadGroup(i) \/ WriteGroup(i) \/ \E op \in Op : BinOpGroup(i, op)
  BY <1>2, ReadsAreQuiet, WritesAreQuiet, StillIsQuiet
<1>3. CASE \E id \in Ids(cache.funcs) : ExecuteFunc(id)
  BY <1>3, ReadsAreQuiet, StillIsQuiet
<1>4. CASE (\E ids \in Choice : CreateGroup(ids)) \/ RemoveAllGroups
  BY <1>4, CreateUpdates, RemoveUpdates
<1> QED BY <1>1, <1>2, <1>3, <1>4 DEF Application

LEMMA SetUpEnrolls ==
    ASSUME SetUp
    PROVE  /\ hosts # "any" /\ ~Complete /\ UNCHANGED <<hosts, client, value>>
           /\ \/ /\ Len(vars) < Len(Registration)
                 /\ RegisterVariable(Registration[Len(vars) + 1])
              \/ \E f \in Func : RegisterFunction(f)
  BY DEF SetUp, RegisterVariable, RegisterFunction, Complete, client

\* Curves leave the tables of the server and its values alone.
LEMMA CurvesAreStill == ASSUME Curves PROVE Still
<1> UNCHANGED <<vars, groups, funcs>>
  BY DEF Curves
<1> SUFFICES UNCHANGED value
  BY DEF Still
<1>1. \A b, data : CurveBlock(b, data) => UNCHANGED value
  BY DEF CurveBlock, RefuseBlock, Refuse, Give
<1>2. CurveRecalcCsum => UNCHANGED value
  BY DEF CurveRecalcCsum, Refuse, Give
<1>3. \A b : CurveBlockRequest(b) => UNCHANGED value
  BY DEF CurveBlockRequest, Refuse, Give
<1>4. UNCHANGED server => UNCHANGED value
  BY DEF server
<1>5. CASE UpdateCurves \/ UpdateChecksum
  BY <1>4, <1>5 DEF UpdateCurves, UpdateChecksum, Exchange, CurveQueryList, CurveQueryCsum, Give
<1>6. CASE SendCurveBlock
  BY <1>1, <1>4, <1>6 DEF SendCurveBlock, ExchangeBlock
<1>7. CASE ReadCurve \/ \E data \in Data : WriteCurve(data)
  BY <1>4, <1>7 DEF ReadCurve, WriteCurve
<1>8. CASE RequestCurveBlock
  BY <1>3, <1>4, <1>8 DEF RequestCurveBlock, Exchange
<1>9. CASE RecalcChecksum
  BY <1>2, <1>4, <1>9 DEF RecalcChecksum, ExchangeBlock
<1>10. CASE AnotherHost
  BY <1>1, <1>2, <1>10 DEF AnotherHost
<1> QED BY <1>5, <1>6, <1>7, <1>8, <1>9, <1>10 DEF Curves

LEMMA StepEffect ==
    ASSUME ServerInv, [CurveNext]_<<hosts, server, client, curves>> PROVE Effect
<1>1. CASE UNCHANGED server
  BY <1>1, StillIsQuiet DEF Quiet, Effect
<1>2. CASE AnyHosts
  BY <1>2, ServerEffect DEF AnyHosts
<1>3. CASE SetUp
  <2>1. vars \in Seq(Var) /\ Registration \in Seq(Var)
    BY ClientAssumption DEF ServerInv, TypeOK
  <2>2. Len(vars) < Len(Registration) => Registration[Len(vars) + 1] \in Var
    BY <2>1
  <2> QED BY <1>3, <2>2, SetUpEnrolls DEF Effect
<1>4. CASE OneClient
  <2>1. CASE Opening
    BY <2>1, OpeningIsStill, StillIsQuiet DEF Quiet, Effect
  <2>2. CASE Application
    BY <2>2, ApplicationAsks DEF Quiet, Effect, Updating, Rearranging
  <2>3. CASE OtherHost
    BY <2>3, OthersRearrange DEF Rearranging, Effect
  <2> QED BY <1>4, <2>1, <2>2, <2>3 DEF OneClient
<1>5. CASE Curves
  BY <1>5, CurvesAreStill, StillIsQuiet DEF Quiet, Effect
<1> QED BY <1>1, <1>2, <1>3, <1>4, <1>5 DEF CurveNext, ClientNext

-----------------------------------------------------------------------------
(***************************************************************************)
(* The invariant of the client: what its copies say, wherever it is in     *)
(* loading them.                                                           *)
(***************************************************************************)
GroupCopy == [vars : Seq(Nat), count : Nat, size : Nat, writable : BOOLEAN]
Loaded == {"groups", "group", "funcs", "idle"}
Job == [at : {"closed", "version", "vars"} \cup Loaded, next : Nat, opening : BOOLEAN]

ClientTypeOK ==
    /\ cache = [vars |-> cache.vars, groups |-> cache.groups, funcs |-> cache.funcs]
    /\ cache.groups \in Seq(GroupCopy)
    /\ job \in Job
    /\ removed \in BOOLEAN

\* The variables are registered in their order, before the client is opened.
AsRegistered ==
    Len(vars) <= Len(Registration) /\ \A i \in 1 .. Len(vars) : vars[i] = Registration[i]
Ready == Complete \/ (job.at = "closed" /\ report = NoReport)

\* What the list tells of a group, and what the group itself tells.
Alike(c, g) == c.count = Len(g.vars) /\ (c.writable <=> g.writable)
Same(c, g) ==
    /\ Alike(c, g) /\ c.size = g.size
    /\ [j \in DOMAIN c.vars |-> Named(c.vars[j])] = g.vars

RightVars ==
    cache.vars = [i \in 1 .. Len(vars) |->
                     [size |-> Size[vars[i]], writable |-> vars[i] \in Writable]]

\* Before the group that is asked for next, the copies are complete.
RightGroups ==
    \A i \in 1 .. Len(cache.groups) :
        /\ i <= Len(groups)
        /\ Alike(cache.groups[i], groups[i])
        /\ job.at # "group" \/ i <= job.next => Same(cache.groups[i], groups[i])

CopiesRight ==
    /\ job.at \in {"version", "vars"} => cache.groups = << >> /\ job.opening
    /\ job.at \in Loaded => RightVars
    /\ job.at \in Loaded /\ ~removed => RightGroups
    /\ job.at = "group" => job.next < Len(cache.groups)

ClientInv == ClientTypeOK /\ AsRegistered /\ Ready /\ CopiesRight

-----------------------------------------------------------------------------
LEMMA GoesTo ==
    ASSUME job \in Job, NEW place \in {"closed", "version", "vars"} \cup Loaded, NEW n \in Nat,
           Go(place, n)
    PROVE  job' \in Job /\ job'.at = place /\ job'.next = n /\ job'.opening = job.opening
  BY DEF Go, Job

LEMMA GivesUp ==
    ASSUME job \in Job, GiveUp
    PROVE  /\ job' \in Job /\ job'.at \in {"closed", "idle"}
           /\ job.opening => job'.at = "closed"
<1> DEFINE place == IF job.opening THEN "closed" ELSE "idle"
<1>1. place \in {"closed", "idle"} /\ (job.opening => place = "closed") /\ Go(place, 0)
  BY DEF GiveUp, Job
<1> HIDE DEF place
<1>2. place \in {"closed", "version", "vars"} \cup Loaded
  BY <1>1 DEF Loaded
<1>3. job' \in Job /\ job'.at = place
  BY <1>1, <1>2, GoesTo
<1> QED BY <1>1, <1>3

LEMMA IsDone == ASSUME job \in Job, Done PROVE job' \in Job /\ job'.at \in {"funcs", "idle"}
<1> DEFINE place == IF job.opening THEN "funcs" ELSE "idle"
<1>1. place \in {"funcs", "idle"} /\ Go(place, 0)
  BY DEF Done, Job
<1> HIDE DEF place
<1>2. place \in {"closed", "version", "vars"} \cup Loaded
  BY <1>1 DEF Loaded
<1>3. job' \in Job /\ job'.at = place
  BY <1>1, <1>2, GoesTo
<1> QED BY <1>1, <1>3

\* As long as the server's tables stay and the copies do.
LEMMA KeptCopies ==
    ASSUME ClientTypeOK, CopiesRight, UNCHANGED <<vars, groups, cache, removed>>,
           job' \in Job, job.at \in Loaded \ {"group"},
           job'.at \in {"closed", "groups", "funcs", "idle"}
    PROVE  ClientTypeOK' /\ CopiesRight'
<1>1. ClientTypeOK'
  BY DEF ClientTypeOK
<1>2. job.at # "group" /\ job'.at # "group" /\ job.at \in Loaded /\ job'.at \notin {"version", "vars"}
  BY DEF Loaded
<1>3. RightVars'
  BY <1>2 DEF CopiesRight, RightVars
<1>4. ~removed' => RightGroups'
  <2> SUFFICES ASSUME ~removed', NEW i \in 1 .. Len(cache.groups)
               PROVE  /\ i <= Len(groups) /\ Alike(cache.groups[i], groups[i])
                      /\ Same(cache.groups[i], groups[i])
    BY DEF RightGroups
  <2> QED BY <1>2 DEF CopiesRight, RightGroups
<1> QED BY <1>1, <1>2, <1>3, <1>4 DEF CopiesRight

LEMMA OpenRight == ASSUME Open, ClientTypeOK PROVE ClientTypeOK' /\ CopiesRight'
<1>1. cache' = NoLists /\ job' = [at |-> "version", next |-> 0, opening |-> TRUE] /\ UNCHANGED removed
  BY DEF Open
<1>2. /\ cache'.groups = << >>
      /\ cache' = [vars |-> cache'.vars, groups |-> cache'.groups, funcs |-> cache'.funcs]
  BY <1>1 DEF NoLists
<1>3. job' \in Job /\ job'.at = "version" /\ job'.opening
  BY <1>1 DEF Job
<1>4. "version" \notin Loaded /\ << >> \in Seq(GroupCopy)
  BY DEF Loaded
<1> QED BY <1>1, <1>2, <1>3, <1>4 DEF ClientTypeOK, CopiesRight

LEMMA GetVersionRight ==
    ASSUME GetVersion, ClientTypeOK, CopiesRight PROVE ClientTypeOK' /\ CopiesRight'
<1>1. UNCHANGED <<cache, removed>> /\ job \in Job /\ job.opening /\ cache.groups = << >>
  BY DEF GetVersion, ClientTypeOK, CopiesRight
<1>2. Go("vars", 0) \/ GiveUp
  BY DEF GetVersion, Exchange
<1>3. /\ job' \in Job /\ job'.at \in {"vars", "closed"}
      /\ job'.at = "vars" => job'.opening
  <2>1. CASE Go("vars", 0)
    BY <1>1, <2>1, GoesTo
  <2>2. CASE GiveUp
    BY <1>1, <2>2, GivesUp
  <2> QED BY <1>2, <2>1, <2>2
<1>4. "vars" \notin Loaded /\ "closed" \notin Loaded
  BY DEF Loaded
<1> QED BY <1>1, <1>3, <1>4 DEF ClientTypeOK, CopiesRight

LEMMA UpdateVarsRight ==
    ASSUME UpdateVars, ServerInv, ListsHaveRoom, ClientTypeOK, CopiesRight
    PROVE  ClientTypeOK' /\ CopiesRight'
<1>1. /\ UNCHANGED removed /\ job \in Job /\ job.opening /\ cache.groups = << >>
      /\ vars \in Seq(Var)
  BY DEF UpdateVars, ClientTypeOK, CopiesRight, ServerInv, TypeOK
<1>2. CASE /\ VarQueryList /\ KeepLists /\ Go("groups", 0)
           /\ cache' = [cache EXCEPT !.vars = [i \in DOMAIN answer'.payload |->
                       LET byte == answer'.payload[i] IN
                       [size |-> SizeOf(byte), writable |-> High(byte)]]]
  <2> DEFINE truth(i) == [size |-> Size[vars[i]], writable |-> vars[i] \in Writable]
             copies == [i \in 1 .. Len(vars) |-> truth(i)]
  <2>1. UNCHANGED <<vars, groups>>
    BY <1>2 DEF KeepLists
  <2>2. answer'.payload = [i \in 1 .. Len(vars) |-> VarByte(vars[i])]
    BY <1>1, <1>2 DEF VarQueryList, Give
  <2>3. \A i \in 1 .. Len(vars) :
            [size |-> SizeOf(VarByte(vars[i])), writable |-> High(VarByte(vars[i]))] = truth(i)
    <3> TAKE i \in 1 .. Len(vars)
    <3>1. vars[i] \in Var
      BY <1>1
    <3>2. SizeOf(VarByte(vars[i])) = Size[vars[i]]
      BY <3>1, VarByteTells DEF SizeOf
    <3>3. High(VarByte(vars[i])) = (vars[i] \in Writable)
      <4>1. High(VarByte(vars[i])) \in BOOLEAN /\ (vars[i] \in Writable) \in BOOLEAN
        BY DEF High
      <4> QED BY <3>1, <4>1, VarByteTells
    <3> QED BY <3>2, <3>3, Zenon
  <2> HIDE DEF truth
  <2>4. [i \in DOMAIN answer'.payload |->
            LET byte == answer'.payload[i] IN [size |-> SizeOf(byte), writable |-> High(byte)]]
        = copies
    BY <2>2, <2>3
  <2>5. cache' = [cache EXCEPT !.vars = copies]
    BY <1>2, <2>4
  <2> HIDE DEF copies
  <2>6. /\ cache' = [vars |-> cache'.vars, groups |-> cache'.groups, funcs |-> cache'.funcs]
        /\ cache'.vars = copies /\ cache'.groups = << >>
    BY <1>1, <2>5 DEF ClientTypeOK
  <2>7. job' \in Job /\ job'.at = "groups"
    BY <1>1, <1>2, GoesTo DEF Loaded
  <2>8. RightVars'
    BY <2>1, <2>6 DEF RightVars, copies, truth
  <2>9. RightGroups'
    BY <2>6 DEF RightGroups
  <2>10. ClientTypeOK'
    BY <1>1, <2>6, <2>7 DEF ClientTypeOK
  <2> QED BY <2>6, <2>7, <2>8, <2>9, <2>10 DEF CopiesRight
<1>3. CASE GiveUp /\ UNCHANGED cache
  <2>1. job' \in Job /\ job'.at = "closed"
    BY <1>1, <1>3, GivesUp
  <2>2. "closed" \notin Loaded
    BY DEF Loaded
  <2> QED BY <1>1, <1>3, <2>1, <2>2 DEF ClientTypeOK, CopiesRight
<1> QED BY <1>2, <1>3 DEF UpdateVars, Exchange

LEMMA ListGroupsRight ==
    ASSUME ListGroups, ServerInv, ListsHaveRoom, ClientTypeOK, CopiesRight
    PROVE  ClientTypeOK' /\ CopiesRight'
<1>1. /\ job \in Job /\ job.at = "groups" /\ vars \in Seq(Var)
      /\ groups \in Seq(Group) /\ Len(groups) \in Nat /\ Len(groups) >= 3
      /\ \A i \in 1 .. Len(groups) : Proper(groups[i], vars)
  BY ServerAssumption DEF ListGroups, ClientTypeOK, ServerInv, TypeOK
<1>2. CASE /\ GroupQueryList /\ KeepLists /\ Go("group", 0) /\ removed' = FALSE
           /\ cache' = [cache EXCEPT !.groups = [i \in DOMAIN answer'.payload |->
                       LET byte == answer'.payload[i] IN
                       [vars |-> << >>, count |-> Low(byte), size |-> 0,
                        writable |-> High(byte)]]]
  <2> DEFINE copied(i) == [vars |-> << >>, count |-> Low(GroupByte(groups[i])), size |-> 0,
                           writable |-> High(GroupByte(groups[i]))]
             copies == [i \in 1 .. Len(groups) |-> copied(i)]
  <2>1. UNCHANGED <<vars, groups>>
    BY <1>2 DEF KeepLists
  <2>2. answer'.payload = [i \in 1 .. Len(groups) |-> GroupByte(groups[i])]
    BY <1>1, <1>2 DEF GroupQueryList, Give
  <2>3. \A i \in 1 .. Len(groups) : copied(i) \in GroupCopy /\ Alike(copied(i), groups[i])
    <3> TAKE i \in 1 .. Len(groups)
    <3>0. groups[i] \in Group
      BY <1>1
    <3>1. Len(groups[i].vars) \in Nat
      BY <3>0 DEF Group
    <3>2. /\ Len(groups[i].vars) = Low(GroupByte(groups[i]))
          /\ groups[i].writable <=> High(GroupByte(groups[i]))
      BY <1>1, GroupByteTells
    <3> DEFINE w == High(GroupByte(groups[i]))
               n == Low(GroupByte(groups[i]))
    <3>3. w \in BOOLEAN /\ n \in Nat
      BY <3>1, <3>2 DEF High
    <3>4. copied(i) = [vars |-> << >>, count |-> n, size |-> 0, writable |-> w]
      OBVIOUS
    <3> HIDE DEF w, n, copied
    <3>5. copied(i) \in GroupCopy
      BY <3>3, <3>4 DEF GroupCopy
    <3>6. copied(i).count = n /\ copied(i).writable = w
      BY <3>4
    <3>7. copied(i).count = Len(groups[i].vars)
      BY <3>2, <3>6 DEF n
    <3>8. copied(i).writable <=> groups[i].writable
      BY <3>2, <3>6, Zenon DEF w
    <3> QED BY <3>5, <3>7, <3>8 DEF Alike
  <2>4. [i \in DOMAIN answer'.payload |->
            LET byte == answer'.payload[i] IN
            [vars |-> << >>, count |-> Low(byte), size |-> 0, writable |-> High(byte)]]
        = copies
    BY <2>2
  <2>5. cache' = [cache EXCEPT !.groups = copies]
    BY <1>2, <2>4
  <2> HIDE DEF copied
  <2>6. copies \in Seq(GroupCopy) /\ Len(copies) = Len(groups)
        /\ \A i \in 1 .. Len(groups) : copies[i] = copied(i)
    BY <1>1, <2>3
  <2> HIDE DEF copies
  <2>7. /\ cache' = [vars |-> cache'.vars, groups |-> cache'.groups, funcs |-> cache'.funcs]
        /\ cache'.vars = cache.vars /\ cache'.groups = copies
    BY <2>5 DEF ClientTypeOK
  <2>8. job' \in Job /\ job'.at = "group" /\ job'.next = 0
    BY <1>1, <1>2, GoesTo DEF Loaded
  <2>9. RightVars'
    BY <1>1, <2>1, <2>7 DEF RightVars, CopiesRight, Loaded
  <2>10. RightGroups'
    <3> SUFFICES ASSUME NEW i \in 1 .. Len(copies)
                 PROVE  i <= Len(groups) /\ Alike(copies[i], groups[i]) /\ ~(i <= 0)
      BY <2>1, <2>7, <2>8 DEF RightGroups, Alike
    <3> QED BY <1>1, <2>3, <2>6
  <2>11. ClientTypeOK'
    BY <1>2, <2>6, <2>7, <2>8 DEF ClientTypeOK
  <2>12. 0 < Len(cache'.groups)
    BY <1>1, <2>6, <2>7
  <2> QED BY <2>8, <2>9, <2>10, <2>11, <2>12 DEF CopiesRight
<1>3. CASE GiveUp /\ UNCHANGED <<cache, removed>>
  <2>1. job' \in Job /\ job'.at \in {"closed", "idle"}
    BY <1>1, <1>3, GivesUp
  <2>2. UNCHANGED <<vars, groups>>
    <3>1. Opening
      BY DEF Opening
    <3> QED BY <3>1, OpeningIsStill DEF Still
  <2> QED BY <1>1, <1>3, <2>1, <2>2, KeptCopies DEF Loaded
<1> QED BY <1>2, <1>3 DEF ListGroups, Exchange

\* The answer to the question for a group, as the client takes it.
IdsOf(ids, list) == ids = [j \in DOMAIN list |-> IdOf(list[j])]

LEMMA IdsOfGroup ==
    ASSUME ServerInv, RightVars, AsRegistered, NEW n \in 1 .. Len(groups),
           NEW ids, IdsOf(ids, groups[n].vars)
    PROVE  /\ ids \in Seq(Nat) /\ Sum(ids) = groups[n].size /\ Sum(ids) \in Nat
           /\ [j \in DOMAIN ids |-> Named(ids[j])] = groups[n].vars
<1> DEFINE g == groups[n]
<1>1. Proper(g, vars) /\ vars \in Seq(Var) /\ Size \in [Var -> Nat] /\ Registration \in Seq(Var)
  BY ServerAssumption, ClientAssumption DEF ServerInv, TypeOK
<1> HIDE DEF g
<1>2. /\ g.vars \in Seq(Var) /\ Len(g.vars) \in Nat /\ DOMAIN g.vars = 1 .. Len(g.vars)
      /\ \A j \in 1 .. Len(g.vars) : g.vars[j] \in Registered(vars) /\ g.vars[j] \in Var
      /\ g.size = SumOf(Size, g.vars)
  BY <1>1 DEF Proper, Group
<1>3. ids = [j \in 1 .. Len(g.vars) |-> IdOf(g.vars[j])]
  BY <1>2 DEF g, IdsOf
<1>4. \A j \in 1 .. Len(g.vars) :
          ids[j] \in Nat /\ ids[j] + 1 \in 1 .. Len(vars) /\ vars[ids[j] + 1] = g.vars[j]
  BY <1>1, <1>2, <1>3, IdOfPlace
<1>5. ids \in Seq(Nat) /\ Len(ids) = Len(g.vars) /\ DOMAIN ids = 1 .. Len(g.vars)
  <2> DEFINE m == Len(g.vars)
  <2>1. m \in Nat /\ ids \in [1 .. m -> Nat]
    BY <1>2, <1>3, <1>4
  <2> HIDE DEF m
  <2>2. ids \in Seq(Nat) /\ Len(ids) = m /\ DOMAIN ids = 1 .. m
    BY <2>1
  <2> QED BY <2>2 DEF m
<1> DEFINE F == [id \in Ids(cache.vars) |-> cache.vars[id + 1].size]
<1>6. \A j \in 1 .. Len(g.vars) : Size[g.vars[j]] \in Nat /\ F[ids[j]] = Size[g.vars[j]]
  <2> TAKE j \in 1 .. Len(g.vars)
  <2>1. Len(vars) \in Nat
    BY <1>1
  <2>2. Len(cache.vars) = Len(vars) /\ cache.vars[ids[j] + 1].size = Size[vars[ids[j] + 1]]
    <3> DEFINE w(i) == vars[i] \in Writable
               copies == [i \in 1 .. Len(vars) |-> [size |-> Size[vars[i]], writable |-> w(i)]]
    <3>1. cache.vars = copies
      BY DEF RightVars
    <3> HIDE DEF w
    <3>2. Len(copies) = Len(vars)
      BY <2>1
    <3>3. copies[ids[j] + 1].size = Size[vars[ids[j] + 1]]
      BY <1>4
    <3> HIDE DEF copies
    <3> QED BY <3>1, <3>2, <3>3
  <2>3. ids[j] \in Ids(cache.vars)
    <3>1. ids[j] \in Nat /\ ids[j] + 1 \in 1 .. Len(vars)
      BY <1>4
    <3> QED BY <2>1, <2>2, <3>1 DEF Ids
  <2> QED BY <1>1, <1>2, <1>4, <2>2, <2>3
<1>7. Sum(ids) = SumOf(F, ids)
  BY DEF Sum
<1> HIDE DEF F
<1>8. SumOf(Size, g.vars) = SumOf(F, ids) /\ SumOf(Size, g.vars) \in Nat
  <2> DEFINE list == g.vars
  <2>1. /\ Len(list) \in Nat /\ Len(ids) = Len(list)
        /\ \A k \in 1 .. Len(list) : Size[list[k]] \in Nat /\ F[ids[k]] = Size[list[k]]
    BY <1>2, <1>5, <1>6
  <2> HIDE DEF list
  <2>2. SumOf(Size, list) = SumOf(F, ids) /\ SumOf(Size, list) \in Nat
    BY ONLY <2>1, SameSum
  <2> QED BY <2>2 DEF list
<1>9. [j \in DOMAIN ids |-> Named(ids[j])] = g.vars
  <2>1. \A j \in 1 .. Len(g.vars) : Named(ids[j]) = g.vars[j]
    BY <1>4 DEF Named, AsRegistered
  <2>2. [j \in DOMAIN ids |-> Named(ids[j])] = [j \in 1 .. Len(g.vars) |-> g.vars[j]]
    BY <1>5, <2>1
  <2>3. [j \in 1 .. Len(g.vars) |-> g.vars[j]] = g.vars
    BY <1>2
  <2> QED BY <2>2, <2>3
<1> QED BY <1>2, <1>5, <1>7, <1>8, <1>9 DEF g

LEMMA ForgetRight ==
    ASSUME ClientTypeOK, CopiesRight, job.at = "group", GiveUp, Forget, UNCHANGED <<vars, removed>>
    PROVE  ClientTypeOK' /\ CopiesRight'
<1>1. job \in Job /\ RightVars
  BY DEF ClientTypeOK, CopiesRight, Loaded
<1>2. job' \in Job /\ job'.at \in {"closed", "idle"}
  BY <1>1, GivesUp
<1>3. /\ cache' = [vars |-> cache'.vars, groups |-> cache'.groups, funcs |-> cache'.funcs]
      /\ cache'.vars = cache.vars /\ cache'.groups = << >>
  BY DEF Forget, ClientTypeOK
<1>4. RightVars' /\ RightGroups'
  BY <1>1, <1>3 DEF RightVars, RightGroups
<1> QED BY <1>2, <1>3, <1>4 DEF ClientTypeOK, CopiesRight

LEMMA QueryGroupRight ==
    ASSUME QueryGroup, ServerInv, ClientTypeOK, AsRegistered, CopiesRight
    PROVE  ClientTypeOK' /\ CopiesRight'
<1>0. UNCHANGED <<vars, groups, removed>>
  <2>1. Opening
    BY DEF Opening
  <2> QED BY <2>1, OpeningIsStill DEF Still, QueryGroup
<1>1. /\ job \in Job /\ job.at = "group" /\ job.next \in Nat /\ RightVars
      /\ job.next < Len(cache.groups) /\ cache.groups \in Seq(GroupCopy)
      /\ groups \in Seq(Group) /\ Len(groups) \in Nat
      /\ ~removed => RightGroups
  BY DEF QueryGroup, ClientTypeOK, CopiesRight, ServerInv, TypeOK, Loaded, Job
<1>2. CASE GiveUp /\ Forget
  BY <1>0, <1>1, <1>2, ForgetRight
<1>3. ASSUME GroupQuery(job.next), Got("GROUP"),
             cache' = [cache EXCEPT !.groups[job.next + 1] =
                          [@ EXCEPT !.vars = answer'.payload, !.size = Sum(answer'.payload)]],
             IF job.next + 1 = Len(cache.groups) THEN Done ELSE Go("group", job.next + 1)
      PROVE  ClientTypeOK' /\ CopiesRight'
  <2> DEFINE n == job.next + 1
             ids == answer'.payload
             c == cache.groups[n]
             new == [c EXCEPT !.vars = ids, !.size = Sum(ids)]
  <2>1. /\ n \in 1 .. Len(groups) /\ n \in Nat
        /\ IdsOf(ids, groups[n].vars)
    BY <1>1, <1>3 DEF GroupQuery, Got, BadId, Refuse, Give, Ids, IdsOf
  <2>2. n \in 1 .. Len(cache.groups) /\ c \in GroupCopy
    BY <1>1
  <2>3. cache' = [cache EXCEPT !.groups = [cache.groups EXCEPT ![n] = new]]
    BY <1>3
  <2> HIDE DEF n, ids, c
  <2>4. /\ ids \in Seq(Nat) /\ Sum(ids) = groups[n].size /\ Sum(ids) \in Nat
        /\ [j \in DOMAIN ids |-> Named(ids[j])] = groups[n].vars
    BY <1>1, <2>1, IdsOfGroup
  <2>5. /\ new \in GroupCopy /\ new.vars = ids /\ new.size = Sum(ids)
        /\ new.count = c.count /\ new.writable = c.writable
    BY <2>2, <2>4 DEF GroupCopy
  <2> HIDE DEF new
  <2>6. /\ cache' = [vars |-> cache'.vars, groups |-> cache'.groups, funcs |-> cache'.funcs]
        /\ cache'.vars = cache.vars /\ cache'.groups = [cache.groups EXCEPT ![n] = new]
    BY <2>3 DEF ClientTypeOK
  <2>7. /\ cache'.groups \in Seq(GroupCopy) /\ Len(cache'.groups) = Len(cache.groups)
        /\ cache'.groups[n] = new
        /\ \A i \in 1 .. Len(cache.groups) : i # n => cache'.groups[i] = cache.groups[i]
    BY <1>1, <2>2, <2>5, <2>6
  <2>8. Alike(c, groups[n]) => Same(new, groups[n])
    BY <2>4, <2>5 DEF Alike, Same
  <2>9. /\ job' \in Job /\ job'.at \in {"funcs", "idle", "group"}
        /\ job'.at = "group" => job'.next = n /\ n < Len(cache.groups)
        /\ job'.at # "group" => n = Len(cache.groups)
    <3>1. CASE n = Len(cache.groups) /\ Done
      BY <1>1, <3>1, IsDone
    <3>2. CASE n # Len(cache.groups) /\ Go("group", n)
      <4>1. job' \in Job /\ job'.at = "group" /\ job'.next = n
        BY <1>1, <2>1, <3>2, GoesTo DEF Loaded
      <4> QED BY <2>1, <2>2, <3>2, <4>1
    <3> QED BY <1>3, <3>1, <3>2 DEF n
  <2>10. RightVars'
    BY <1>0, <1>1, <2>6 DEF RightVars
  <2>11. ASSUME ~removed PROVE RightGroups'
    <3> SUFFICES ASSUME NEW i \in 1 .. Len(cache.groups)
                 PROVE  /\ i <= Len(groups) /\ Alike(cache'.groups[i], groups[i])
                        /\ job'.at # "group" \/ i <= job'.next => Same(cache'.groups[i], groups[i])
      BY <1>0, <2>7 DEF RightGroups
    <3>1. /\ i <= Len(groups) /\ Alike(cache.groups[i], groups[i])
          /\ i <= job.next => Same(cache.groups[i], groups[i])
      BY <1>1, <2>11 DEF RightGroups
    <3>2. CASE i = n
      <4>1. Same(new, groups[n])
        BY <2>8, <3>1, <3>2 DEF c
      <4> QED BY <2>7, <3>1, <3>2, <4>1 DEF Same
    <3>3. CASE i # n
      <4>1. cache'.groups[i] = cache.groups[i]
        BY <2>7, <3>3
      <4>2. job'.at # "group" \/ i <= job'.next => i <= job.next
        BY <1>1, <2>1, <2>2, <2>9, <3>3 DEF n
      <4> QED BY <3>1, <4>1, <4>2
    <3> QED BY <3>2, <3>3
  <2>12. ClientTypeOK'
    BY <1>0, <2>6, <2>7, <2>9 DEF ClientTypeOK
  <2>13. job'.at \notin {"version", "vars"} /\ (job'.at = "group" => job'.next < Len(cache'.groups))
    BY <2>7, <2>9
  <2> QED BY <1>0, <2>10, <2>11, <2>12, <2>13 DEF CopiesRight
<1> QED BY <1>2, <1>3 DEF QueryGroup, Exchange

LEMMA UpdateFuncsRight ==
    ASSUME UpdateFuncs, ServerInv, ClientTypeOK, CopiesRight PROVE ClientTypeOK' /\ CopiesRight'
<1>0. UNCHANGED <<vars, groups, removed>>
  <2>1. Opening
    BY DEF Opening
  <2> QED BY <2>1, OpeningIsStill DEF Still, UpdateFuncs
<1>1. job \in Job /\ job.at = "funcs"
  BY DEF UpdateFuncs, ClientTypeOK
<1>2. CASE GiveUp /\ UNCHANGED cache
  <2>1. job' \in Job /\ job'.at \in {"closed", "idle"}
    BY <1>1, <1>2, GivesUp
  <2> QED BY <1>0, <1>1, <1>2, <2>1, KeptCopies DEF Loaded
<1>3. CASE /\ cache' = [cache EXCEPT !.funcs = answer'.payload]
           /\ job' = [at |-> "idle", next |-> 0, opening |-> FALSE]
  <2>1. /\ cache' = [vars |-> cache'.vars, groups |-> cache'.groups, funcs |-> cache'.funcs]
        /\ cache'.vars = cache.vars /\ cache'.groups = cache.groups
    BY <1>3 DEF ClientTypeOK
  <2>2. job' \in Job /\ job'.at = "idle"
    BY <1>3 DEF Job, Loaded
  <2>3. ClientTypeOK'
    BY <1>0, <2>1, <2>2 DEF ClientTypeOK
  <2>4. RightVars'
    BY <1>0, <1>1, <2>1 DEF RightVars, CopiesRight, Loaded
  <2>5. ~removed => RightGroups'
    <3> SUFFICES ASSUME ~removed, NEW i \in 1 .. Len(cache.groups)
                 PROVE  /\ i <= Len(groups) /\ Alike(cache.groups[i], groups[i])
                        /\ Same(cache.groups[i], groups[i])
      BY <1>0, <2>1 DEF RightGroups
    <3>1. RightGroups /\ job.at # "group"
      BY <1>1 DEF CopiesRight, Loaded
    <3> QED BY <3>1 DEF RightGroups
  <2> QED BY <1>0, <2>2, <2>3, <2>4, <2>5 DEF CopiesRight
<1> QED BY <1>2, <1>3 DEF UpdateFuncs, Exchange

\* Groups that are created or removed leave right copies right, or are noticed.
LEMMA RearrangedRight ==
    ASSUME ServerInv, ClientTypeOK, CopiesRight, Rearranging, job' \in Job,
           \/ UNCHANGED job
           \/ job.at = "idle" /\ job'.at = "groups"
    PROVE  ClientTypeOK' /\ CopiesRight'
<1>1. /\ UNCHANGED <<vars, funcs, value, cache>> /\ Moved
      /\ removed' = (removed \/ Len(groups') < Len(groups))
      /\ groups \in Seq(Group) /\ Len(groups) \in Nat /\ ServerInv'
      /\ \A i \in 1 .. Len(groups) : i <= 3 \/ Len(groups) <= Len(groups') =>
             i <= Len(groups') /\ groups'[i] = groups[i]
  BY MovedKeepsInv DEF Rearranging, Rearranged, ServerInv, TypeOK
<1>2. Len(groups') \in Nat /\ removed \in BOOLEAN
  BY <1>1 DEF ServerInv, TypeOK, ClientTypeOK
<1>3. removed' \in BOOLEAN /\ (~removed' => ~removed /\ Len(groups) <= Len(groups'))
  <2> DEFINE less == Len(groups') < Len(groups)
  <2>1. less \in BOOLEAN /\ (~less => Len(groups) <= Len(groups')) /\ removed' = (removed \/ less)
    BY <1>1, <1>2
  <2> HIDE DEF less
  <2>2. removed' \in BOOLEAN /\ (~removed' => ~removed /\ ~less)
    BY <1>2, <2>1, Zenon
  <2> QED BY <2>1, <2>2
<1>4. ClientTypeOK'
  BY <1>1, <1>3 DEF ClientTypeOK
<1>5. RightVars => RightVars'
  BY <1>1 DEF RightVars
<1>6. job.at \in Loaded <=> job'.at \in Loaded
  BY DEF Loaded
<1>7. ASSUME ~removed', job'.at \in Loaded PROVE RightGroups'
  <2> SUFFICES ASSUME NEW i \in 1 .. Len(cache.groups)
               PROVE  /\ i <= Len(groups') /\ Alike(cache.groups[i], groups'[i])
                      /\ job'.at # "group" \/ i <= job'.next => Same(cache.groups[i], groups'[i])
    BY <1>1 DEF RightGroups
  <2>1. RightGroups /\ Len(groups) <= Len(groups')
    BY <1>3, <1>6, <1>7 DEF CopiesRight
  <2>2. /\ i <= Len(groups) /\ Alike(cache.groups[i], groups[i])
        /\ job.at # "group" \/ i <= job.next => Same(cache.groups[i], groups[i])
    BY <2>1 DEF RightGroups
  <2>3. Len(cache.groups) \in Nat
    BY DEF ClientTypeOK
  <2>4. i \in 1 .. Len(groups)
    BY <1>1, <2>2, <2>3
  <2>5. i <= Len(groups') /\ groups'[i] = groups[i]
    BY <1>1, <2>1, <2>4
  <2>6. job'.at # "group" \/ i <= job'.next => job.at # "group" \/ i <= job.next
    OBVIOUS
  <2> QED BY <2>2, <2>5, <2>6
<1>8. /\ job'.at \in {"version", "vars"} => cache'.groups = << >> /\ job'.opening
      /\ job'.at = "group" => job'.next < Len(cache'.groups)
  BY <1>1 DEF CopiesRight
<1>9. job'.at \in Loaded => RightVars'
  BY <1>5, <1>6 DEF CopiesRight
<1> QED BY <1>4, <1>7, <1>8, <1>9 DEF CopiesRight

LEMMA StillKeeps ==
    ASSUME UNCHANGED <<vars, funcs>>
    PROVE  (AsRegistered => AsRegistered') /\ (Complete => Complete')
  BY DEF AsRegistered, Complete, Registered

LEMMA OpeningRight ==
    ASSUME Opening, ServerInv, ListsHaveRoom, ClientInv PROVE ClientTypeOK' /\ CopiesRight'
<1> ClientTypeOK /\ AsRegistered /\ CopiesRight
  BY DEF ClientInv
<1>1. CASE Open
  BY <1>1, OpenRight
<1>2. CASE GetVersion
  BY <1>2, GetVersionRight
<1>3. CASE UpdateVars
  BY <1>3, UpdateVarsRight
<1>4. CASE ListGroups
  BY <1>4, ListGroupsRight
<1>5. CASE QueryGroup
  BY <1>5, QueryGroupRight
<1>6. CASE UpdateFuncs
  BY <1>6, UpdateFuncsRight
<1> QED BY <1>1, <1>2, <1>3, <1>4, <1>5, <1>6 DEF Opening

LEMMA SetUpRight ==
    ASSUME SetUp, ServerInv, hosts = "client", ClientInv PROVE ClientInv'
<1>1. /\ ~Complete /\ UNCHANGED <<cache, job, report, removed>> /\ job.at = "closed"
      /\ report = NoReport
      /\ \/ /\ Len(vars) < Len(Registration)
            /\ RegisterVariable(Registration[Len(vars) + 1])
         \/ \E f \in Func : RegisterFunction(f)
  BY SetUpEnrolls DEF ClientInv, Ready, client
<1>2. ClientTypeOK' /\ Ready'
  BY <1>1 DEF ClientInv, ClientTypeOK, Ready
<1>3. "closed" \notin Loaded
  BY DEF Loaded
<1>4. CopiesRight'
  BY <1>1, <1>3 DEF CopiesRight
<1>5. AsRegistered'
  <2>1. AsRegistered /\ vars \in Seq(Var) /\ Registration \in Seq(Var)
    BY ClientAssumption DEF ClientInv, ServerInv, TypeOK
  <2>2. CASE UNCHANGED vars
    BY <2>1, <2>2 DEF AsRegistered
  <2>3. CASE /\ Len(vars) < Len(Registration)
             /\ vars' = Append(vars, Registration[Len(vars) + 1])
    <3>1. /\ Len(vars') = Len(vars) + 1 /\ vars'[Len(vars) + 1] = Registration[Len(vars) + 1]
          /\ \A i \in 1 .. Len(vars) : vars'[i] = vars[i]
      BY <2>1, <2>3
    <3>2. \A i \in 1 .. Len(vars) + 1 : i \in 1 .. Len(vars) \/ i = Len(vars) + 1
      BY <2>1
    <3>3. Len(vars') <= Len(Registration)
      BY <2>1, <2>3, <3>1
    <3> QED BY <2>1, <3>1, <3>2, <3>3 DEF AsRegistered
  <2> QED BY <1>1, <2>2, <2>3 DEF RegisterVariable, RegisterFunction
<1> QED BY <1>2, <1>4, <1>5 DEF ClientInv

LEMMA ClientStep ==
    ASSUME ListsHaveRoom, ServerInv, hosts = "client", ClientInv,
           [CurveNext]_<<hosts, server, client, curves>>
    PROVE  ClientInv'
<1>0. ClientTypeOK /\ AsRegistered /\ Ready /\ CopiesRight /\ job \in Job
  BY DEF ClientInv, ClientTypeOK
<1>1. CASE UNCHANGED <<hosts, server, client, curves>>
  <2>1. UNCHANGED <<vars, groups, funcs, cache, job, report, removed>>
    BY <1>1 DEF server, client
  <2>2. ClientTypeOK' /\ AsRegistered' /\ Ready'
    BY <1>0, <2>1 DEF ClientTypeOK, AsRegistered, Ready, Complete, Registered
  <2>3. CopiesRight'
    BY <1>0, <2>1 DEF CopiesRight, RightVars, RightGroups
  <2> QED BY <2>2, <2>3 DEF ClientInv
<1>2. CASE SetUp
  BY <1>2, SetUpRight
<1>3. CASE OneClient
  <2>1. Complete
    BY <1>3 DEF OneClient
  <2>2. CASE Opening
    <3>1. ClientTypeOK' /\ CopiesRight' /\ UNCHANGED <<vars, funcs>>
      BY <2>2, OpeningRight, OpeningIsStill DEF Still
    <3> QED BY <1>0, <2>1, <3>1, StillKeeps DEF ClientInv, Ready
  <2>3. CASE Quiet /\ Asked
    <3>1. UNCHANGED <<vars, groups, funcs, cache, job, removed>> /\ job.at = "idle"
      BY <2>3 DEF Quiet, Asked
    <3>2. ClientTypeOK' /\ CopiesRight'
      BY <1>0, <3>1, KeptCopies DEF Loaded
    <3> QED BY <1>0, <2>1, <3>1, <3>2, StillKeeps DEF ClientInv, Ready
  <2>4. CASE Updating
    <3>1. Rearranging /\ job.at = "idle" /\ (UNCHANGED job \/ Go("groups", 0))
          /\ UNCHANGED <<vars, funcs>>
      BY <2>4 DEF Updating, Rearranging
    <3>2. job' \in Job /\ (UNCHANGED job \/ job'.at = "groups")
      BY <1>0, <3>1, GoesTo DEF Loaded
    <3>3. ClientTypeOK' /\ CopiesRight'
      BY <1>0, <3>1, <3>2, RearrangedRight
    <3> QED BY <1>0, <2>1, <3>1, <3>3, StillKeeps DEF ClientInv, Ready
  <2>5. CASE OtherHost
    <3>1. Rearranging /\ UNCHANGED job /\ UNCHANGED <<vars, funcs>>
      BY <2>5, OthersRearrange DEF Rearranging
    <3>2. ClientTypeOK' /\ CopiesRight'
      BY <1>0, <3>1, RearrangedRight
    <3> QED BY <1>0, <2>1, <3>1, <3>2, StillKeeps DEF ClientInv, Ready
  <2> QED BY <1>3, <2>2, <2>3, <2>4, <2>5, ApplicationAsks DEF OneClient
<1> QED BY <1>1, <1>2, <1>3 DEF CurveNext, ClientNext, AnyHosts

LEMMA HostsStay ==
    ASSUME [CurveNext]_<<hosts, server, client, curves>> PROVE UNCHANGED hosts
  BY DEF CurveNext, ClientNext, AnyHosts, SetUp, OneClient

LEMMA InitClientInv == ASSUME ClientInit PROVE ClientInv
<1>1. /\ cache = NoLists /\ job = [at |-> "closed", next |-> 0, opening |-> FALSE]
      /\ report = NoReport /\ removed = FALSE /\ vars = << >>
  BY DEF ClientInit, Init
<1>2. ClientTypeOK
  <2>1. /\ cache.groups = << >>
        /\ cache = [vars |-> cache.vars, groups |-> cache.groups, funcs |-> cache.funcs]
    BY <1>1 DEF NoLists
  <2>2. job \in Job
    BY <1>1 DEF Job
  <2>3. removed \in BOOLEAN
    BY <1>1, Zenon
  <2>4. << >> \in Seq(GroupCopy)
    OBVIOUS
  <2> QED BY <2>1, <2>2, <2>3, <2>4 DEF ClientTypeOK
<1>3. AsRegistered
  <2>1. Len(vars) = 0 /\ Len(Registration) \in Nat
    BY <1>1, ClientAssumption
  <2> QED BY <2>1 DEF AsRegistered
<1>4. CopiesRight
  BY <1>1 DEF CopiesRight, Loaded
<1> QED BY <1>1, <1>2, <1>3, <1>4 DEF ClientInv, Ready

-----------------------------------------------------------------------------
LEMMA CopyOfGroup ==
    ASSUME ServerInv, ClientInv, job.at = "idle", ~removed, NEW i \in Ids(cache.groups)
    PROVE  /\ i \in Ids(groups) /\ Members(i) = groups[i + 1].vars
           /\ cache.groups[i + 1].count = Len(groups[i + 1].vars)
           /\ cache.groups[i + 1].size = groups[i + 1].size
           /\ cache.groups[i + 1].writable <=> groups[i + 1].writable
<1>1. /\ cache.groups \in Seq(GroupCopy) /\ groups \in Seq(Group) /\ job.at # "group"
      /\ RightGroups
  BY DEF ClientInv, ClientTypeOK, CopiesRight, ServerInv, TypeOK, Loaded
<1>2. i \in Nat /\ i + 1 \in 1 .. Len(cache.groups)
  BY <1>1 DEF Ids
<1>3. i + 1 <= Len(groups) /\ Same(cache.groups[i + 1], groups[i + 1])
  BY <1>1, <1>2 DEF RightGroups
<1>4. i \in Ids(groups)
  BY <1>1, <1>2, <1>3 DEF Ids
<1> QED BY <1>3, <1>4 DEF Same, Alike, Members

LEMMA InvStands == ASSUME ServerInv, hosts = "client" => ClientInv PROVE CachedGroupsStand
  BY CopyOfGroup DEF CachedGroupsStand

-----------------------------------------------------------------------------
(***************************************************************************)
(* What the application is told, and what it changes.                      *)
(***************************************************************************)
Changed == {v \in Var : value'[v] # value[v]}

Meant ==
    /\ \A v \in Var : value'[v] # value[v] => v \in report'.wrote
    /\ ~report'.err /\ report'.read # << >> =>
           report'.got = [i \in DOMAIN report'.read |-> value'[report'.read[i]]]

LEMMA TellSays ==
    ASSUME NEW wrote, NEW read, NEW codes, Tell(wrote, read, codes)
    PROVE  /\ report'.wrote = wrote /\ report'.read = read
           /\ ~report'.err => answer'.code \in codes /\ report'.got = answer'.payload
<1> DEFINE good == answer'.code \in codes
           got == IF good THEN answer'.payload ELSE << >>
           err == ~good
<1>1. report' = [wrote |-> wrote, read |-> read, got |-> got, err |-> err]
  BY DEF Tell
<1>2. (err \/ good) /\ (good => got = answer'.payload)
  OBVIOUS
<1> HIDE DEF got, err
<1>3. report'.wrote = wrote /\ report'.read = read /\ report'.got = got /\ report'.err = err
  BY <1>1
<1> QED BY <1>2, <1>3, Zenon

LEMMA FailureSays ==
    ASSUME NEW wrote, NEW read, CommunicationFailed(wrote, read)
    PROVE  report'.wrote = wrote /\ report'.read = read /\ report'.err
  BY DEF CommunicationFailed

LEMMA NoneChanged ==
    ASSUME UNCHANGED value, report' = NoReport \/ report'.read = << >> PROVE Meant
  BY DEF Meant, NoReport

\* The variables of the copies are those of the server.
LEMMA CopyOfVar ==
    ASSUME ServerInv, ClientInv, job.at = "idle", NEW id \in Ids(cache.vars)
    PROVE  id \in Ids(vars) /\ vars[id + 1] = Named(id)
<1>1. RightVars /\ AsRegistered /\ vars \in Seq(Var)
  BY DEF ClientInv, CopiesRight, Loaded, ServerInv, TypeOK
<1>2. Len(cache.vars) = Len(vars)
  <2> DEFINE one(i) == [size |-> Size[vars[i]], writable |-> vars[i] \in Writable]
  <2>1. cache.vars = [i \in 1 .. Len(vars) |-> one(i)]
    BY <1>1 DEF RightVars
  <2> HIDE DEF one
  <2> QED BY <1>1, <2>1
<1>3. id \in Ids(vars)
  BY <1>2 DEF Ids
<1>4. id + 1 \in 1 .. Len(vars)
  BY <1>1, <1>3 DEF Ids
<1> QED BY <1>1, <1>3, <1>4 DEF AsRegistered, Named

\* What a command changes at most.
LEMMA VarCommands ==
    ASSUME value \in [Var -> Value], NEW id,
           VarWrite(id) \/ (\E rd : VarWriteRead(id, rd)) \/ (\E op : VarBinOp(id, op))
    PROVE  Changed \subseteq {vars[id + 1]}
  BY DEF Changed, VarWrite, VarWriteRead, VarBinOp, BadId, BadSize, RefuseWrite, Refuse

LEMMA WithChanges ==
    ASSUME value \in [Var -> Value], NEW xs, value' = With(xs)
    PROVE  Changed \subseteq DOMAIN xs
  BY DEF Changed, With

LEMMA GroupCommands ==
    ASSUME value \in [Var -> Value], NEW id, GroupWrite(id) \/ (\E op : GroupBinOp(id, op))
    PROVE  Changed \subseteq Registered(groups[id + 1].vars)
<1> DEFINE D == Registered(groups[id + 1].vars)
<1>0. \A xs \in Parcel(groups[id + 1]) : DOMAIN xs = D
  BY DEF Parcel
<1>1. CASE UNCHANGED value
  BY <1>1 DEF Changed
<1>2. CASE ~UNCHANGED value /\ GroupWrite(id)
  <2>1. \E xs \in Parcel(groups[id + 1]) :
             LET bad == {v \in DOMAIN xs : xs[v] \notin Accepts[v]} IN
             value' = With([v \in DOMAIN xs \ bad |-> xs[v]])
    BY <1>2 DEF GroupWrite, BadId, BadSize, Refuse
  <2>2. PICK xs \in Parcel(groups[id + 1]) :
             value' = With([v \in DOMAIN xs \ {v \in DOMAIN xs : xs[v] \notin Accepts[v]} |-> xs[v]])
    BY <2>1
  <2>3. Changed \subseteq DOMAIN xs
    BY <2>2, WithChanges
  <2> QED BY <1>0, <2>3
<1>3. CASE ~UNCHANGED value /\ \E op : GroupBinOp(id, op)
  <2>1. PICK op : GroupBinOp(id, op)
    BY <1>3
  <2>2. PICK xs \in Parcel(groups[id + 1]) :
             value' = With([v \in DOMAIN xs |-> BinOp(op, value[v], xs[v])])
    BY <1>3, <2>1 DEF GroupBinOp, BadId, BadSize, Refuse
  <2>3. Changed \subseteq DOMAIN xs
    BY <2>2, WithChanges
  <2> QED BY <1>0, <2>3
<1> QED BY <1>1, <1>2, <1>3

LEMMA VarCallsMeant ==
    ASSUME ServerInv, ClientInv, NEW id \in Ids(cache.vars),
           \/ ReadVar(id) \/ WriteVar(id)
           \/ \E rd \in Ids(cache.vars) : WriteReadVars(id, rd)
           \/ \E op \in Op : BinOpVar(id, op)
    PROVE  Meant
<1>0. value \in [Var -> Value] /\ job.at = "idle"
  BY DEF ServerInv, TypeOK, ReadVar, WriteVar, WriteReadVars, BinOpVar, Call
<1>1. id \in Ids(vars) /\ vars[id + 1] = Named(id)
  BY <1>0, CopyOfVar
<1>2. ASSUME Changed \subseteq {vars[id + 1]}, report'.wrote = {Named(id)}, report'.read = << >>
      PROVE  Meant
  BY <1>1, <1>2 DEF Changed, Meant
<1>3. UNCHANGED server => Changed = {}
  BY DEF server, Changed
<1>4. CASE ReadVar(id)
  <2>1. UNCHANGED value
    BY <1>4, ReadsAreQuiet DEF Still
  <2>2. \/ VarRead(id) /\ Tell({}, <<Named(id)>>, {"VAR_VALUE"})
        \/ CommunicationFailed({}, <<Named(id)>>)
    BY <1>4 DEF ReadVar, Call, Exchange
  <2>3. report'.read = <<Named(id)>>
    BY <2>2, TellSays, FailureSays
  <2>4. ~report'.err => report'.got = <<value'[Named(id)]>>
    <3>1. VarRead(id) /\ answer'.code = "VAR_VALUE" => answer'.payload = <<value'[Named(id)]>>
      BY <1>1, <2>1 DEF VarRead, BadId, Refuse, Give
    <3> QED BY <2>2, <3>1, TellSays, FailureSays
  <2>5. <<value'[Named(id)]>> = [i \in DOMAIN <<Named(id)>> |-> value'[<<Named(id)>>[i]]]
    OBVIOUS
  <2> QED BY <2>1, <2>3, <2>4, <2>5 DEF Meant
<1>5. CASE WriteVar(id)
  <2>1. /\ VarWrite(id) \/ UNCHANGED server
        /\ Tell({Named(id)}, << >>, {"OK"}) \/ CommunicationFailed({Named(id)}, << >>)
    BY <1>5 DEF WriteVar, Call, Exchange
  <2> QED BY <1>0, <1>2, <1>3, <2>1, VarCommands, TellSays, FailureSays
<1>6. CASE \E op \in Op : BinOpVar(id, op)
  <2>1. /\ (\E op : VarBinOp(id, op)) \/ UNCHANGED server
        /\ Tell({Named(id)}, << >>, {"OK"}) \/ CommunicationFailed({Named(id)}, << >>)
    BY <1>6 DEF BinOpVar, Call, Exchange
  <2> QED BY <1>0, <1>2, <1>3, <2>1, VarCommands, TellSays, FailureSays
<1>7. CASE \E rd \in Ids(cache.vars) : WriteReadVars(id, rd)
  <2>1. PICK rd \in Ids(cache.vars) : WriteReadVars(id, rd)
    BY <1>7
  <2>2. \/ VarWriteRead(id, rd) /\ Tell({Named(id)}, <<Named(rd)>>, {"VAR_VALUE"})
        \/ /\ VarWriteRead(id, rd) \/ UNCHANGED server
           /\ CommunicationFailed({Named(id)}, <<Named(rd)>>)
    BY <2>1 DEF WriteReadVars, Call, Exchange
  <2>3. vars[rd + 1] = Named(rd)
    BY <1>0, CopyOfVar
  <2>4. report'.read = <<Named(rd)>> /\ report'.wrote = {Named(id)}
    BY <2>2, TellSays, FailureSays
  <2>5. Changed \subseteq {Named(id)}
    BY <1>0, <1>1, <1>3, <2>2, VarCommands
  <2>6. ~report'.err => report'.got = <<value'[Named(rd)]>>
    <3>1. VarWriteRead(id, rd) /\ answer'.code = "VAR_VALUE" =>
              answer'.payload = <<value'[Named(rd)]>>
      BY <2>3 DEF VarWriteRead, BadId, BadSize, Refuse, RefuseWrite
    <3> QED BY <2>2, <3>1, TellSays, FailureSays
  <2>7. <<value'[Named(rd)]>> = [i \in DOMAIN <<Named(rd)>> |-> value'[<<Named(rd)>>[i]]]
    OBVIOUS
  <2> QED BY <2>4, <2>5, <2>6, <2>7 DEF Meant, Changed
<1> QED BY <1>4, <1>5, <1>6, <1>7

LEMMA GroupCallsMeant ==
    ASSUME ServerInv, ClientInv, ~removed, NEW i \in Ids(cache.groups),
           ReadGroup(i) \/ WriteGroup(i) \/ \E op \in Op : BinOpGroup(i, op)
    PROVE  Meant
<1> DEFINE list == groups[i + 1].vars
<1>0. value \in [Var -> Value] /\ job.at = "idle"
  BY DEF ServerInv, TypeOK, ReadGroup, WriteGroup, BinOpGroup, Call
<1>1. i \in Ids(groups) /\ Members(i) = list
  BY <1>0, CopyOfGroup
<1>2. ASSUME Changed \subseteq Registered(list), report'.wrote = Registered(Members(i)),
             report'.read = << >>
      PROVE  Meant
  BY <1>1, <1>2 DEF Changed, Meant
<1>3. UNCHANGED server => Changed = {}
  BY DEF server, Changed
<1>4. CASE ReadGroup(i)
  <2>1. UNCHANGED value
    BY <1>4, ReadsAreQuiet DEF Still
  <2>2. \/ GroupRead(i) /\ Tell({}, Members(i), {"GROUP_VALUES"})
        \/ CommunicationFailed({}, Members(i))
    BY <1>4 DEF ReadGroup, Call, Exchange
  <2>3. report'.read = list
    BY <1>1, <2>2, TellSays, FailureSays
  <2>4. ~report'.err => report'.got = [j \in DOMAIN list |-> value'[list[j]]]
    <3>1. GroupRead(i) /\ answer'.code = "GROUP_VALUES" =>
              answer'.payload = [j \in DOMAIN list |-> value'[list[j]]]
      BY <1>1, <2>1 DEF GroupRead, BadId, Refuse, Give
    <3> HIDE DEF list
    <3> QED BY <2>2, <3>1, TellSays, FailureSays
  <2> HIDE DEF list
  <2> QED BY <2>1, <2>3, <2>4 DEF Meant
<1>5. CASE WriteGroup(i)
  <2>1. /\ GroupWrite(i) \/ UNCHANGED server
        /\ \/ Tell(Registered(Members(i)), << >>, {"OK"})
           \/ CommunicationFailed(Registered(Members(i)), << >>)
    BY <1>5 DEF WriteGroup, Call, Exchange
  <2> QED BY <1>0, <1>2, <1>3, <2>1, GroupCommands, TellSays, FailureSays
<1>6. CASE \E op \in Op : BinOpGroup(i, op)
  <2>1. /\ (\E op : GroupBinOp(i, op)) \/ UNCHANGED server
        /\ \/ Tell(Registered(Members(i)), << >>, {"OK"})
           \/ CommunicationFailed(Registered(Members(i)), << >>)
    BY <1>6 DEF BinOpGroup, Call, Exchange
  <2> QED BY <1>0, <1>2, <1>3, <2>1, GroupCommands, TellSays, FailureSays
<1> QED BY <1>4, <1>5, <1>6

LEMMA StepMeant ==
    ASSUME ServerInv, hosts = "client", ClientInv, ~removed,
           [CurveNext]_<<hosts, server, client, curves>>
    PROVE  Meant \/ UNCHANGED <<server, client>>
<1>1. CASE UNCHANGED <<hosts, server, client, curves>>
  BY <1>1
<1>2. CASE SetUp
  <2>1. ~Complete /\ UNCHANGED <<value, report>>
    BY <1>2, SetUpEnrolls DEF client
  <2>2. report' = NoReport
    BY <2>1 DEF ClientInv, Ready
  <2> QED BY <2>1, <2>2, NoneChanged
<1>3. CASE OneClient
  <2>1. CASE Opening
    BY <2>1, OpeningIsStill, NoneChanged DEF Still
  <2>2. CASE OtherHost
    BY <2>2, OthersRearrange, NoneChanged DEF Rearranging
  <2>3. CASE (\E ids \in Choice : CreateGroup(ids)) \/ RemoveAllGroups
    BY <2>3, CreateUpdates, RemoveUpdates, NoneChanged DEF Updating, Rearranging
  <2>4. ASSUME NEW id \in Ids(cache.funcs), ExecuteFunc(id) PROVE Meant
    <3>1. UNCHANGED value
      BY <2>4, ReadsAreQuiet DEF Still
    <3>2. \/ Tell({}, << >>, {"FUNC_RETURN", "FUNC_ERROR"}) \/ CommunicationFailed({}, << >>)
      BY <2>4 DEF ExecuteFunc, Call, Exchange
    <3>3. report'.read = << >>
      BY <3>2, TellSays, FailureSays
    <3> QED BY <3>1, <3>3, NoneChanged
  <2>5. CASE Application
    BY <2>3, <2>4, <2>5, VarCallsMeant, GroupCallsMeant DEF Application
  <2> QED BY <1>3, <2>1, <2>2, <2>5 DEF OneClient
<1> QED BY <1>1, <1>2, <1>3 DEF CurveNext, ClientNext, AnyHosts

-----------------------------------------------------------------------------
(***************************************************************************)
(* Data in parts of the size of a block.  Part b begins after Place(b).    *)
(***************************************************************************)
Lesser(a, b) == IF a < b THEN a ELSE b
Place(b) == b * BlockSize
Between(d, k, n) == SubSeq(d, k + 1, n)
Part(d, b) == Between(d, Place(b), Lesser(Len(d), Place(b + 1)))
From(d, b) == Between(d, Place(b), Len(d))
UpToPart(d, b) == Between(d, 0, Place(b))

IsList(d) == d \in Seq(Nat)

LEMMA LenOfList == ASSUME NEW d, IsList(d) PROVE Len(d) \in Nat
  BY DEF IsList

LEMMA Distributes ==
    ASSUME NEW x \in Nat, NEW y \in Nat, NEW z \in Nat
    PROVE  (x + y) * z = x * z + y * z /\ x * z \in Nat
  OBVIOUS

LEMMA Places ==
    ASSUME NEW b \in Nat
    PROVE  /\ Place(b) \in Nat /\ Place(b + 1) = Place(b) + BlockSize
           /\ BlockSize \in Nat /\ BlockSize > 0 /\ Place(0) = 0
<1>1. BlockSize \in Nat /\ BlockSize > 0
  BY CurveAssumption
<1>2. (b + 1) * BlockSize = b * BlockSize + 1 * BlockSize /\ b * BlockSize \in Nat
  BY <1>1, Distributes
<1>3. 1 * BlockSize = BlockSize /\ 0 * BlockSize = 0
  BY <1>1
<1> QED BY <1>1, <1>2, <1>3 DEF Place

LEMMA PlacesGrow ==
    ASSUME NEW b \in Nat, NEW n \in Nat, b < n PROVE Place(b + 1) <= Place(n)
<1>1. PICK k \in Nat : n = (b + 1) + k
  <2> n - (b + 1) \in Nat /\ n = (b + 1) + (n - (b + 1))
    OBVIOUS
  <2> QED OBVIOUS
<1>2. BlockSize \in Nat /\ b + 1 \in Nat
  BY CurveAssumption
<1>3. n * BlockSize = (b + 1) * BlockSize + k * BlockSize
      /\ k * BlockSize \in Nat /\ (b + 1) * BlockSize \in Nat
  BY <1>1, <1>2, Distributes
<1> QED BY <1>3 DEF Place

\* A list of the numbers of another one, those after the first k.
After(part, d, k) == IsList(part) /\ \A i \in 1 .. Len(part) : part[i] = d[k + i]

LEMMA Stretch ==
    ASSUME NEW d, IsList(d), NEW k \in Nat, NEW n \in Nat, n <= Len(d)
    PROVE  /\ After(Between(d, k, n), d, k)
           /\ k <= n => Len(Between(d, k, n)) = n - k
           /\ k > n => Len(Between(d, k, n)) = 0
<1>1. \A i \in k + 1 .. n : d[i] \in Nat
  BY DEF IsList
<1>2. /\ SubSeq(d, k + 1, n) \in Seq(Nat)
      /\ Len(SubSeq(d, k + 1, n)) = IF k + 1 <= n THEN n - (k + 1) + 1 ELSE 0
      /\ \A i \in 1 .. n - (k + 1) + 1 : SubSeq(d, k + 1, n)[i] = d[(k + 1) + i - 1]
  BY <1>1, SubSeqProperties
<1>3. /\ k <= n => Len(SubSeq(d, k + 1, n)) = n - k
      /\ k > n => Len(SubSeq(d, k + 1, n)) = 0
  BY <1>2
<1>4. ASSUME NEW i \in 1 .. Len(SubSeq(d, k + 1, n))
      PROVE  SubSeq(d, k + 1, n)[i] = d[k + i]
  <2>1. i \in 1 .. n - (k + 1) + 1 /\ (k + 1) + i - 1 = k + i
    BY <1>3
  <2> QED BY <1>2, <2>1
<1> QED BY <1>2, <1>3, <1>4 DEF After, Between, IsList

LEMMA SameStretch ==
    ASSUME NEW s, NEW t, NEW d, NEW k, After(s, d, k), After(t, d, k), Len(s) = Len(t)
    PROVE  s = t
  BY SeqEqual DEF After, IsList

\* A part of a part.
LEMMA AfterAfter ==
    ASSUME NEW d, NEW k \in Nat, NEW j \in Nat, NEW s, NEW t,
           After(s, d, k), After(t, s, j), j + Len(t) <= Len(s)
    PROVE  After(t, d, k + j)
<1>1. t \in Seq(Nat) /\ s \in Seq(Nat)
  BY DEF After, IsList
<1>2. ASSUME NEW i \in 1 .. Len(t) PROVE t[i] = d[(k + j) + i]
  <2>1. j + i \in 1 .. Len(s) /\ k + (j + i) = (k + j) + i
    BY <1>1
  <2> QED BY <2>1 DEF After
<1> QED BY <1>1, <1>2 DEF After, IsList

LEMMA Beginning ==
    ASSUME NEW d, IsList(d) PROVE From(d, 0) = d /\ UpToPart(d, 0) = << >>
<1>1. Place(0) = 0
  BY Places
<1>2. SubSeq(d, 1, Len(d)) = d
  BY SubSeqFull DEF IsList
<1>3. SubSeq(d, 1, 0) = << >>
  BY SubSeqEmpty
<1>4. 0 + 1 = 1
  OBVIOUS
<1> QED BY <1>1, <1>2, <1>3, <1>4 DEF From, UpToPart, Between

LEMMA Parcels ==
    ASSUME NEW d, IsList(d), NEW b \in Nat
    PROVE  /\ After(From(d, b), d, Place(b))
           /\ Place(b) <= Len(d) => Len(From(d, b)) = Len(d) - Place(b)
           /\ Place(b) > Len(d) => Len(From(d, b)) = 0
           /\ After(Part(d, b), d, Place(b))
           /\ Place(b) + BlockSize <= Len(d) => Len(Part(d, b)) = BlockSize
           /\ Place(b) + BlockSize > Len(d) /\ Place(b) < Len(d) =>
                  Len(Part(d, b)) = Len(d) - Place(b)
<1>1. Place(b) \in Nat /\ Place(b + 1) = Place(b) + BlockSize /\ BlockSize \in Nat
      /\ BlockSize > 0
  BY Places
<1>0. Len(d) \in Nat
  BY LenOfList
<1> DEFINE e == Lesser(Len(d), Place(b + 1))
<1>2. /\ e \in Nat /\ e <= Len(d)
      /\ Place(b + 1) <= Len(d) => e = Place(b + 1)
      /\ Place(b + 1) > Len(d) => e = Len(d)
  <2> Len(d) \in Nat /\ Place(b + 1) \in Nat
    BY <1>0, <1>1
  <2> QED BY DEF Lesser
<1>3. Part(d, b) = Between(d, Place(b), e)
  BY DEF Part
<1> HIDE DEF e
<1>4. /\ After(From(d, b), d, Place(b))
      /\ Place(b) <= Len(d) => Len(From(d, b)) = Len(d) - Place(b)
      /\ Place(b) > Len(d) => Len(From(d, b)) = 0
  <2> Len(d) \in Nat /\ Place(b) \in Nat /\ Len(d) <= Len(d)
    BY <1>0, <1>1
  <2> QED BY Stretch DEF From
<1>5. /\ After(Part(d, b), d, Place(b))
      /\ Place(b) <= e => Len(Part(d, b)) = e - Place(b)
  <2> Place(b) \in Nat /\ e \in Nat /\ e <= Len(d)
    BY <1>1, <1>2
  <2> QED BY <1>3, Stretch
<1> QED BY <1>0, <1>1, <1>2, <1>4, <1>5

\* What is cut off the rest of the data is its next part.
Cut(rest) == SubSeq(rest, 1, IF Len(rest) < BlockSize THEN Len(rest) ELSE BlockSize)

LEMMA CutOff ==
    ASSUME NEW d, IsList(d), NEW b \in Nat, NEW rest, rest = From(d, b), Len(Cut(rest)) >= 1
    PROVE  /\ Len(d) > Place(b) /\ Cut(rest) = Part(d, b)
           /\ SubSeq(rest, Len(Cut(rest)) + 1, Len(rest)) = From(d, b + 1)
<1> DEFINE n == IF Len(rest) < BlockSize THEN Len(rest) ELSE BlockSize
           left == Between(rest, n, Len(rest))
<1>1. Place(b) \in Nat /\ Place(b + 1) = Place(b) + BlockSize /\ BlockSize \in Nat
      /\ BlockSize > 0 /\ b + 1 \in Nat
  BY Places
<1>0. Len(d) \in Nat
  BY LenOfList
<1>2. /\ After(rest, d, Place(b)) /\ IsList(rest)
      /\ Place(b) <= Len(d) => Len(rest) = Len(d) - Place(b)
      /\ Place(b) > Len(d) => Len(rest) = 0
  BY Parcels DEF After
<1>20. Len(rest) \in Nat
  BY <1>2, LenOfList
<1>3. n \in Nat /\ n <= Len(rest) /\ n <= BlockSize
      /\ (Len(rest) < BlockSize => n = Len(rest)) /\ (Len(rest) >= BlockSize => n = BlockSize)
  BY <1>0, <1>1, <1>2, <1>20
<1>4. Cut(rest) = Between(rest, 0, n)
  BY DEF Cut, Between
<1> HIDE DEF n
<1>5. After(Cut(rest), rest, 0) /\ Len(Cut(rest)) = n
  <2>1. 0 \in Nat
    OBVIOUS
  <2>2. /\ After(Between(rest, 0, n), rest, 0)
        /\ 0 <= n => Len(Between(rest, 0, n)) = n - 0
    BY <1>2, <1>20, <1>3, <2>1, Stretch
  <2> QED BY <1>3, <1>4, <2>2
<1>6. n >= 1 /\ Place(b) < Len(d) /\ Len(rest) = Len(d) - Place(b)
  BY <1>0, <1>1, <1>2, <1>20, <1>3, <1>5
<1>7. After(Cut(rest), d, Place(b))
  <2>1. After(Cut(rest), d, Place(b) + 0)
    BY <1>0, <1>1, <1>2, <1>20, <1>3, <1>5, AfterAfter
  <2> QED BY <1>0, <1>1, <2>1
<1>8. After(Part(d, b), d, Place(b)) /\ Len(Part(d, b)) = n
  BY <1>0, <1>1, <1>3, <1>6, Parcels
<1>9. Cut(rest) = Part(d, b)
  BY <1>5, <1>7, <1>8, SameStretch
<1>10. After(left, rest, n) /\ Len(left) = Len(rest) - n
  <2>1. IsList(rest) /\ n \in Nat /\ Len(rest) \in Nat /\ Len(rest) <= Len(rest) /\ n <= Len(rest)
    BY <1>2, <1>20, <1>3
  <2> QED BY <2>1, Stretch
<1> HIDE DEF left
<1>12. After(left, d, Place(b) + n)
  BY <1>0, <1>1, <1>2, <1>20, <1>3, <1>10, AfterAfter
<1>13. /\ After(From(d, b + 1), d, Place(b + 1))
       /\ Place(b + 1) <= Len(d) => Len(From(d, b + 1)) = Len(d) - Place(b + 1)
       /\ Place(b + 1) > Len(d) => Len(From(d, b + 1)) = 0
  BY <1>0, <1>1, Parcels
<1>14. Len(left) = Len(From(d, b + 1))
  <2>1. Len(left) = Len(d) - Place(b) - n
    BY <1>6, <1>10
  <2>2. CASE n = BlockSize
    BY <1>0, <1>1, <1>3, <1>6, <1>13, <2>1, <2>2
  <2>3. CASE n # BlockSize
    BY <1>0, <1>1, <1>20, <1>3, <1>6, <1>13, <2>1, <2>3
  <2> QED BY <2>2, <2>3
<1>15. left = From(d, b + 1)
  <2>1. CASE n = BlockSize
    BY <1>0, <1>1, <1>12, <1>13, <1>14, <2>1, SameStretch
  <2>2. CASE n # BlockSize
    <3>1. Len(left) = 0
      BY <1>1, <1>20, <1>3, <1>10, <2>2
    <3>2. IsList(left) /\ IsList(From(d, b + 1))
      BY <1>10, <1>13 DEF After
    <3> QED BY <1>14, <3>1, <3>2 DEF IsList
  <2> QED BY <2>1, <2>2
<1> QED BY <1>5, <1>6, <1>9, <1>15 DEF left, Between

\* Parts put together again.
LEMMA PutTogether ==
    ASSUME NEW d, IsList(d), NEW b \in Nat, Len(d) > Place(b)
    PROVE  /\ Len(d) >= Place(b + 1) =>
                  /\ UpToPart(d, b) \o Part(d, b) = UpToPart(d, b + 1)
                  /\ Len(Part(d, b)) = BlockSize
           /\ Len(d) <= Place(b + 1) => UpToPart(d, b) \o Part(d, b) = d
<1> DEFINE e == Lesser(Len(d), Place(b + 1))
<1>1. Place(b) \in Nat /\ Place(b + 1) = Place(b) + BlockSize /\ BlockSize \in Nat
      /\ BlockSize > 0
  BY Places
<1>0. Len(d) \in Nat
  BY LenOfList
<1>2. /\ e \in Nat /\ Place(b) < e /\ e <= Len(d)
      /\ (Len(d) >= Place(b + 1) => e = Place(b + 1)) /\ (Len(d) <= Place(b + 1) => e = Len(d))
  BY <1>1 DEF Lesser
<1>3. Part(d, b) = SubSeq(d, Place(b) + 1, e)
  BY DEF Part, Between
<1> HIDE DEF e
<1>4. 1 \in 1 .. Len(d) + 1 /\ Place(b) \in 1 - 1 .. Len(d) /\ e \in Place(b) .. Len(d)
  BY <1>0, <1>1, <1>2
<1>5. SubSeq(d, 1, Place(b)) \o SubSeq(d, Place(b) + 1, e) = SubSeq(d, 1, e)
  BY <1>4, ConcatAdjacentSubSeq DEF IsList
<1>6. SubSeq(d, 1, Len(d)) = d
  BY SubSeqFull DEF IsList
<1>7. Len(d) >= Place(b + 1) => Len(Part(d, b)) = BlockSize
  BY <1>0, <1>1, Parcels
<1>8. 0 + 1 = 1
  OBVIOUS
<1> QED BY <1>2, <1>3, <1>5, <1>6, <1>7, <1>8 DEF UpToPart, Between

\* The three parts of a curve.
Whole == curve = [writable |-> curve.writable, blocks |-> curve.blocks,
                  checksum |-> curve.checksum]

\* What a command may do to it.
Touched ==
    \/ UNCHANGED curve
    \/ \E b, data : curve' = [curve EXCEPT !.blocks[b] = data, !.checksum = NoChecksum]
    \/ curve' = [curve EXCEPT !.checksum = Digest(curve.blocks)]

LEMMA BlockTouches == ASSUME NEW b, NEW data, CurveBlock(b, data) PROVE Touched
  BY DEF CurveBlock, Touched

LEMMA RecalcTouches == ASSUME CurveRecalcCsum PROVE Touched
  BY DEF CurveRecalcCsum, Touched

LEMMA StepTouches == ASSUME [CurveNext]_<<hosts, server, client, curves>> PROVE Touched
<1>1. CASE UNCHANGED curve
  BY <1>1 DEF Touched
<1>2. CASE Curves
  <2>1. CASE UpdateCurves \/ UpdateChecksum \/ ReadCurve \/ RequestCurveBlock
    BY <1>1, <2>1 DEF UpdateCurves, UpdateChecksum, ReadCurve, RequestCurveBlock
  <2>2. CASE \E data \in Data : WriteCurve(data)
    BY <1>1, <2>2 DEF WriteCurve
  <2>3. CASE SendCurveBlock
    <3>1. CurveBlock(work.block, NextChunk) \/ UNCHANGED curve
      BY <2>3 DEF SendCurveBlock, ExchangeBlock
    <3> QED BY <1>1, <3>1, BlockTouches
  <2>4. CASE RecalcChecksum
    <3>1. CurveRecalcCsum \/ UNCHANGED curve
      BY <2>4 DEF RecalcChecksum, ExchangeBlock
    <3> QED BY <1>1, <3>1, RecalcTouches
  <2>5. CASE AnotherHost
    BY <2>5, BlockTouches, RecalcTouches DEF AnotherHost
  <2> QED BY <1>2, <2>1, <2>2, <2>3, <2>4, <2>5 DEF Curves
<1> QED BY <1>1, <1>2 DEF CurveNext, curves

\* A valid checksum is what the loop of the server would compute now.
Current == curve.checksum.valid => curve.checksum = Digest(curve.blocks)

LEMMA ChecksumStep ==
    ASSUME Whole, Current, Touched PROVE Whole' /\ Current'
<1>1. CASE UNCHANGED curve
  BY <1>1 DEF Whole, Current
<1>2. CASE \E b, data : curve' = [curve EXCEPT !.blocks[b] = data, !.checksum = NoChecksum]
  <2>1. PICK b, data : curve' = [curve EXCEPT !.blocks[b] = data, !.checksum = NoChecksum]
    BY <1>2
  <2>2. curve' = [writable |-> curve.writable, blocks |-> [curve.blocks EXCEPT ![b] = data],
                  checksum |-> NoChecksum]
    BY <2>1 DEF Whole
  <2>3. Whole' /\ curve'.checksum = NoChecksum
    BY <2>2 DEF Whole
  <2> QED BY <2>3 DEF Current, NoChecksum
<1>3. CASE curve' = [curve EXCEPT !.checksum = Digest(curve.blocks)]
  <2> DEFINE d == Digest(curve.blocks)
  <2> HIDE DEF d
  <2>1. curve' = [writable |-> curve.writable, blocks |-> curve.blocks, checksum |-> d]
    BY <1>3 DEF Whole, d
  <2>2. Whole' /\ curve'.checksum = d /\ curve'.blocks = curve.blocks
    BY <2>1 DEF Whole
  <2> QED BY <2>2 DEF Current, d
<1> QED BY <1>1, <1>2, <1>3 DEF Touched

\* For every block, the limit the loop compares with says the same as the size
\* of a block.
LimitsAgree ==
    \A b \in Block : Len(curve.blocks[b]) < BlockSize <=> Len(curve.blocks[b]) < NBlocks

LEMMA DigestIsContent == ASSUME LimitsAgree PROVE Digest(curve.blocks).of = Content(curve.blocks)
<1>1. {b \in Block : Len(curve.blocks[b]) < NBlocks} = {b \in Block : Len(curve.blocks[b]) < BlockSize}
  BY DEF LimitsAgree
<1>2. UpTo(curve.blocks, NBlocks) = UpTo(curve.blocks, BlockSize)
  BY <1>1 DEF UpTo
<1> QED BY <1>2 DEF Digest, Content

-----------------------------------------------------------------------------
(***************************************************************************)
(* What the client has written, block by block, and what it reads.         *)
(***************************************************************************)
Holds(d, n) == \A b \in Block : b < n => curve.blocks[b] = Part(d, b)
Clean == written.ok /\ written.clean

CurveTypeOK ==
    /\ Whole /\ DOMAIN curve.blocks = Block
    /\ work = [at |-> work.at, block |-> work.block, data |-> work.data] /\ work.block \in Block
    /\ written \in [ok : BOOLEAN, clean : BOOLEAN, data : Seq(Nat)]

Writing ==
    work.at = "write" =>
        /\ ~written.ok
        /\ written.clean => /\ work.data = From(written.data, work.block)
                            /\ Holds(written.data, work.block)

Stored ==
    Clean => Len(written.data) > Place(NBlocks - 1) /\ Holds(written.data, NBlocks)

Reading ==
    work.at = "read" /\ Clean => work.data = UpToPart(written.data, work.block)

CurveInv == CurveTypeOK /\ Writing /\ Stored /\ Reading /\ WrittenReadsBack

LEMMA Blocks == 0 \in Block /\ Block \subseteq Nat /\ NBlocks \in Nat /\ NBlocks > 0
                /\ \A b \in Block : b < NBlocks /\ (b + 1 < NBlocks => b + 1 \in Block)
                                    /\ (~(b + 1 < NBlocks) => b = NBlocks - 1)
  BY CurveAssumption DEF Block

LEMMA InitCurveInv == ASSUME CurveInit PROVE CurveInv
<1> DEFINE start == CHOOSE d \in OtherData : Len(d) = BlockSize
<1>1. PICK w \in BOOLEAN : curve = [writable |-> w, blocks |-> [b \in Block |-> start],
                                    checksum |-> NoChecksum]
  BY DEF CurveInit
<1> HIDE DEF start
<1>2. Whole /\ DOMAIN curve.blocks = Block
  BY <1>1 DEF Whole
<1>3. work = [at |-> "list", block |-> 0, data |-> << >>]
  BY DEF CurveInit, Idle
<1>4. told = Nothing /\ written = [ok |-> FALSE, clean |-> FALSE, data |-> << >>]
  BY DEF CurveInit, NotWritten
<1>5. << >> \in Seq(Nat)
  OBVIOUS
<1>6. CurveTypeOK
  BY <1>2, <1>3, <1>4, <1>5, Blocks DEF CurveTypeOK
<1>7. Writing /\ Stored /\ Reading /\ WrittenReadsBack
  BY <1>3, <1>4 DEF Writing, Stored, Reading, WrittenReadsBack, Clean
<1> QED BY <1>6, <1>7 DEF CurveInv

\* The outcomes of writing a block.
LEMMA BlockStores ==
    ASSUME NEW b, NEW data, CurveBlock(b, data)
    PROVE  \/ UNCHANGED curve /\ ~Got("OK")
           \/ /\ Got("OK") /\ b \in Block /\ Len(data) \in 1 .. BlockSize
              /\ curve' = [curve EXCEPT !.blocks[b] = data, !.checksum = NoChecksum]
  BY DEF CurveBlock, RefuseBlock, Refuse, Give, Storable, Got

\* What a block that was written changes.
LEMMA StoredIn ==
    ASSUME Whole, DOMAIN curve.blocks = Block, NEW b \in Block, NEW data,
           curve' = [curve EXCEPT !.blocks[b] = data, !.checksum = NoChecksum]
    PROVE  /\ Whole' /\ DOMAIN curve'.blocks = Block /\ curve'.blocks[b] = data
           /\ \A c \in Block : c # b => curve'.blocks[c] = curve.blocks[c]
<1>1. curve' = [writable |-> curve.writable, blocks |-> [curve.blocks EXCEPT ![b] = data],
                checksum |-> NoChecksum]
  BY DEF Whole
<1>2. Whole' /\ curve'.blocks = [curve.blocks EXCEPT ![b] = data]
  BY <1>1 DEF Whole
<1> QED BY <1>2

LEMMA ComputedIn ==
    ASSUME Whole, CurveRecalcCsum PROVE Whole' /\ UNCHANGED curve.blocks
<1> DEFINE d == Digest(curve.blocks)
<1> HIDE DEF d
<1>1. UNCHANGED curve \/ curve' = [writable |-> curve.writable, blocks |-> curve.blocks,
                                   checksum |-> d]
  BY DEF Whole, CurveRecalcCsum, d
<1> QED BY <1>1 DEF Whole

\* A step that leaves the blocks and what was written alone.
LEMMA Aside ==
    ASSUME CurveInv, Whole', UNCHANGED <<curve.blocks, written>>,
           \/ UNCHANGED work
           \/ work' = Idle \/ work' = [Idle EXCEPT !.at = "checksum"]
           \/ work' = [Idle EXCEPT !.at = "list"],
           UNCHANGED told \/ ~told'.ok
    PROVE  CurveInv'
<1>1. CASE UNCHANGED work
  <2>1. CurveTypeOK' /\ Writing' /\ Stored' /\ Reading'
    BY <1>1 DEF CurveInv, CurveTypeOK, Writing, Stored, Reading, Clean, Holds
  <2>2. WrittenReadsBack'
    BY DEF CurveInv, WrittenReadsBack
  <2> QED BY <2>1, <2>2 DEF CurveInv
<1>2. CASE \E at \in {"idle", "checksum", "list"} : work' = [at |-> at, block |-> 0, data |-> << >>]
  <2>0. PICK at \in {"idle", "checksum", "list"} : work' = [at |-> at, block |-> 0, data |-> << >>]
    BY <1>2
  <2>1. CurveTypeOK' /\ work'.at # "write" /\ work'.at # "read"
    BY <2>0, Blocks DEF CurveInv, CurveTypeOK
  <2>2. Writing' /\ Reading'
    BY <2>1 DEF Writing, Reading
  <2>3. Stored'
    BY DEF CurveInv, Stored, Clean, Holds
  <2>4. WrittenReadsBack'
    BY DEF CurveInv, WrittenReadsBack
  <2> QED BY <2>1, <2>2, <2>3, <2>4 DEF CurveInv
<1> QED BY <1>1, <1>2 DEF Idle

LEMMA LookingRight ==
    ASSUME CurveInv, UpdateCurves \/ UpdateChecksum PROVE CurveInv'
<1>1. UNCHANGED <<curve, written>> /\ told' = Nothing
  BY DEF UpdateCurves, UpdateChecksum
<1>2. UNCHANGED work \/ work' = Idle \/ work' = [Idle EXCEPT !.at = "checksum"]
  BY DEF UpdateCurves, UpdateChecksum, Exchange
<1>3. ~told'.ok /\ Whole'
  BY <1>1 DEF Nothing, CurveInv, CurveTypeOK, Whole
<1> QED BY <1>1, <1>2, <1>3, Aside

LEMMA ComputingRight ==
    ASSUME CurveInv, RecalcChecksum PROVE CurveInv'
<1>1. UNCHANGED written /\ (CurveRecalcCsum \/ UNCHANGED curve)
  BY DEF RecalcChecksum, ExchangeBlock
<1>2. Whole' /\ UNCHANGED curve.blocks
  BY <1>1, ComputedIn DEF CurveInv, CurveTypeOK, Whole
<1>3. /\ work' = Idle \/ work' = [Idle EXCEPT !.at = "list"]
      /\ told' = Nothing \/ Tells("checksum", FALSE, << >>)
  BY DEF RecalcChecksum, ExchangeBlock, Fails
<1>4. ~told'.ok
  BY <1>3 DEF Nothing, Tells
<1> QED BY <1>1, <1>2, <1>3, <1>4, Aside

LEMMA StartOfWriteRight ==
    ASSUME CurveInv, NEW data \in Data, WriteCurve(data) PROVE CurveInv'
<1>1. /\ work' = [at |-> "write", block |-> 0, data |-> data] /\ told' = Nothing
      /\ written' = [ok |-> FALSE, clean |-> TRUE, data |-> data] /\ UNCHANGED curve
  BY DEF WriteCurve
<1>2. data \in Seq(Nat) /\ From(data, 0) = data
  BY CurveAssumption, Beginning DEF IsList
<1>3. CurveTypeOK'
  BY <1>1, <1>2, Blocks DEF CurveInv, CurveTypeOK, Whole
<1>4. \A b \in Block : ~(b < 0)
  BY Blocks
<1>5. Writing'
  BY <1>1, <1>2, <1>4 DEF Writing, Holds
<1>6. Stored' /\ Reading' /\ WrittenReadsBack'
  BY <1>1 DEF Stored, Reading, WrittenReadsBack, Clean, Nothing
<1> QED BY <1>3, <1>5, <1>6 DEF CurveInv

LEMMA StartOfReadRight ==
    ASSUME CurveInv, ReadCurve PROVE CurveInv'
<1>1. /\ work' = [at |-> "read", block |-> 0, data |-> << >>] /\ told' = Nothing
      /\ UNCHANGED <<curve, written>>
  BY DEF ReadCurve, Idle
<1>2. CurveTypeOK'
  BY <1>1, Blocks DEF CurveInv, CurveTypeOK, Whole
<1>3. Writing' /\ Stored' /\ WrittenReadsBack'
  BY <1>1 DEF CurveInv, Writing, Stored, Clean, Holds, WrittenReadsBack, Nothing
<1>4. Reading'
  <2>1. IsList(written.data)
    BY DEF CurveInv, CurveTypeOK, IsList
  <2>2. UpToPart(written.data, 0) = << >>
    BY <2>1, Beginning
  <2> QED BY <1>1, <2>2 DEF Reading
<1> QED BY <1>2, <1>3, <1>4 DEF CurveInv

LEMMA OtherHostRight ==
    ASSUME CurveInv, AnotherHost PROVE CurveInv'
<1>1. UNCHANGED work /\ told' = Nothing /\ ~told'.ok
  BY DEF AnotherHost, Nothing
<1>2. CASE CurveRecalcCsum /\ UNCHANGED written
  <2>1. Whole' /\ UNCHANGED curve.blocks
    BY <1>2, ComputedIn DEF CurveInv, CurveTypeOK
  <2> QED BY <1>1, <1>2, <2>1, Aside
<1>3. CASE \E b \in 0 .. NBlocks, data \in OtherData :
               /\ CurveBlock(b, data)
               /\ written' = [written EXCEPT !.clean = @ /\ ~Got("OK")]
  <2>1. PICK b \in 0 .. NBlocks, data \in OtherData :
               /\ CurveBlock(b, data)
               /\ written' = [written EXCEPT !.clean = @ /\ ~Got("OK")]
    BY <1>3
  <2>2. written \in [ok : BOOLEAN, clean : BOOLEAN, data : Seq(Nat)]
    BY DEF CurveInv, CurveTypeOK
  <2>3. CASE ~Got("OK") /\ UNCHANGED curve
    <3>1. written.clean /\ ~Got("OK") <=> written.clean
      BY <2>3
    <3>2. (written.clean /\ ~Got("OK")) = written.clean
      BY <2>2, <3>1
    <3>3. written' = written
      BY <2>1, <2>2, <3>2
    <3>4. Whole'
      BY <2>3 DEF CurveInv, CurveTypeOK, Whole
    <3> QED BY <1>1, <2>3, <3>3, <3>4, Aside
  <2>4. CASE /\ Got("OK") /\ b \in Block
             /\ curve' = [curve EXCEPT !.blocks[b] = data, !.checksum = NoChecksum]
    <3>1. Whole' /\ DOMAIN curve'.blocks = Block
      BY <2>4, StoredIn DEF CurveInv, CurveTypeOK
    <3>2. (written.clean /\ ~Got("OK")) = FALSE
      BY <2>4
    <3>3. written' = [written EXCEPT !.clean = FALSE]
      BY <2>1, <3>2
    <3>4. /\ written' \in [ok : BOOLEAN, clean : BOOLEAN, data : Seq(Nat)]
          /\ ~written'.clean /\ written'.ok = written.ok
      BY <2>2, <3>3
    <3>5. CurveTypeOK'
      BY <1>1, <3>1, <3>4 DEF CurveInv, CurveTypeOK
    <3>6. Writing' /\ Stored' /\ Reading' /\ WrittenReadsBack'
      BY <1>1, <3>4 DEF CurveInv, Writing, Stored, Reading, Clean, WrittenReadsBack
    <3> QED BY <3>5, <3>6 DEF CurveInv
  <2> QED BY <2>1, <2>3, <2>4, BlockStores
<1> QED BY <1>2, <1>3 DEF AnotherHost

\* Writing a block, when the client takes it for written.
LEMMA BlockSentRight ==
    ASSUME CurveInv, work.at = "write", CurveBlock(work.block, NextChunk), Got("OK"),
           \/ /\ work.block + 1 < NBlocks
              /\ work' = [work EXCEPT !.block = @ + 1, !.data = Remainder]
              /\ told' = Nothing /\ UNCHANGED written
           \/ /\ ~(work.block + 1 < NBlocks) /\ work' = Idle /\ Tells("write", TRUE, << >>)
              /\ written' = [written EXCEPT !.ok = TRUE]
    PROVE  CurveInv'
<1> DEFINE b == work.block
           d == written.data
<1>1. /\ Whole /\ DOMAIN curve.blocks = Block /\ b \in Block /\ b \in Nat
      /\ work = [at |-> work.at, block |-> work.block, data |-> work.data]
      /\ written \in [ok : BOOLEAN, clean : BOOLEAN, data : Seq(Nat)]
      /\ ~written.ok /\ IsList(d)
  BY Blocks DEF CurveInv, CurveTypeOK, Writing, IsList
<1>2. /\ Len(NextChunk) \in 1 .. BlockSize
      /\ curve' = [curve EXCEPT !.blocks[b] = NextChunk, !.checksum = NoChecksum]
  BY BlockStores
<1>3. /\ Whole' /\ DOMAIN curve'.blocks = Block /\ curve'.blocks[b] = NextChunk
      /\ \A c \in Block : c # b => curve'.blocks[c] = curve.blocks[c]
  BY <1>1, <1>2, StoredIn
<1>4. NextChunk = Cut(work.data)
      /\ Remainder = SubSeq(work.data, Len(Cut(work.data)) + 1, Len(work.data))
  BY DEF NextChunk, Remainder, Cut
<1>5. Len(Cut(work.data)) >= 1
  BY <1>2, <1>4, CurveAssumption
<1>6. ASSUME written.clean
      PROVE  /\ Len(d) > Place(b) /\ Remainder = From(d, b + 1)
             /\ \A c \in Block : c < b + 1 => curve'.blocks[c] = Part(d, c)
  <2>1. work.data = From(d, b) /\ Holds(d, b)
    BY <1>6 DEF CurveInv, Writing
  <2>2. Len(d) > Place(b) /\ NextChunk = Part(d, b) /\ Remainder = From(d, b + 1)
    BY <1>1, <1>4, <1>5, <2>1, CutOff
  <2>3. \A c \in Block : c < b + 1 => c = b \/ c < b
    BY <1>1, Blocks
  <2> QED BY <1>3, <2>1, <2>2, <2>3 DEF Holds
<1>7. CASE /\ b + 1 < NBlocks
           /\ work' = [work EXCEPT !.block = @ + 1, !.data = Remainder]
           /\ told' = Nothing /\ UNCHANGED written
  <2>1. work' = [at |-> "write", block |-> b + 1, data |-> Remainder] /\ b + 1 \in Block
    BY <1>1, <1>7, Blocks
  <2>2. CurveTypeOK'
    BY <1>1, <1>3, <1>7, <2>1 DEF CurveTypeOK
  <2>3. Writing'
    BY <1>1, <1>6, <1>7, <2>1 DEF Writing, Holds
  <2>4. Stored' /\ Reading' /\ WrittenReadsBack'
    BY <1>1, <1>7, <2>1 DEF Stored, Reading, Clean, WrittenReadsBack
  <2> QED BY <2>2, <2>3, <2>4 DEF CurveInv
<1>8. CASE /\ ~(b + 1 < NBlocks) /\ work' = Idle /\ Tells("write", TRUE, << >>)
           /\ written' = [written EXCEPT !.ok = TRUE]
  <2>1. /\ written' \in [ok : BOOLEAN, clean : BOOLEAN, data : Seq(Nat)]
        /\ written'.clean = written.clean /\ written'.data = d
    BY <1>1, <1>8
  <2>2. work' = [at |-> "idle", block |-> 0, data |-> << >>] /\ told'.what = "write"
    BY <1>8 DEF Idle, Tells
  <2>3. b = NBlocks - 1 /\ NBlocks = b + 1
    BY <1>1, <1>8, Blocks
  <2>4. CurveTypeOK'
    BY <1>3, <2>1, <2>2, Blocks DEF CurveTypeOK
  <2>5. Stored'
    BY <1>6, <2>1, <2>3 DEF Stored, Clean, Holds
  <2>6. Writing' /\ Reading' /\ WrittenReadsBack'
    BY <2>2 DEF Writing, Reading, WrittenReadsBack
  <2> QED BY <2>4, <2>5, <2>6 DEF CurveInv
<1> QED BY <1>7, <1>8

LEMMA SendingRight ==
    ASSUME CurveInv, SendCurveBlock PROVE CurveInv'
<1>1. CASE Fails("write") /\ UNCHANGED written
           /\ (CurveBlock(work.block, NextChunk) \/ UNCHANGED curve)
  <2>1. /\ ~written.ok /\ Whole /\ DOMAIN curve.blocks = Block
        /\ written \in [ok : BOOLEAN, clean : BOOLEAN, data : Seq(Nat)]
    BY DEF SendCurveBlock, CurveInv, CurveTypeOK, Writing
  <2>2. Whole' /\ DOMAIN curve'.blocks = Block
    <3>1. CASE UNCHANGED curve
      BY <2>1, <3>1 DEF Whole
    <3>2. CASE /\ work.block \in Block
               /\ curve' = [curve EXCEPT !.blocks[work.block] = NextChunk, !.checksum = NoChecksum]
      BY <2>1, <3>2, StoredIn
    <3> QED BY <1>1, <3>1, <3>2, BlockStores
  <2>3. work' = [at |-> "idle", block |-> 0, data |-> << >>] /\ told'.what = "write"
    BY <1>1 DEF Fails, Idle, Tells
  <2>4. CurveTypeOK'
    BY <1>1, <2>1, <2>2, <2>3, Blocks DEF CurveTypeOK
  <2>5. Writing' /\ Stored' /\ Reading' /\ WrittenReadsBack'
    BY <1>1, <2>1, <2>3 DEF Writing, Stored, Reading, WrittenReadsBack, Clean
  <2> QED BY <2>4, <2>5 DEF CurveInv
<1>2. CASE ~(Fails("write") /\ UNCHANGED written)
  <2>1. work.at = "write" /\ CurveBlock(work.block, NextChunk) /\ Got("OK")
    BY <1>2 DEF SendCurveBlock, ExchangeBlock
  <2>2. \/ /\ work.block + 1 < NBlocks
           /\ work' = [work EXCEPT !.block = @ + 1, !.data = Remainder]
           /\ told' = Nothing /\ UNCHANGED written
        \/ /\ ~(work.block + 1 < NBlocks) /\ work' = Idle /\ Tells("write", TRUE, << >>)
           /\ written' = [written EXCEPT !.ok = TRUE]
    BY <1>2 DEF SendCurveBlock, ExchangeBlock
  <2> QED BY <2>1, <2>2, BlockSentRight
<1>3. CurveBlock(work.block, NextChunk) \/ UNCHANGED curve
  BY DEF SendCurveBlock, ExchangeBlock
<1> QED BY <1>1, <1>2, <1>3

\* A block that was read, of a curve the client has written.
LEMMA BlockReadRight ==
    ASSUME CurveInv, Clean, work.at = "read",
           NEW data, data = work.data \o curve.blocks[work.block]
    PROVE  /\ work.block + 1 < NBlocks => data = UpToPart(written.data, work.block + 1)
           /\ Len(curve.blocks[work.block]) < BlockSize \/ work.block + 1 = NBlocks =>
                  data = Fitting(written.data)
<1> DEFINE b == work.block
           d == written.data
           last == NBlocks - 1
<1>1. /\ IsList(d) /\ b \in Block /\ b \in Nat /\ work.data = UpToPart(d, b)
      /\ Len(d) > Place(last) /\ Holds(d, NBlocks)
  BY Blocks DEF CurveInv, CurveTypeOK, Stored, Reading, IsList
<1>2. curve.blocks[b] = Part(d, b)
  BY <1>1, Blocks DEF Holds
<1>3. data = UpToPart(d, b) \o Part(d, b)
  BY <1>1, <1>2
<1>4. NBlocks \in Nat /\ b + 1 \in Nat /\ last \in Nat /\ b < NBlocks /\ b <= last
      /\ last + 1 = NBlocks
  BY <1>1, Blocks
<1>10. Fitting(d) = IF Len(d) > Place(NBlocks) THEN UpToPart(d, NBlocks) ELSE d
  BY DEF Fitting, Place, UpToPart, Between
<1>13. /\ b + 1 < NBlocks => data = UpToPart(d, b + 1)
       /\ Len(curve.blocks[b]) < BlockSize \/ b + 1 = NBlocks => data = Fitting(d)
  <2> HIDE DEF b, d, last
  <2>5. /\ Len(d) \in Nat /\ Place(b) \in Nat /\ Place(b + 1) \in Nat /\ Place(last) \in Nat
        /\ Place(NBlocks) \in Nat /\ BlockSize \in Nat
    <3>1. Len(d) \in Nat
      BY <1>1, LenOfList
    <3>2. BlockSize \in Nat
      BY CurveAssumption
    <3> QED BY <1>1, <1>4, <3>1, <3>2, Places
  <2>6. Place(b) <= Place(last) /\ (b + 1 < NBlocks => Place(b + 1) <= Place(last))
        /\ Place(b + 1) <= Place(NBlocks)
    <3>1. CASE b = last
      <4>1. b + 1 = NBlocks
        BY <1>4, <3>1
      <4> QED BY <1>1, <1>4, <2>5, <3>1, <4>1
    <3>2. CASE b < last
      <4>1. Place(b + 1) <= Place(last) /\ Place(b + 1) <= Place(NBlocks)
        BY <1>1, <1>4, <3>2, PlacesGrow
      <4>2. Place(b + 1) = Place(b) + BlockSize
        BY <1>1, Places
      <4> QED BY <2>5, <4>1, <4>2
    <3> QED BY <1>1, <1>4, <3>1, <3>2
  <2>7. Len(d) > Place(b)
    BY <1>1, <2>5, <2>6
  <2>8. /\ Len(d) >= Place(b + 1) => data = UpToPart(d, b + 1) /\ Len(Part(d, b)) = BlockSize
        /\ Len(d) <= Place(b + 1) => data = d
    BY <1>1, <1>3, <2>7, PutTogether
  <2>9. ASSUME b + 1 < NBlocks PROVE data = UpToPart(d, b + 1)
    BY <1>1, <2>5, <2>6, <2>8, <2>9
  <2>11. ASSUME b + 1 = NBlocks PROVE data = Fitting(d)
    <3>1. Fitting(d) = IF Len(d) > Place(b + 1) THEN UpToPart(d, b + 1) ELSE d
      BY <1>10, <2>11
    <3>2. CASE Len(d) > Place(b + 1)
      <4>1. Fitting(d) = UpToPart(d, b + 1)
        BY <3>1, <3>2
      <4>2. data = UpToPart(d, b + 1)
        <5>1. Len(d) >= Place(b + 1)
          BY <2>5, <3>2
        <5> QED BY <2>8, <5>1
      <4> QED BY <4>1, <4>2
    <3>3. CASE ~(Len(d) > Place(b + 1))
      <4>1. Fitting(d) = d
        BY <3>1, <3>3
      <4>2. data = d
        <5>1. Len(d) <= Place(b + 1)
          BY <2>5, <3>3
        <5> QED BY <2>8, <5>1
      <4> QED BY <4>1, <4>2
    <3> QED BY <3>2, <3>3
  <2>12. ASSUME Len(curve.blocks[b]) < BlockSize PROVE data = Fitting(d)
    <3>1. Len(d) < Place(b + 1)
      BY <1>1, <1>4, <1>2, <2>5, <2>8, <2>12
    <3> QED BY <1>1, <1>4, <2>5, <2>6, <2>8, <1>10, <3>1
  <2> QED BY <2>9, <2>11, <2>12
<1> QED BY <1>13

LEMMA RequestingRight ==
    ASSUME CurveInv, RequestCurveBlock PROVE CurveInv'
<1> DEFINE data == work.data \o curve.blocks[work.block]
<1>1. UNCHANGED <<curve, written>> /\ work.at = "read"
  BY DEF RequestCurveBlock
<1>2. \/ Fails("read")
      \/ /\ CurveBlockRequest(work.block) /\ Got("CURVE_BLOCK")
         /\ \/ /\ Len(answer'.payload) < BlockSize \/ work.block + 1 = NBlocks
               /\ work' = Idle /\ Tells("read", TRUE, work.data \o answer'.payload)
            \/ /\ ~(work.block + 1 = NBlocks) /\ told' = Nothing
               /\ work' = [work EXCEPT !.block = @ + 1, !.data = work.data \o answer'.payload]
  BY DEF RequestCurveBlock, Exchange
<1>3. CurveBlockRequest(work.block) /\ Got("CURVE_BLOCK") =>
          answer'.payload = curve.blocks[work.block]
  BY DEF CurveBlockRequest, Refuse, Give, Got
<1>4. /\ CurveTypeOK /\ Whole' /\ work.block \in Block
      /\ work = [at |-> work.at, block |-> work.block, data |-> work.data]
  BY <1>1 DEF CurveInv, CurveTypeOK, Whole
<1>5. CASE Fails("read")
  <2>1. work' = Idle /\ ~told'.ok
    BY <1>5 DEF Fails, Tells
  <2> QED BY <1>1, <1>4, <2>1, Aside
<1> HIDE DEF data
<1>6. Clean => /\ work.block + 1 < NBlocks => data = UpToPart(written.data, work.block + 1)
               /\ Len(curve.blocks[work.block]) < BlockSize \/ work.block + 1 = NBlocks =>
                      data = Fitting(written.data)
  BY <1>1, BlockReadRight DEF data
<1>7. CASE /\ Len(curve.blocks[work.block]) < BlockSize \/ work.block + 1 = NBlocks
           /\ work' = Idle /\ Tells("read", TRUE, data)
  <2>1. work' = [at |-> "idle", block |-> 0, data |-> << >>] /\ told'.data = data
    BY <1>7 DEF Idle, Tells
  <2>2. CurveTypeOK'
    BY <1>1, <1>4, <2>1, Blocks DEF CurveTypeOK
  <2>3. Writing' /\ Stored' /\ Reading'
    BY <1>1, <2>1 DEF CurveInv, Writing, Stored, Reading, Clean, Holds
  <2>4. WrittenReadsBack'
    BY <1>1, <1>6, <1>7, <2>1 DEF WrittenReadsBack, Clean
  <2> QED BY <2>2, <2>3, <2>4 DEF CurveInv
<1>8. CASE /\ ~(work.block + 1 = NBlocks) /\ told' = Nothing
           /\ work' = [work EXCEPT !.block = @ + 1, !.data = data]
  <2>0. work.block + 1 < NBlocks /\ work.block + 1 \in Block
    BY <1>4, <1>8, CurveAssumption DEF Block
  <2>1. work' = [at |-> "read", block |-> work.block + 1, data |-> data] /\ ~told'.ok
    BY <1>1, <1>4, <1>8 DEF Nothing
  <2>2. CurveTypeOK'
    BY <1>1, <1>4, <2>0, <2>1 DEF CurveTypeOK
  <2>3. Writing' /\ Stored' /\ WrittenReadsBack'
    BY <1>1, <2>1 DEF CurveInv, Writing, Stored, Clean, Holds, WrittenReadsBack
  <2>4. Reading'
    BY <1>1, <1>6, <2>0, <2>1 DEF Reading, Clean
  <2> QED BY <2>2, <2>3, <2>4 DEF CurveInv
<1> QED BY <1>2, <1>3, <1>5, <1>7, <1>8 DEF data

LEMMA CurveStep ==
    ASSUME CurveInv, [CurveNext]_<<hosts, server, client, curves>> PROVE CurveInv'
<1>1. CASE UNCHANGED curves
  <2>1. UNCHANGED <<curve, work, told, written>> /\ Whole'
    BY <1>1 DEF curves, CurveInv, CurveTypeOK, Whole
  <2> QED BY <2>1, Aside
<1>2. CASE Curves
  BY <1>2, LookingRight, ComputingRight, StartOfWriteRight, StartOfReadRight, OtherHostRight,
     SendingRight, RequestingRight DEF Curves
<1> QED BY <1>1, <1>2 DEF CurveNext, ClientNext

-----------------------------------------------------------------------------
(***************************************************************************)
(* The theorems.  Spec is the server alone, CurveSpec the server with its  *)
(* hosts, its client library and a curve.                                  *)
(***************************************************************************)
LEMMA ServerKeepsInv == ServerInv /\ [Next]_server => ServerInv' /\ Kept /\ Harmless
  BY ServerEffect, EffectKeepsInv, EffectIsRight

LEMMA StepKeepsInv ==
    ServerInv /\ [CurveNext]_<<hosts, server, client, curves>> => ServerInv' /\ Kept /\ Harmless
  BY StepEffect, EffectKeepsInv, EffectIsRight

LEMMA InitInvs == CurveInit => ServerInv /\ CurveInv /\ ClientInv
<1>1. CurveInit => ClientInit
  BY DEF CurveInit
<1>2. ClientInit => Init
  BY DEF ClientInit
<1> QED BY <1>1, <1>2, InitServerInv, InitClientInv, InitCurveInv

\* With one client, what it keeps is right too.
HostsInv == ServerInv /\ (hosts = "client" => ClientInv)

LEMMA HostsKeepInv ==
    ASSUME ListsHaveRoom
    PROVE  HostsInv /\ [CurveNext]_<<hosts, server, client, curves>> => HostsInv'
  BY HostsStay, StepKeepsInv, ClientStep DEF HostsInv

LEMMA AlwaysServerInv == (Spec => []ServerInv) /\ (CurveSpec => []ServerInv)
<1>1. Spec => []ServerInv
  BY InitServerInv, ServerKeepsInv, PTL DEF Spec
<1>2. CurveSpec => []ServerInv
  BY InitInvs, StepKeepsInv, PTL DEF CurveSpec
<1> QED BY <1>1, <1>2

LEMMA AlwaysHostsInv == ASSUME ListsHaveRoom PROVE CurveSpec => []HostsInv
<1>1. CurveInit => HostsInv
  BY InitInvs DEF HostsInv
<1> QED BY <1>1, HostsKeepInv, PTL DEF CurveSpec

(***************************************************************************)
(* The tables of the server keep their types and limits.                   *)
(***************************************************************************)
THEOREM ServerTypeCorrect == (Spec => []TypeOK) /\ (CurveSpec => []TypeOK)
<1>1. ServerInv => TypeOK
  BY DEF ServerInv
<1> QED BY <1>1, AlwaysServerInv, PTL

(***************************************************************************)
(* Every group lists registered variables once and in the order of their   *)
(* ids, with their size and permission, and the standard groups list what  *)
(* they stand for, however registrations, groups of any choice of ids and  *)
(* removals follow each other.                                             *)
(***************************************************************************)
THEOREM GroupsStayWellFormed ==
    (Spec => []GroupsWellFormed) /\ (CurveSpec => []GroupsWellFormed)
  BY InvWellFormed, AlwaysServerInv, PTL

(***************************************************************************)
(* No command writes to a variable that is read-only or not registered,    *)
(* through whatever group and whichever operation.                         *)
(***************************************************************************)
THEOREM ReadOnlyStays == (Spec => ReadOnlyKept) /\ (CurveSpec => ReadOnlyKept)
<1>1. ServerInv /\ [Next]_server =>
          [\A v \in Var : v \notin Writable \cap Registered(vars) => value'[v] = value[v]]_server
  BY ServerKeepsInv DEF Kept
<1>2. ServerInv /\ [CurveNext]_<<hosts, server, client, curves>> =>
          [\A v \in Var : v \notin Writable \cap Registered(vars) => value'[v] = value[v]]_server
  BY StepKeepsInv DEF Kept
<1>3. Spec => ReadOnlyKept
  BY <1>1, AlwaysServerInv, PTL DEF Spec, ReadOnlyKept
<1>4. CurveSpec => ReadOnlyKept
  BY <1>2, AlwaysServerInv, PTL DEF CurveSpec, ReadOnlyKept
<1> QED BY <1>3, <1>4

(***************************************************************************)
(* What a refused command changed all the same is a value that passed its  *)
(* check, in a group of which another one did not.                         *)
(***************************************************************************)
THEOREM RefusalsAreHarmless == (Spec => RefusedIsHarmless) /\ (CurveSpec => RefusedIsHarmless)
<1>1. ServerInv /\ [Next]_server => [Harmless]_server
  BY ServerKeepsInv
<1>2. ServerInv /\ [CurveNext]_<<hosts, server, client, curves>> => [Harmless]_server
  BY StepKeepsInv
<1>3. Spec => RefusedIsHarmless
  BY <1>1, AlwaysServerInv, PTL DEF Spec, RefusedIsHarmless, Harmless
<1>4. CurveSpec => RefusedIsHarmless
  BY <1>2, AlwaysServerInv, PTL DEF CurveSpec, RefusedIsHarmless, Harmless
<1> QED BY <1>3, <1>4

(***************************************************************************)
(* The bytes of the lists tell the sizes, numbers and permissions, as long *)
(* as there are fewer variables than the flag of a byte leaves room for.   *)
(***************************************************************************)
THEOREM ListsAreTrue == ASSUME ListsHaveRoom PROVE CurveSpec => []ListsTellTheTruth
  BY InvTellsTruth, AlwaysServerInv, PTL

(***************************************************************************)
(* What the client keeps of the groups is what the server has, from one    *)
(* update to the next, as long as nobody removes groups: answers that are  *)
(* lost and groups another host creates leave it true.                     *)
(***************************************************************************)
THEOREM CopiesStand == ASSUME ListsHaveRoom PROVE CurveSpec => []CachedGroupsStand
<1>1. HostsInv => CachedGroupsStand
  BY InvStands DEF HostsInv
<1> QED BY <1>1, AlwaysHostsInv, PTL

(***************************************************************************)
(* Then a function of the client changes the variables it names and no     *)
(* others, and what it reports to have read is what those hold.            *)
(***************************************************************************)
THEOREM MeantIsWhatIsDone == ASSUME ListsHaveRoom PROVE CurveSpec => MeantIsDone
<1>1. HostsInv /\ [CurveNext]_<<hosts, server, client, curves>> =>
          [hosts = "client" /\ ~removed => Meant]_<<server, client>>
  BY StepMeant DEF HostsInv
<1> QED BY <1>1, AlwaysHostsInv, PTL DEF CurveSpec, MeantIsDone, Meant

(***************************************************************************)
(* A valid checksum is that of the whole curve as it is now, whatever two  *)
(* hosts and the application do in between, whenever no block is told from *)
(* a full one wrongly; writes never leave an older one standing.           *)
(***************************************************************************)
THEOREM ChecksumStaysCurrent == CurveSpec => [](LimitsAgree => ChecksumIsTheCurves)
<1>1. CurveInit => Whole /\ Current
  BY DEF CurveInit, Whole, Current, NoChecksum
<1>2. Whole /\ Current /\ [CurveNext]_<<hosts, server, client, curves>> => Whole' /\ Current'
  BY StepTouches, ChecksumStep
<1>3. Current => (LimitsAgree => ChecksumIsTheCurves)
  BY DigestIsContent DEF Current, ChecksumIsTheCurves
<1> QED BY <1>1, <1>2, <1>3, PTL DEF CurveSpec

(***************************************************************************)
(* So it is for a curve that has as many blocks as a block has bytes.      *)
(***************************************************************************)
THEOREM SquareCurveChecksum == ASSUME NBlocks = BlockSize PROVE CurveSpec => []ChecksumIsTheCurves
<1>1. LimitsAgree
  BY DEF LimitsAgree
<1> QED BY <1>1, ChecksumStaysCurrent, PTL

(***************************************************************************)
(* What the client has written it reads back, for every number and size of *)
(* blocks and every length of the data, whatever answers are lost on the   *)
(* way, as long as no other host writes.                                   *)
(***************************************************************************)
THEOREM ReadsBack == CurveSpec => []WrittenReadsBack
<1>1. CurveInit => CurveInv
  BY InitInvs
<1>2. CurveInv /\ [CurveNext]_<<hosts, server, client, curves>> => CurveInv'
  BY CurveStep
<1>3. CurveInv => WrittenReadsBack
  BY DEF CurveInv
<1> QED BY <1>1, <1>2, <1>3, PTL DEF CurveSpec

=============================================================================
