-------------------------- MODULE RunSummaryProofs --------------------------
(***************************************************************************)
(* For transcripts of any length, any number of runs, days, conditions and *)
(* series, and any window: the shares of a run add up to what was charged, *)
(* and the comparison has each run once, with the BASE runs it should have.*)
(*                                                                         *)
(* The accounting is a matter of sums, and those are recursive: what holds *)
(* of all of them is shown with the least number for which it does not.    *)
(***************************************************************************)
EXTENDS RunSummary, FiniteSetTheorems, WellFoundedInduction, TLAPS

----------------------------------------------------------------------------
(* Sums *)

\* Every nonempty set of naturals has a least element.
LEMMA LeastElement ==
    ASSUME NEW T \in SUBSET Nat, T # {}
    PROVE  \E n \in T : \A m \in T : n <= m
<1> DEFINE R == OpToRel(<, Nat)
<1>1. IsWellFoundedOn(R, Nat)
  BY NatLessThanWellFounded
<1>2. \A x, y \in Nat : x < y => <<x, y>> \in R
  BY DEF OpToRel
<1> HIDE DEF R
<1>3. PICK x \in T : \A y \in T : ~(<<y, x>> \in R)
  BY <1>1, WFMin
<1>4. ASSUME NEW y \in T
      PROVE  x <= y
  <2>1. x \in Nat /\ y \in Nat /\ ~(y < x)
    BY <1>2, <1>3
  <2> QED  BY <2>1
<1> QED  BY <1>3, <1>4

\* s is the beginning of the partial sums of f, up to n.
SumsUpTo(f, s, n) ==
    /\ s[0] = 0
    /\ \A k \in 1..n : s[k] = s[k - 1] + f[k]

\* There are partial sums of any length.
LEMMA SumsExist ==
    ASSUME NEW f, NEW n \in Nat
    PROVE  \E s : SumsUpTo(f, s, n)
<1> DEFINE T == {m \in Nat : ~ \E s : SumsUpTo(f, s, m)}
<1> SUFFICES ASSUME T # {}
             PROVE  FALSE
  OBVIOUS
<1>1. PICK m \in T : \A k \in T : m <= k
  BY LeastElement
<1>2. m # 0
  <2>1. SumsUpTo(f, [k \in {0} |-> 0], 0)
    BY DEF SumsUpTo
  <2> QED
    BY <2>1
<1>3. m - 1 \in Nat /\ m - 1 \notin T
  BY <1>1, <1>2
<1>4. PICK s : SumsUpTo(f, s, m - 1)
  BY <1>3
<1> DEFINE t == [k \in 0..m |-> IF k = m THEN s[m - 1] + f[m] ELSE s[k]]
<1>5. t[0] = 0 /\ t[m] = t[m - 1] + f[m]
  BY <1>2, <1>3, <1>4 DEF SumsUpTo
<1>6. \A k \in 1..(m - 1) : t[k] = t[k - 1] + f[k]
  BY <1>3, <1>4 DEF SumsUpTo
<1>7. SumsUpTo(f, t, m)
  <2> HIDE DEF t
  <2>1. \A k \in 1..m : k = m \/ k \in 1..(m - 1)
    BY <1>3
  <2> QED
    BY <1>5, <1>6, <2>1 DEF SumsUpTo
<1> QED
  BY <1>7

\* And only one of each.
LEMMA SumsAgree ==
    ASSUME NEW f, NEW n \in Nat, NEW m \in Nat, NEW s, NEW t,
           SumsUpTo(f, s, n), SumsUpTo(f, t, m), n <= m
    PROVE  s[n] = t[n]
<1> DEFINE T == {k \in 0..n : s[k] # t[k]}
<1> SUFFICES ASSUME T # {}
             PROVE  FALSE
  OBVIOUS
<1>1. PICK k \in T : \A j \in T : k <= j
  <2>1. T \in SUBSET Nat
    OBVIOUS
  <2> HIDE DEF T
  <2> QED
    BY <2>1, LeastElement
<1>2. k # 0
  BY DEF SumsUpTo
<1>3. k - 1 \in 0..n /\ k - 1 \notin T
  BY <1>1, <1>2
<1>4. s[k] = s[k - 1] + f[k] /\ t[k] = t[k - 1] + f[k]
  BY <1>2 DEF SumsUpTo
<1> QED
  BY <1>3, <1>4

\* What the recursion computes.
LEMMA TotalIs ==
    ASSUME NEW f
    PROVE  /\ Total(f, 0) = 0
           /\ \A n \in Nat : n > 0 => Total(f, n) = Total(f, n - 1) + f[n]
<1> DEFINE sums(n) == CHOOSE s : SumsUpTo(f, s, n)
           G == [n \in Nat |-> sums(n)[n]]
           H == CHOOSE s : s = [k \in Nat |-> IF k = 0 THEN 0 ELSE s[k - 1] + f[k]]
<1>1. \A n \in Nat : SumsUpTo(f, sums(n), n)
  BY SumsExist
<1> HIDE DEF sums
<1>2. ASSUME NEW n \in Nat, n # 0
      PROVE  G[n] = G[n - 1] + f[n]
  <2>1. n - 1 \in Nat /\ n - 1 <= n
    BY <1>2
  <2>2. SumsUpTo(f, sums(n), n) /\ SumsUpTo(f, sums(n - 1), n - 1)
    BY <1>1, <2>1
  <2>3. sums(n - 1)[n - 1] = sums(n)[n - 1]
    BY <2>1, <2>2, SumsAgree
  <2>4. sums(n)[n] = sums(n)[n - 1] + f[n]
    BY <1>2, <2>2 DEF SumsUpTo
  <2> QED
    BY <2>1, <2>3, <2>4
<1>3. G[0] = 0
  BY <1>1 DEF SumsUpTo
<1>4. G = [k \in Nat |-> IF k = 0 THEN 0 ELSE G[k - 1] + f[k]]
  <2>1. \A k \in Nat : G[k] = IF k = 0 THEN 0 ELSE G[k - 1] + f[k]
    BY <1>2, <1>3
  <2>2. G = [k \in Nat |-> G[k]]
    OBVIOUS
  <2> HIDE DEF G
  <2> QED
    BY <2>1, <2>2
<1> HIDE DEF G
<1>5. H = [k \in Nat |-> IF k = 0 THEN 0 ELSE H[k - 1] + f[k]]
  BY <1>4
<1>6. \A n : Total(f, n) = H[n]
  BY Zenon DEF Total
<1> HIDE DEF H
<1>7. \A k \in Nat : H[k] = IF k = 0 THEN 0 ELSE H[k - 1] + f[k]
  BY <1>5
<1> QED
  BY <1>6, <1>7

\* A set that has 0, and with a number the next, has all of them.
LEMMA AllUpTo ==
    ASSUME NEW n \in Nat, NEW T, 0 \in T, \A m \in 1..n : m - 1 \in T => m \in T
    PROVE  \A m \in 0..n : m \in T
<1> DEFINE U == {m \in 0..n : m \notin T}
<1> SUFFICES ASSUME U # {}
             PROVE  FALSE
  OBVIOUS
<1>1. PICK m \in U : \A k \in U : m <= k
  <2>1. U \in SUBSET Nat
    OBVIOUS
  <2> HIDE DEF U
  <2> QED
    BY <2>1, LeastElement
<1>2. m \in 1..n /\ m - 1 \in 0..n
  BY <1>1
<1>3. m - 1 \in T
  BY <1>1, <1>2
<1> QED
  BY <1>1, <1>2, <1>3

LEMMA TotalIsInt ==
    ASSUME NEW f, NEW n \in Nat, \A k \in 1..n : f[k] \in Int
    PROVE  \A m \in 0..n : Total(f, m) \in Int
<1> DEFINE T == {m \in 0..n : Total(f, m) \in Int}
<1>1. 0 \in T
  BY TotalIs
<1>2. ASSUME NEW m \in 1..n, m - 1 \in T
      PROVE  m \in T
  <2>1. Total(f, m) = Total(f, m - 1) + f[m]
    BY TotalIs
  <2> QED
    BY <1>2, <2>1
<1> HIDE DEF T
<1>3. \A m \in 0..n : m \in T
  BY <1>1, <1>2, AllUpTo
<1> QED
  BY <1>3 DEF T

LEMMA TotalsAdd ==
    ASSUME NEW f, NEW g, NEW h, NEW n \in Nat,
           \A k \in 1..n : f[k] \in Int /\ g[k] \in Int /\ h[k] = f[k] + g[k]
    PROVE  Total(h, n) = Total(f, n) + Total(g, n)
<1> DEFINE T == {m \in 0..n : Total(h, m) = Total(f, m) + Total(g, m)}
<1>1. 0 \in T
  BY TotalIs
<1>2. ASSUME NEW m \in 1..n, m - 1 \in T
      PROVE  m \in T
  <2>1. /\ Total(f, m) = Total(f, m - 1) + f[m]
        /\ Total(g, m) = Total(g, m - 1) + g[m]
        /\ Total(h, m) = Total(h, m - 1) + h[m]
    BY TotalIs
  <2>2. m - 1 \in 0..n
    OBVIOUS
  <2>3. Total(f, m - 1) \in Int /\ Total(g, m - 1) \in Int
    BY <2>2, TotalIsInt
  <2>4. Total(h, m - 1) = Total(f, m - 1) + Total(g, m - 1)
    BY <1>2
  <2> QED
    BY <2>1, <2>3, <2>4
<1> HIDE DEF T
<1>3. \A m \in 0..n : m \in T
  BY <1>1, <1>2, AllUpTo
<1> QED
  BY <1>3 DEF T

LEMMA SameTotal ==
    ASSUME NEW f, NEW g, NEW n \in Nat, \A k \in 1..n : f[k] = g[k]
    PROVE  \A m \in 0..n : Total(f, m) = Total(g, m)
<1> DEFINE T == {m \in 0..n : Total(f, m) = Total(g, m)}
<1>1. 0 \in T
  BY TotalIs
<1>2. ASSUME NEW m \in 1..n, m - 1 \in T
      PROVE  m \in T
  <2>1. /\ Total(f, m) = Total(f, m - 1) + f[m]
        /\ Total(g, m) = Total(g, m - 1) + g[m]
    BY TotalIs
  <2> QED
    BY <1>2, <2>1
<1> HIDE DEF T
<1>3. \A m \in 0..n : m \in T
  BY <1>1, <1>2, AllUpTo
<1> QED
  BY <1>3 DEF T

\* Of n turns, what is there at each, what is added by each, once for every
\* later turn, and what is there at the later turns.
AddedOnce(n, there, added, later) ==
    /\ n \in Nat \ {0}
    /\ \A k \in 1..n : there[k] \in Int
    /\ \A k \in 1..(n - 1) : added[k] = (there[k + 1] - there[k]) * (n - k)
    /\ added[n] = 0
    /\ later[1] = 0 /\ \A k \in 2..n : later[k] = there[k]

\* What is added at a turn counts for every later one: summed up either way,
\* over what is added or over what is there, the total is the same.
LEMMA AddedForEveryLaterTurn ==
    ASSUME NEW n, NEW there, NEW added, NEW later, AddedOnce(n, there, added, later)
    PROVE  Total(added, n) = Total(later, n) - there[1] * (n - 1)
<1> USE DEF AddedOnce
<1> DEFINE T == {m \in 0..(n - 1) :
                    Total(added, m) = there[m + 1] * (n - m - 1) - there[1] * (n - 1)
                                        + Total(later, m + 1)}
<1>0. \A k \in 1..n : later[k] \in Int /\ added[k] \in Int
  <2>1. ASSUME NEW k \in 1..n
        PROVE  later[k] \in Int
    BY <2>1
  <2>2. ASSUME NEW k \in 1..n
        PROVE  added[k] \in Int
    <3>1. CASE k = n
      BY <3>1
    <3>2. CASE k # n
      <4>1. k \in 1..(n - 1) /\ k + 1 \in 1..n
        BY <3>2
      <4>2. there[k] \in Int /\ there[k + 1] \in Int
        BY <4>1
      <4> QED
        BY <4>1, <4>2
    <3> QED
      BY <3>1, <3>2
  <2> QED
    BY <2>1, <2>2
<1>1. 0 \in T
  <2>1. Total(later, 1) = Total(later, 0) + later[1] /\ Total(later, 0) = 0
    BY TotalIs
  <2>2. Total(added, 0) = 0 /\ there[1] \in Int
    BY TotalIs
  <2> QED
    BY <2>1, <2>2
<1>2. ASSUME NEW m \in 1..(n - 1), m - 1 \in T
      PROVE  m \in T
  <2>1. /\ Total(added, m) = Total(added, m - 1) + added[m]
        /\ Total(later, m + 1) = Total(later, m) + later[m + 1]
    <3>1. (m + 1) - 1 = m /\ m + 1 > 0 /\ m + 1 \in Nat /\ m \in Nat /\ m > 0
      OBVIOUS
    <3> QED
      BY <3>1, TotalIs
  <2>2. /\ Total(added, m - 1) = there[m] * (n - m) - there[1] * (n - 1) + Total(later, m)
    <3>1. (m - 1) + 1 = m /\ n - (m - 1) - 1 = n - m
      OBVIOUS
    <3> QED
      BY <1>2, <3>1
  <2>3. added[m] = (there[m + 1] - there[m]) * (n - m) /\ later[m + 1] = there[m + 1]
    OBVIOUS
  <2>4. there[m] \in Int /\ there[m + 1] \in Int /\ there[1] \in Int
    OBVIOUS
  <2>5. Total(later, m) \in Int
    BY <1>0, TotalIsInt
  <2> DEFINE a == there[m]  b == there[m + 1]  c == there[1] * (n - 1)  L == Total(later, m)
  <2>6. a \in Int /\ b \in Int /\ c \in Int /\ L \in Int
    BY <2>4, <2>5
  <2> HIDE DEF a, b, c, L
  <2>7. (a * (n - m) - c + L) + (b - a) * (n - m) = b * (n - m - 1) - c + (L + b)
    BY <2>6
  <2>8. Total(added, m) = b * (n - m - 1) - c + (L + b)
    BY <2>1, <2>2, <2>3, <2>7 DEF a, b, c, L
  <2>9. Total(later, m + 1) = L + b
    BY <2>1, <2>3 DEF b, L
  <2> QED
    BY <2>8, <2>9 DEF b, c
<1> HIDE DEF T
<1>3. \A m \in 0..(n - 1) : m \in T
  <2> DEFINE p == n - 1
  <2>1. p \in Nat /\ \A m \in 1..p : m - 1 \in T => m \in T
    BY <1>2
  <2> HIDE DEF p
  <2>2. \A m \in 0..p : m \in T
    BY <1>1, <2>1, AllUpTo
  <2> QED
    BY <2>2 DEF p
<1>4. Total(added, n - 1) = there[n] * 0 - there[1] * (n - 1) + Total(later, n)
  <2>1. n - 1 \in T /\ (n - 1) + 1 = n /\ n - (n - 1) - 1 = 0
    BY <1>3
  <2> QED
    BY <2>1 DEF T
<1>5. Total(added, n) = Total(added, n - 1) + added[n]
  BY TotalIs
<1>6. Total(later, n) \in Int /\ there[n] \in Int /\ there[1] \in Int
      /\ Total(added, n - 1) \in Int
  <2>1. n \in 0..n /\ n - 1 \in 0..n /\ n \in 1..n /\ 1 \in 1..n
    OBVIOUS
  <2>2. \A m \in 0..n : Total(later, m) \in Int /\ Total(added, m) \in Int
    BY <1>0, TotalIsInt
  <2> QED
    BY <2>1, <2>2
<1> QED
  BY <1>4, <1>5, <1>6

----------------------------------------------------------------------------
(* The shares of a run *)

\* What extract_turns tells of a turn, and of two that follow each other.
TurnsOK(turns) ==
    /\ turns \in Seq([context : Int, output : Int, result : Int, discarded : Int,
                      compacted : BOOLEAN])
    /\ \A k \in 1..(Len(turns) - 1) :
          /\ turns[k + 1].context - turns[k].context =
                turns[k].output + turns[k].result + turns[k].discarded
          /\ ~turns[k].compacted => turns[k].discarded = 0

LEMMA TurnFields ==
    ASSUME NEW turns, TurnsOK(turns), turns # <<>>
    PROVE  /\ Len(turns) \in Nat \ {0} /\ DOMAIN turns = 1..Len(turns)
           /\ \A k \in 1..Len(turns) :
                 /\ turns[k].context \in Int /\ turns[k].output \in Int
                 /\ turns[k].result \in Int /\ turns[k].discarded \in Int
                 /\ turns[k].compacted \in BOOLEAN
<1> DEFINE Fields == [context : Int, output : Int, result : Int, discarded : Int,
                      compacted : BOOLEAN]
<1>1. turns \in Seq(Fields)
  BY DEF TurnsOK
<1>2. \A t \in Fields : /\ t.context \in Int /\ t.output \in Int
                        /\ t.result \in Int /\ t.discarded \in Int
                        /\ t.compacted \in BOOLEAN
  OBVIOUS
<1> HIDE DEF Fields
<1>3. Len(turns) \in Nat \ {0} /\ DOMAIN turns = 1..Len(turns)
  BY <1>1
<1>4. \A k \in 1..Len(turns) : turns[k] \in Fields
  BY <1>1
<1> QED
  BY <1>2, <1>3, <1>4

\* The opening, the outputs, the tool results and what was discarded make up
\* what was charged, compacted or not.
LEMMA SharesAddUp ==
    ASSUME NEW turns, TurnsOK(turns)
    PROVE  Balanced(turns)
<1> DEFINE n == Len(turns)
           out == [k \in DOMAIN turns |-> turns[k].output * (n - k)]
           res == [k \in DOMAIN turns |-> turns[k].result * (n - k)]
           dis == [k \in DOMAIN turns |-> turns[k].discarded * (n - k)]
           obs == [k \in DOMAIN turns |-> IF k = 1 THEN 0 ELSE turns[k].context]
           two == [k \in DOMAIN turns |-> out[k] + res[k]]
           all == [k \in DOMAIN turns |-> two[k] + dis[k]]
           cs == [k \in DOMAIN turns |-> turns[k].context]
<1> SUFFICES ASSUME turns # <<>>
             PROVE  cs[1] * (n - 1) + Total(out, n) + Total(res, n) + Total(dis, n)
                        = Total(obs, n)
  <2>1. turns # <<>> => 1 \in DOMAIN turns
    BY DEF TurnsOK
  <2> QED
    BY <2>1 DEF Balanced, Reread, Observed
<1>1. /\ n \in Nat \ {0} /\ DOMAIN turns = 1..n
      /\ \A k \in 1..n : /\ turns[k].context \in Int /\ turns[k].output \in Int
                         /\ turns[k].result \in Int /\ turns[k].discarded \in Int
  BY TurnFields
<1> HIDE DEF n
<1>2. \A k \in 1..n : out[k] \in Int /\ res[k] \in Int /\ dis[k] \in Int
  <2> SUFFICES ASSUME NEW k \in 1..n
               PROVE  out[k] \in Int /\ res[k] \in Int /\ dis[k] \in Int
    OBVIOUS
  <2>1. n - k \in Int /\ turns[k].output \in Int /\ turns[k].result \in Int
        /\ turns[k].discarded \in Int
    BY <1>1
  <2> QED
    BY <1>1, <2>1
<1>3. \A k \in 1..n : /\ two[k] \in Int /\ two[k] = out[k] + res[k]
                      /\ all[k] = two[k] + dis[k]
  BY <1>1, <1>2
<1>4. ASSUME NEW k \in 1..(n - 1)
      PROVE  all[k] = (cs[k + 1] - cs[k]) * (n - k)
  <2>1. k \in 1..n /\ k + 1 \in 1..n
    BY <1>1
  <2>2. turns[k + 1].context - turns[k].context =
            turns[k].output + turns[k].result + turns[k].discarded
    BY DEF TurnsOK, n
  <2>3. all[k] = turns[k].output * (n - k) + turns[k].result * (n - k)
                    + turns[k].discarded * (n - k)
    BY <1>1, <2>1
  <2>4. cs[k + 1] = turns[k + 1].context /\ cs[k] = turns[k].context
    BY <1>1, <2>1
  <2> DEFINE o == turns[k].output  r == turns[k].result  d == turns[k].discarded
             c == turns[k].context  m == turns[k + 1].context
  <2>5. o \in Int /\ r \in Int /\ d \in Int /\ c \in Int /\ m \in Int /\ n - k \in Int
    BY <1>1, <2>1
  <2> HIDE DEF o, r, d, c, m
  <2>6. m - c = o + r + d
    BY <2>2 DEF o, r, d, c, m
  <2>7. o * (n - k) + r * (n - k) + d * (n - k) = (o + r + d) * (n - k)
    BY <2>5
  <2>8. all[k] = (m - c) * (n - k)
    BY <2>3, <2>6, <2>7 DEF o, r, d
  <2> QED
    BY <2>4, <2>8 DEF c, m
<1>5. all[n] = 0
  BY <1>1
<1>6. \A k \in 1..n : cs[k] \in Int
  BY <1>1
<1>7. obs[1] = 0 /\ \A k \in 2..n : obs[k] = cs[k]
  BY <1>1
<1> HIDE DEF out, res, dis, obs, two, all, cs
<1>8. Total(all, n) = Total(obs, n) - cs[1] * (n - 1)
  <2>1. AddedOnce(n, cs, all, obs)
    BY <1>1, <1>4, <1>5, <1>6, <1>7 DEF AddedOnce
  <2> QED
    BY <2>1, AddedForEveryLaterTurn
<1>9. Total(two, n) = Total(out, n) + Total(res, n)
      /\ Total(all, n) = Total(two, n) + Total(dis, n)
  <2>1. n \in Nat
    BY <1>1
  <2>2. \A k \in 1..n : out[k] \in Int /\ res[k] \in Int /\ two[k] = out[k] + res[k]
    BY <1>2, <1>3
  <2>3. \A k \in 1..n : two[k] \in Int /\ dis[k] \in Int /\ all[k] = two[k] + dis[k]
    BY <1>2, <1>3
  <2> QED
    BY <2>1, <2>2, <2>3, TotalsAdd, Zenon
<1>10. Total(out, n) \in Int /\ Total(res, n) \in Int /\ Total(dis, n) \in Int
       /\ Total(obs, n) \in Int
  <2>1. \A k \in 1..n : obs[k] \in Int
    BY <1>6, <1>7
  <2>2. n \in 0..n
    BY <1>1
  <2> QED
    BY <1>1, <1>2, <2>1, <2>2, TotalIsInt
<1>11. cs[1] * (n - 1) \in Int
  <2>1. cs[1] \in Int /\ n - 1 \in Int
    BY <1>1, <1>6
  <2> QED
    BY <2>1
<1> DEFINE opening == cs[1] * (n - 1)
<1> HIDE DEF opening
<1>12. Total(all, n) = Total(obs, n) - opening /\ opening \in Int
  BY <1>8, <1>11 DEF opening
<1>13. opening + Total(out, n) + Total(res, n) + Total(dis, n) = Total(obs, n)
  BY <1>9, <1>10, <1>12
<1> QED
  BY <1>13 DEF opening

\* Without a compaction the context tax is what the later turns read again.
LEMMA TaxIsReread ==
    ASSUME NEW turns, TurnsOK(turns), turns # <<>>, ~Compacted(turns)
    PROVE  ContextTax(turns) =
             Total([k \in DOMAIN turns |->
                       turns[k].context - turns[1].context
                          - Total([j \in DOMAIN turns |-> turns[j].output], k - 1)],
                   Len(turns))
<1> DEFINE n == Len(turns)
           res == [k \in DOMAIN turns |-> turns[k].result * (n - k)]
           outs == [j \in DOMAIN turns |-> turns[j].output]
           grown == [k \in DOMAIN turns |->
                        turns[k].context - turns[1].context - Total(outs, k - 1)]
<1>0. SUFFICES Total(res, n) = Total(grown, n)
  BY DEF ContextTax, Reread
<1>1. /\ n \in Nat \ {0} /\ DOMAIN turns = 1..n
      /\ \A k \in 1..n : /\ turns[k].context \in Int /\ turns[k].output \in Int
                         /\ turns[k].result \in Int
  BY TurnFields
<1>2. \A k \in 1..(n - 1) :
          turns[k + 1].context - turns[k].context = turns[k].output + turns[k].result
  <2> SUFFICES ASSUME NEW k \in 1..(n - 1)
               PROVE  turns[k + 1].context - turns[k].context =
                          turns[k].output + turns[k].result
    OBVIOUS
  <2>1. k \in 1..n
    BY <1>1
  <2>2. turns[k].discarded = 0
    BY <1>1, <2>1 DEF TurnsOK, Compacted
  <2>3. turns[k + 1].context - turns[k].context =
            turns[k].output + turns[k].result + turns[k].discarded
    BY DEF TurnsOK
  <2>4. turns[k].output \in Int /\ turns[k].result \in Int
    BY <1>1, <2>1
  <2> QED
    BY <2>2, <2>3, <2>4
<1> HIDE DEF n
<1>3. \A m \in 0..n : Total(outs, m) \in Int
  BY <1>1, TotalIsInt
<1>4. \A k \in 1..(n - 1) : Total(outs, k) = Total(outs, k - 1) + turns[k].output
  <2> SUFFICES ASSUME NEW k \in 1..(n - 1)
               PROVE  Total(outs, k) = Total(outs, k - 1) + turns[k].output
    OBVIOUS
  <2>1. k \in 1..n /\ k \in Nat /\ k > 0
    BY <1>1
  <2>2. outs[k] = turns[k].output
    BY <1>1, <2>1
  <2> HIDE DEF outs
  <2> QED
    BY <2>1, <2>2, TotalIs
<1> HIDE DEF outs
<1>5. \A k \in 1..n : grown[k] = turns[k].context - turns[1].context - Total(outs, k - 1)
                      /\ grown[k] \in Int
  <2> SUFFICES ASSUME NEW k \in 1..n
               PROVE  turns[k].context - turns[1].context - Total(outs, k - 1) \in Int
    BY <1>1
  <2>1. k - 1 \in 0..n /\ 1 \in 1..n
    BY <1>1
  <2> QED
    BY <1>1, <1>3, <2>1
<1>6. grown[1] = 0
  <2>1. Total(outs, 0) = 0 /\ 1 - 1 = 0 /\ 1 \in 1..n
    BY <1>1, TotalIs
  <2> QED
    BY <1>1, <1>5, <2>1
<1>7. \A k \in 1..n : res[k] = turns[k].result * (n - k)
  BY <1>1
<1> HIDE DEF res, grown
<1>8. ASSUME NEW k \in 1..(n - 1)
      PROVE  res[k] = (grown[k + 1] - grown[k]) * (n - k)
  <2>1. k \in 1..n /\ k + 1 \in 1..n /\ k - 1 \in 0..n /\ (k + 1) - 1 = k
    BY <1>1
  <2>2. grown[k + 1] = turns[k + 1].context - turns[1].context - Total(outs, k)
    BY <1>5, <2>1
  <2>3. grown[k] = turns[k].context - turns[1].context - Total(outs, k - 1)
    BY <1>5, <2>1
  <2>4. Total(outs, k) = Total(outs, k - 1) + turns[k].output
    BY <1>4
  <2>5. /\ turns[k].context \in Int /\ turns[k + 1].context \in Int
        /\ turns[1].context \in Int
        /\ turns[k].output \in Int /\ Total(outs, k - 1) \in Int
        /\ turns[k].result \in Int
    BY <1>1, <1>3, <2>1
  <2>6. turns[k + 1].context - turns[k].context = turns[k].output + turns[k].result
    BY <1>2
  <2>7. grown[k + 1] - grown[k] = turns[k].result
    <3> DEFINE c == turns[k].context  d == turns[k + 1].context  a == turns[1].context
               o == turns[k].output  t == Total(outs, k - 1)  r == turns[k].result
    <3>1. c \in Int /\ d \in Int /\ a \in Int /\ o \in Int /\ t \in Int /\ r \in Int
      BY <2>5
    <3>2. /\ grown[k + 1] = d - a - (t + o) /\ grown[k] = c - a - t /\ d - c = o + r
      BY <2>2, <2>3, <2>4, <2>6
    <3> HIDE DEF a, c, d, o, r, t
    <3>3. grown[k + 1] - grown[k] = r
      BY <3>1, <3>2
    <3> QED
      BY <3>3 DEF r
  <2> QED
    BY <1>7, <2>1, <2>7
<1>9. res[n] = 0
  <2>1. n \in 1..n /\ n - n = 0
    BY <1>1
  <2> QED
    BY <1>1, <1>7, <2>1
<1>10. Total(res, n) = Total(grown, n) - grown[1] * (n - 1)
  <2>1. AddedOnce(n, grown, res, grown)
    BY <1>1, <1>5, <1>6, <1>8, <1>9 DEF AddedOnce
  <2> QED
    BY <2>1, AddedForEveryLaterTurn
<1>11. Total(grown, n) \in Int /\ grown[1] * (n - 1) = 0
  <2>1. n \in Nat /\ n \in 0..n /\ \A k \in 1..n : grown[k] \in Int
    BY <1>1, <1>5
  <2>2. \A k \in 0..n : Total(grown, k) \in Int
    BY <2>1, TotalIsInt
  <2>3. grown[1] * (n - 1) = 0
    BY <1>6, <2>1
  <2> QED
    BY <2>1, <2>2, <2>3
<1> QED
  BY <1>10, <1>11

----------------------------------------------------------------------------
(* The turns of a transcript *)

\* A finite set of naturals has a k-th smallest member for every k up to its
\* size.
LEMMA NthIs ==
    ASSUME NEW S \in SUBSET Nat, IsFiniteSet(S), NEW k \in 1..Cardinality(S)
    PROVE  Nth(S, k) \in S /\ Cardinality({j \in S : j < Nth(S, k)}) = k - 1
<1> DEFINE c == Cardinality(S)
           Below(i) == {j \in S : j < i}
           T == {m \in 0..c : m = 0 \/ \E i \in S : Cardinality(Below(i)) = m - 1}
<1>0. \A i \in S : i \in Nat
  OBVIOUS
<1>1. c \in Nat /\ 0 \in T
  BY FS_CardinalityType
<1>2. ASSUME NEW m \in 1..c, m - 1 \in T
      PROVE  m \in T
  <2>1. CASE m = 1
    <3>1. S # {}
      BY <2>1, FS_EmptySet
    <3>2. PICK i \in S : \A j \in S : i <= j
      BY <3>1, LeastElement
    <3>3. Below(i) = {}
      <4>1. \A j \in S : ~(j < i)
        BY <1>0, <3>2
      <4> QED
        BY <4>1
    <3> QED
      BY <2>1, <3>3, FS_EmptySet
  <2>2. CASE m # 1
    <3>1. PICK i \in S : Cardinality(Below(i)) = (m - 1) - 1
      BY <1>2, <2>2
    <3> DEFINE A == Below(i)  above == {j \in S : j > i}
    <3>2. IsFiniteSet(A) /\ i \notin A
      BY FS_Subset
    <3>3. Cardinality(A \union {i}) = m - 1
      <4> HIDE DEF A
      <4>1. Cardinality(A \union {i}) = Cardinality(A) + 1
        BY <3>2, FS_AddElement
      <4>2. Cardinality(A) = (m - 1) - 1
        BY <3>1 DEF A
      <4> QED
        BY <4>1, <4>2
    <3>4. above # {}
      <4>1. above = {} => S = A \union {i}
        <5>1. \A j \in S : j < i \/ j = i \/ j > i
          BY <1>0
        <5> QED
          BY <5>1
      <4>2. Cardinality(S) # m - 1
        BY <1>1
      <4> QED
        BY <3>3, <4>1, <4>2
    <3>5. PICK n \in above : \A j \in above : n <= j
      <4>1. above \in SUBSET Nat
        OBVIOUS
      <4> HIDE DEF above
      <4> QED
        BY <3>4, <4>1, LeastElement
    <3>6. Below(n) = A \union {i}
      <4>1. n \in S /\ i < n
        BY <3>5
      <4>2. \A j \in S : j < n <=> j < i \/ j = i
        BY <1>0, <3>5, <4>1
      <4> QED
        BY <4>2
    <3>7. n \in S /\ Cardinality(Below(n)) = m - 1
      BY <3>3, <3>5, <3>6
    <3> HIDE DEF Below
    <3> QED
      BY <3>7
  <2> QED
    BY <2>1, <2>2
<1> HIDE DEF T
<1>3. \A m \in 0..c : m \in T
  BY <1>1, <1>2, AllUpTo
<1>4. \E i \in S : Cardinality(Below(i)) = k - 1
  BY <1>1, <1>3 DEF T
<1> QED
  BY <1>4 DEF Nth

\* A transcript with counts in its lines.
LinesOK(ls) ==
    /\ \E X : ls \in Seq(X)
    /\ \A i \in 1..Len(ls) : ls[i].context \in Nat /\ ls[i].output \in Nat

\* The first lines of the messages.
FirstLines(ls) ==
    {i \in DOMAIN ls : /\ ls[i].message # 0
                       /\ \A j \in 1..(i - 1) : ls[j].message # ls[i].message}

LEMMA MessagesAreLines ==
    ASSUME NEW ls, LinesOK(ls)
    PROVE  LET c == Cardinality(FirstLines(ls))
           IN /\ c \in Nat
              /\ AssistantMessages(ls) = [k \in 1..c |-> ls[Nth(FirstLines(ls), k)]]
              /\ \A k \in 1..c : Nth(FirstLines(ls), k) \in 1..Len(ls)
<1> DEFINE S == FirstLines(ls)
           n == Len(ls)
<1>1. n \in Nat /\ DOMAIN ls = 1..n
  BY DEF LinesOK
<1> HIDE DEF n
<1>2. S \subseteq 1..n
  BY <1>1 DEF FirstLines
<1>3. IsFiniteSet(S) /\ S \in SUBSET Nat
  BY <1>1, <1>2, FS_Interval, FS_Subset
<1>4. AssistantMessages(ls) = [k \in 1..Cardinality(S) |-> ls[Nth(S, k)]]
  BY DEF AssistantMessages, FirstLines
<1> HIDE DEF S
<1>5. Cardinality(S) \in Nat
  BY <1>3, FS_CardinalityType
<1>6. \A k \in 1..Cardinality(S) : Nth(S, k) \in 1..n
  BY <1>2, <1>3, NthIs
<1> QED
  BY <1>4, <1>5, <1>6 DEF S, n

\* A turn explains the growth of the context until the next.
LEMMA TurnExplains ==
    ASSUME NEW a, NEW o, NEW g, <<a, o, g>> \in Int \X Int \X Int
    PROVE  /\ Turn(a, o, g) \in [context : Int, output : Int, result : Int,
                                 discarded : Int, compacted : BOOLEAN]
           /\ Turn(a, o, g).context = a /\ Turn(a, o, g).output = o
           /\ Turn(a, o, g).output + Turn(a, o, g).result + Turn(a, o, g).discarded = g
           /\ Turn(a, o, g).compacted \/ Turn(a, o, g).discarded = 0
<1> DEFINE r == AtLeast0(g - o)
           d == g - o - r
           b == d < 0
<1>0. a \in Int /\ o \in Int /\ g \in Int
  OBVIOUS
<1>1. r \in Int /\ d \in Int /\ o + r + d = g /\ (b \/ d = 0)
  BY <1>0 DEF AtLeast0
<1>2. Turn(a, o, g) = [context |-> a, output |-> o, result |-> r, discarded |-> d,
                       compacted |-> b]
  BY DEF Turn
<1>3. b \in BOOLEAN
  OBVIOUS
<1> HIDE DEF r, d, b
<1>4. /\ Turn(a, o, g) \in [context : Int, output : Int, result : Int,
                            discarded : Int, compacted : BOOLEAN]
      /\ Turn(a, o, g).context = a /\ Turn(a, o, g).output = o
      /\ Turn(a, o, g).result = r /\ Turn(a, o, g).discarded = d
      /\ Turn(a, o, g).compacted = b
  BY <1>0, <1>1, <1>2, <1>3
<1> QED
  BY <1>1, <1>4

\* extract_turns makes its turns so that they explain the growth of the context.
LEMMA TurnsAreOK ==
    ASSUME NEW ls, LinesOK(ls)
    PROVE  TurnsOK(ExtractTurns(ls))
<1> DEFINE c == Cardinality(FirstLines(ls))
           m == AssistantMessages(ls)
           t == ExtractTurns(ls)
           Fields == [context : Int, output : Int, result : Int, discarded : Int,
                      compacted : BOOLEAN]
           M == {ls[i] : i \in 1..Len(ls)}
<1>1. c \in Nat /\ m = [k \in 1..c |-> ls[Nth(FirstLines(ls), k)]]
      /\ \A k \in 1..c : Nth(FirstLines(ls), k) \in 1..Len(ls)
  BY MessagesAreLines
<1>2. \A x \in M : x.context \in Int /\ x.output \in Int
  BY DEF LinesOK
<1>3. m \in [1..c -> M]
  BY <1>1
<1> HIDE DEF c, m, M
<1>4. m \in Seq(M) /\ Len(m) = c /\ DOMAIN m = 1..c
  BY <1>1, <1>3
<1>5. t = [k \in 1..c |->
              IF k < c
              THEN Turn(m[k].context, m[k].output, m[k + 1].context - m[k].context)
              ELSE [context |-> m[k].context, output |-> m[k].output, result |-> 0,
                    discarded |-> 0, compacted |-> FALSE]]
  BY <1>4 DEF ExtractTurns, m
<1>6. \A k \in 1..c : m[k].context \in Int /\ m[k].output \in Int
  BY <1>2, <1>3
<1> HIDE DEF t
<1>8. ASSUME NEW k \in 1..c
      PROVE  t[k] \in Fields /\ t[k].context = m[k].context
  <2>1. CASE k < c
    <3>1. k + 1 \in 1..c
      BY <1>1, <2>1
    <3>2. m[k + 1].context - m[k].context \in Int
      BY <1>6, <3>1
    <3>3. t[k] = Turn(m[k].context, m[k].output, m[k + 1].context - m[k].context)
      BY <1>5, <2>1
    <3>4. <<m[k].context, m[k].output, m[k + 1].context - m[k].context>>
              \in Int \X Int \X Int
      BY <1>6, <3>2
    <3> QED
      BY <3>3, <3>4, TurnExplains
  <2>2. CASE ~(k < c)
    <3>1. t[k] = [context |-> m[k].context, output |-> m[k].output, result |-> 0,
                  discarded |-> 0, compacted |-> FALSE]
      BY <1>5, <2>2
    <3> QED
      BY <1>6, <3>1
  <2> QED
    BY <2>1, <2>2
<1>9. ASSUME NEW k \in 1..(c - 1)
      PROVE  /\ t[k + 1].context - t[k].context =
                    t[k].output + t[k].result + t[k].discarded
             /\ ~t[k].compacted => t[k].discarded = 0
  <2>1. k \in 1..c /\ k + 1 \in 1..c /\ k < c
    BY <1>1
  <2>2. m[k + 1].context - m[k].context \in Int /\ m[k].context \in Int /\ m[k].output \in Int
    BY <1>6, <2>1
  <2>3. t[k] = Turn(m[k].context, m[k].output, m[k + 1].context - m[k].context)
    BY <1>5, <2>1
  <2>4. t[k + 1].context = m[k + 1].context /\ t[k].context = m[k].context
    BY <1>8, <2>1
  <2> DEFINE a == m[k].context  o == m[k].output  g == m[k + 1].context - m[k].context
             turn == Turn(a, o, g)
  <2>5. a \in Int /\ o \in Int /\ g \in Int /\ t[k] = turn
    BY <2>2, <2>3
  <2> HIDE DEF a, o, g
  <2>6. /\ turn.output + turn.result + turn.discarded = g
        /\ turn.compacted \/ turn.discarded = 0
    <3>1. <<a, o, g>> \in Int \X Int \X Int
      BY <2>5
    <3> QED
      BY <3>1, TurnExplains
  <2> HIDE DEF turn
  <2>7. /\ t[k].output + t[k].result + t[k].discarded = g
        /\ t[k].compacted \/ t[k].discarded = 0
    BY <2>5, <2>6, Zenon
  <2> QED
    BY <2>4, <2>7 DEF g
<1> HIDE DEF Fields
<1>10. t \in [1..c -> Fields]
  BY <1>5, <1>8
<1>11. t \in Seq(Fields) /\ Len(t) = c
  BY <1>1, <1>10
<1> QED
  BY <1>9, <1>11 DEF TurnsOK, t, Fields

\* Whatever the transcript, no breakdown has to be withheld: reconcile finds
\* the shares of extract_turns in balance.
THEOREM EveryBreakdownBalances ==
    ASSUME NEW ls, LinesOK(ls)
    PROVE  Balanced(ExtractTurns(ls))
  BY TurnsAreOK, SharesAddUp

\* A further line of a message, or one that is skipped, begins none.
LEMMA RepeatsBeginNothing ==
    ASSUME NEW ls, LinesOK(ls), NEW line,
           line.message = 0 \/ \E i \in 1..Len(ls) : ls[i].message = line.message
    PROVE  ExtractTurns(Append(ls, line)) = ExtractTurns(ls)
<1> DEFINE more == Append(ls, line)
           n == Len(ls)
<1>0. PICK X : ls \in Seq(X)
  BY DEF LinesOK
<1>1. /\ n \in Nat /\ DOMAIN ls = 1..n /\ DOMAIN more = 1..(n + 1)
      /\ \A i \in 1..n : more[i] = ls[i]
      /\ more[n + 1] = line
  BY <1>0
<1> HIDE DEF more, n
<1>2. FirstLines(more) = FirstLines(ls)
  <2>1. n + 1 \notin FirstLines(more)
    <3>1. line.message = 0 \/ \E i \in 1..n : more[i].message = line.message
      BY <1>1 DEF n
    <3>2. 1..((n + 1) - 1) = 1..n
      BY <1>1
    <3> QED
      BY <1>1, <3>1, <3>2 DEF FirstLines
  <2>2. \A i \in 1..n : i \in FirstLines(more) <=> i \in FirstLines(ls)
    <3> SUFFICES ASSUME NEW i \in 1..n
                 PROVE  i \in FirstLines(more) <=> i \in FirstLines(ls)
      OBVIOUS
    <3>1. i \in DOMAIN more /\ i \in DOMAIN ls /\ more[i] = ls[i]
      BY <1>1
    <3>2. \A j \in 1..(i - 1) : more[j] = ls[j]
      BY <1>1
    <3> QED
      BY <3>1, <3>2 DEF FirstLines
  <2>3. FirstLines(more) \subseteq 1..(n + 1) /\ FirstLines(ls) \subseteq 1..n
    BY <1>1 DEF FirstLines
  <2>4. \A i \in 1..(n + 1) : i = n + 1 \/ i \in 1..n
    BY <1>1
  <2>5. \A i : i \in FirstLines(more) <=> i \in FirstLines(ls)
    BY <2>1, <2>2, <2>3, <2>4
  <2> QED
    BY <2>5
<1>3. LET c == Cardinality(FirstLines(ls))
      IN \A k \in 1..c : Nth(FirstLines(ls), k) \in 1..n
  BY MessagesAreLines DEF n
<1>4. AssistantMessages(ls) =
          [k \in 1..Cardinality(FirstLines(ls)) |-> ls[Nth(FirstLines(ls), k)]]
  BY DEF AssistantMessages, FirstLines
<1>5. AssistantMessages(more) =
          [k \in 1..Cardinality(FirstLines(more)) |-> more[Nth(FirstLines(more), k)]]
  BY DEF AssistantMessages, FirstLines
<1>6. AssistantMessages(more) = AssistantMessages(ls)
  BY <1>1, <1>2, <1>3, <1>4, <1>5
<1> QED
  BY <1>6 DEF ExtractTurns, more

----------------------------------------------------------------------------
(* The window of BASE runs *)

LEMMA LastIsThere ==
    ASSUME NEW n \in Nat, NEW places \in SUBSET (1..n)
    PROVE  /\ IsFiniteSet(places)
           /\ LastOf(places) \subseteq places
           /\ places # {} => LastOf(places) # {}
<1>1. IsFiniteSet(places)
  <2>1. IsFiniteSet(1..n)
    BY FS_Interval
  <2> QED
    BY <2>1, FS_Subset
<1>2. ASSUME places # {}
      PROVE  LastOf(places) # {}
  <2> DEFINE T == {m \in 0..n : n - m \in places}
  <2>1. T \in SUBSET Nat /\ T # {}
    <3>1. PICK i \in places : TRUE
      BY <1>2
    <3>2. n - i \in 0..n /\ n - (n - i) = i
      OBVIOUS
    <3>3. n - i \in T
      BY <3>1, <3>2
    <3>4. T \in SUBSET Nat
      OBVIOUS
    <3> HIDE DEF T
    <3> QED
      BY <3>3, <3>4
  <2>2. PICK m \in T : \A k \in T : m <= k
    <3> HIDE DEF T
    <3> QED
      BY <2>1, LeastElement
  <2>3. n - m \in places
    OBVIOUS
  <2>4. \A j \in places : ~(j > n - m)
    <3> SUFFICES ASSUME NEW j \in places
                 PROVE  ~(j > n - m)
      OBVIOUS
    <3>1. n - j \in 0..n /\ n - (n - j) = j
      OBVIOUS
    <3>2. n - j \in T
      BY <3>1
    <3> QED
      BY <2>2, <3>2
  <2>5. {j \in places : j > n - m} = {}
    BY <2>4
  <2>6. Cardinality({j \in places : j > n - m}) < BaselineWindow
    BY <2>5, FS_EmptySet, SummaryAssumption
  <2> QED
    BY <2>3, <2>6 DEF LastOf
<1> QED
  BY <1>1, <1>2 DEF LastOf

LEMMA FirstIsThere ==
    ASSUME NEW n \in Nat, NEW places \in SUBSET (1..n)
    PROVE  FirstOf(places) \subseteq places /\ (places # {} => FirstOf(places) # {})
<1>1. ASSUME places # {}
      PROVE  FirstOf(places) # {}
  <2>1. places \in SUBSET Nat
    OBVIOUS
  <2>2. PICK i \in places : \A j \in places : i <= j
    BY <1>1, <2>1, LeastElement
  <2>3. \A j \in places : ~(j < i)
    BY <2>1, <2>2
  <2>4. {j \in places : j < i} = {}
    BY <2>3
  <2>5. Cardinality({j \in places : j < i}) < BaselineWindow
    BY <2>4, FS_EmptySet, SummaryAssumption
  <2> QED
    BY <2>5 DEF FirstOf
<1> QED
  BY <1>1 DEF FirstOf

----------------------------------------------------------------------------
(* The comparison of a summary *)

\* A table of rows with dates.
IsTable(rows) ==
    /\ \E X : rows \in Seq(X)
    /\ \A i \in 1..Len(rows) : rows[i].date \in Nat

LEMMA PlacesOf ==
    ASSUME NEW rows, IsTable(rows), NEW s
    PROVE  /\ Len(rows) \in Nat /\ DOMAIN rows = 1..Len(rows)
           /\ BaseRuns(rows, s) \in SUBSET (1..Len(rows))
<1>1. Len(rows) \in Nat /\ DOMAIN rows = 1..Len(rows)
  BY DEF IsTable
<1> QED
  BY <1>1 DEF BaseRuns, OfSeries, Compared

LEMMA BaselineIs ==
    ASSUME NEW rows, IsTable(rows), NEW s, NEW date
    PROVE  LET bases == BaseRuns(rows, s)
               upTo == {b \in bases : rows[b].date <= date}
               window == BaselineFor(rows, s, date)
           IN /\ window \subseteq bases
              /\ bases # {} => window # {}
              /\ upTo # {} => window \subseteq upTo
<1> DEFINE bases == BaseRuns(rows, s)
           upTo == {b \in bases : rows[b].date <= date}
           window == BaselineFor(rows, s, date)
           n == Len(rows)
<1>1. n \in Nat /\ bases \in SUBSET (1..n) /\ upTo \subseteq bases
  BY PlacesOf
<1>2. window = IF upTo # {} THEN LastOf(upTo) ELSE FirstOf(bases)
  BY DEF BaselineFor
<1> HIDE DEF bases, upTo, window, n
<1>3. upTo \in SUBSET (1..n)
  BY <1>1
<1>4. LastOf(upTo) \subseteq upTo /\ (upTo # {} => LastOf(upTo) # {})
  BY <1>1, <1>3, LastIsThere
<1>5. FirstOf(bases) \subseteq bases /\ (bases # {} => FirstOf(bases) # {})
  BY <1>1, FirstIsThere
<1>6. /\ window \subseteq bases
      /\ bases # {} => window # {}
      /\ upTo # {} => window \subseteq upTo
  BY <1>1, <1>2, <1>4, <1>5
<1> QED
  BY <1>6 DEF bases, upTo, window

\* What makes a row of the comparison: a compared run of a treatment, with BASE
\* runs in its series.
IsTreated(rows, i) ==
    /\ i \in DOMAIN rows
    /\ rows[i].measurable /\ rows[i].lacks # "quality"
    /\ rows[i].condition # BASE
    /\ BaseRuns(rows, rows[i].series) # {}

LEMMA RowsAreOfTreated ==
    ASSUME NEW rows
    PROVE  /\ \A r : r \in RebuildComparison(rows) <=>
                        \E i \in DOMAIN rows : IsTreated(rows, i) /\ r = ComparisonRow(rows, i)
           /\ \A i : IsTreated(rows, i) => i \in ComparisonRow(rows, i).runs
<1>1. \A r : r \in RebuildComparison(rows) <=>
                \E i \in DOMAIN rows : IsTreated(rows, i) /\ r = ComparisonRow(rows, i)
  BY DEF RebuildComparison, Compared, IsTreated
<1>2. \A i : IsTreated(rows, i) => i \in ComparisonRow(rows, i).runs
  BY DEF ComparisonRow, OfSeries, Compared, IsTreated
<1> QED
  BY <1>1, <1>2

\* The runs of a row are those for which it would be made.
LEMMA RunsShareARow ==
    ASSUME NEW rows, NEW i, NEW j, IsTreated(rows, j), i \in ComparisonRow(rows, j).runs
    PROVE  IsTreated(rows, i) /\ ComparisonRow(rows, i) = ComparisonRow(rows, j)
<1>1. /\ i \in OfSeries(rows, rows[j].series)
      /\ rows[i].condition = rows[j].condition /\ rows[i].date = rows[j].date
  BY DEF ComparisonRow
<1>2. i \in Compared(rows) /\ rows[i].series = rows[j].series
  BY <1>1 DEF OfSeries
<1>3. IsTreated(rows, i)
  BY <1>1, <1>2 DEF IsTreated, Compared
<1>4. ComparisonRow(rows, i) = ComparisonRow(rows, j)
  BY <1>1, <1>2 DEF ComparisonRow
<1> QED
  BY <1>3, <1>4

\* The comparison that rebuild_comparison makes of a summary is complete.
LEMMA ComparisonIsFull ==
    ASSUME IsTable(summary), comparison = RebuildComparison(summary)
    PROVE  ComparedInFull
<1> SUFFICES ASSUME NEW i \in DOMAIN summary
             PROVE  LET row == summary[i]
                        Bases == {b \in DOMAIN summary :
                                    /\ summary[b].condition = BASE
                                    /\ summary[b].series = row.series
                                    /\ summary[b].measurable /\ summary[b].lacks # "quality"}
                        upTo == {b \in Bases : summary[b].date <= row.date}
                        mine == {r \in comparison : i \in r.runs}
                    IN IF row.condition # BASE /\ row.measurable /\ row.lacks # "quality"
                          /\ Bases # {}
                       THEN \E r \in mine : /\ mine = {r}
                                            /\ r.baseline # {} /\ r.baseline \subseteq Bases
                                            /\ upTo # {} => r.baseline \subseteq upTo
                       ELSE mine = {}
  BY DEF ComparedInFull
<1> DEFINE Bases == {b \in DOMAIN summary :
                        /\ summary[b].condition = BASE
                        /\ summary[b].series = summary[i].series
                        /\ summary[b].measurable /\ summary[b].lacks # "quality"}
           upTo == {b \in Bases : summary[b].date <= summary[i].date}
           mine == {r \in comparison : i \in r.runs}
           row == ComparisonRow(summary, i)
<1>1. Bases = BaseRuns(summary, summary[i].series)
  BY DEF BaseRuns, OfSeries, Compared
<1>2. IsTreated(summary, i) <=>
          /\ summary[i].condition # BASE /\ summary[i].measurable
          /\ summary[i].lacks # "quality" /\ Bases # {}
  BY <1>1 DEF IsTreated
<1>3. ASSUME NEW r \in mine
      PROVE  IsTreated(summary, i) /\ r = row
  <2>1. PICK j \in DOMAIN summary : IsTreated(summary, j) /\ r = ComparisonRow(summary, j)
    BY <1>3, RowsAreOfTreated
  <2> QED
    BY <1>3, <2>1, RunsShareARow
<1>4. ASSUME IsTreated(summary, i)
      PROVE  \E r \in mine : /\ mine = {r}
                             /\ r.baseline # {} /\ r.baseline \subseteq Bases
                             /\ upTo # {} => r.baseline \subseteq upTo
  <2>1. row \in mine
    BY <1>4, RowsAreOfTreated
  <2>2. mine = {row}
    BY <1>3, <2>1
  <2>3. row.baseline = BaselineFor(summary, summary[i].series, summary[i].date)
    BY DEF ComparisonRow
  <2>4. /\ row.baseline # {} /\ row.baseline \subseteq Bases
        /\ upTo # {} => row.baseline \subseteq upTo
    BY <1>1, <1>2, <1>4, <2>3, BaselineIs
  <2> HIDE DEF row, mine, Bases, upTo
  <2> QED
    BY <2>1, <2>2, <2>4
<1>5. ASSUME ~IsTreated(summary, i)
      PROVE  mine = {}
  BY <1>3, <1>5
<1>6. IF /\ summary[i].condition # BASE /\ summary[i].measurable
         /\ summary[i].lacks # "quality" /\ Bases # {}
      THEN \E r \in mine : /\ mine = {r}
                           /\ r.baseline # {} /\ r.baseline \subseteq Bases
                           /\ upTo # {} => r.baseline \subseteq upTo
      ELSE mine = {}
  <2> HIDE DEF mine, Bases, upTo
  <2> QED
    BY <1>2, <1>4, <1>5
<1> QED
  BY <1>6

----------------------------------------------------------------------------
(* The states of the program *)

\* The comparison is that of the summary.
SummaryInv ==
    /\ LinesOK(lines)
    /\ today \in Nat
    /\ IsTable(jobs) /\ IsTable(summary)
    /\ comparison = RebuildComparison(summary)

LEMMA EmptyIsOK ==
    LinesOK(<<>>) /\ IsTable(<<>>)
<1>1. Len(<<>>) = 0 /\ <<>> \in Seq({})
  OBVIOUS
<1>2. 1..0 = {}
  OBVIOUS
<1> QED
  BY <1>1, <1>2 DEF LinesOK, IsTable

LEMMA InitSummary ==
    ASSUME Init
    PROVE  SummaryInv
<1>1. RebuildComparison(<<>>) = {}
  BY DEF RebuildComparison, Compared
<1> QED
  BY <1>1, EmptyIsOK DEF Init, SummaryInv

\* A new line counts with what the model may say, or repeats another.
LEMMA WriteKeepsLines ==
    ASSUME LinesOK(lines), NEW line \in NewLines, lines' = Append(lines, line)
    PROVE  LinesOK(lines')
<1>1. PICK X : lines \in Seq(X)
  BY DEF LinesOK
<1>2. line.context \in Nat /\ line.output \in Nat
  <2>1. CASE line \in {lines[i] : i \in DOMAIN lines}
    BY <1>1, <2>1 DEF LinesOK
  <2>2. CASE line \in [message : {Cardinality(Messages) + 1}, context : Contexts,
                       output : Outputs]
    BY <2>2, SummaryAssumption
  <2>3. CASE line = [message |-> 0, context |-> 0, output |-> 0]
    BY <2>3
  <2> QED
    BY <2>1, <2>2, <2>3 DEF NewLines
<1>3. lines' \in Seq(X \union {line})
  <2>1. lines \in Seq(X \union {line})
    BY <1>1
  <2> QED
    BY <2>1
<1>4. Len(lines') = Len(lines) + 1 /\ lines'[Len(lines) + 1] = line
      /\ \A i \in 1..Len(lines) : lines'[i] = lines[i]
  BY <1>1
<1>5. \A i \in 1..(Len(lines) + 1) : i \in 1..Len(lines) \/ i = Len(lines) + 1
  BY <1>1
<1> QED
  BY <1>2, <1>3, <1>4, <1>5 DEF LinesOK

LEMMA AppendIsTable ==
    ASSUME NEW rows, IsTable(rows), NEW row, row.date \in Nat
    PROVE  IsTable(Append(rows, row))
<1> DEFINE all == Append(rows, row)
           n == Len(rows)
<1>1. PICK X : rows \in Seq(X)
  BY DEF IsTable
<1>2. all \in Seq(X \union {row})
  <2>1. rows \in Seq(X \union {row})
    BY <1>1
  <2> QED
    BY <2>1
<1>3. n \in Nat /\ Len(all) = n + 1
      /\ \A i \in 1..(n + 1) : all[i] = IF i \in 1..n THEN rows[i] ELSE row
  BY <1>1
<1>4. \A i \in 1..n : rows[i].date \in Nat
  BY DEF IsTable
<1> HIDE DEF all, n
<1>5. \A i \in 1..(n + 1) : all[i].date \in Nat
  BY <1>3, <1>4
<1>6. IsTable(all)
  BY <1>2, <1>3, <1>5 DEF IsTable
<1> QED
  BY <1>6 DEF all

\* A table with one row in the place of another.
LEMMA UpdateIsTable ==
    ASSUME NEW rows, IsTable(rows), NEW p \in DOMAIN rows, NEW row, row.date \in Nat
    PROVE  IsTable([rows EXCEPT ![p] = row])
<1> DEFINE all == [rows EXCEPT ![p] = row]
           n == Len(rows)
<1>1. PICK X : rows \in Seq(X)
  BY DEF IsTable
<1>2. /\ rows \in Seq(X \union {row})
      /\ n \in Nat /\ DOMAIN rows = 1..n
  BY <1>1
<1>3. all \in Seq(X \union {row}) /\ Len(all) = n
      /\ \A i \in 1..n : all[i] = IF i = p THEN row ELSE rows[i]
  BY <1>2
<1>4. \A i \in 1..n : rows[i].date \in Nat
  BY DEF IsTable
<1> HIDE DEF all, n
<1>5. \A i \in 1..n : all[i].date \in Nat
  BY <1>3, <1>4
<1>6. IsTable(all)
  BY <1>3, <1>5 DEF IsTable
<1> QED
  BY <1>6 DEF all

\* The rows that a synchronisation adds go after those of the summary.
LEMMA ConcatIsTable ==
    ASSUME NEW s, NEW w, IsTable(s), IsTable(w)
    PROVE  /\ IsTable(s \o w)
           /\ Len(s) \in Nat /\ Len(w) \in Nat
           /\ DOMAIN (s \o w) = 1..(Len(s) + Len(w))
           /\ \A i \in 1..Len(s) : (s \o w)[i] = s[i]
           /\ \A i \in 1..(Len(s) + Len(w)) :
                 i \notin 1..Len(s) => i - Len(s) \in 1..Len(w) /\ (s \o w)[i] = w[i - Len(s)]
<1> DEFINE all == s \o w
           n == Len(s)
           m == Len(w)
<1>1. PICK X : s \in Seq(X)
  BY DEF IsTable
<1>2. PICK Y : w \in Seq(Y)
  BY DEF IsTable
<1>3. s \in Seq(X \union Y) /\ w \in Seq(X \union Y)
  BY <1>1, <1>2
<1>4. /\ n \in Nat /\ m \in Nat /\ all \in Seq(X \union Y) /\ Len(all) = n + m
      /\ \A i \in 1..(n + m) : all[i] = IF i <= n THEN s[i] ELSE w[i - n]
  BY <1>3
<1>5. /\ \A i \in 1..n : s[i].date \in Nat
      /\ \A i \in 1..m : w[i].date \in Nat
  BY DEF IsTable
<1>6. DOMAIN all = 1..(n + m)
  BY <1>4
<1> HIDE DEF all, n, m
<1>7. /\ \A i \in 1..n : i \in 1..(n + m) /\ all[i] = s[i]
      /\ \A i \in 1..(n + m) : i \notin 1..n => i - n \in 1..m /\ all[i] = w[i - n]
  BY <1>4
<1>8. \A i \in 1..(n + m) : all[i].date \in Nat
  BY <1>5, <1>7
<1>9. IsTable(all)
  BY <1>4, <1>8 DEF IsTable
<1> QED
  BY <1>4, <1>6, <1>7, <1>9 DEF all, n, m

\* The new rows are those of the jobs that wait to be published.
LEMMA NewRowsAre ==
    ASSUME IsTable(jobs)
    PROVE  /\ IsTable(NewRows)
           /\ \A k \in 1..Len(NewRows) :
                 \E p \in Waiting : NewRows[k].date = jobs[p].date
<1> DEFINE n == Cardinality(Waiting)
<1>1. IsFiniteSet(Waiting) /\ Waiting \in SUBSET Nat /\ Waiting \subseteq DOMAIN jobs
      /\ DOMAIN jobs = 1..Len(jobs)
  <2>1. Len(jobs) \in Nat /\ DOMAIN jobs = 1..Len(jobs)
    BY DEF IsTable
  <2>2. Waiting \subseteq 1..Len(jobs)
    BY <2>1 DEF Waiting
  <2>3. IsFiniteSet(1..Len(jobs))
    BY <2>1, FS_Interval
  <2>4. IsFiniteSet(Waiting)
    BY <2>2, <2>3, FS_Subset
  <2> QED
    BY <2>1, <2>2, <2>4
<1>2. n \in Nat
  BY <1>1, FS_CardinalityType
<1>3. \A k \in 1..n : Nth(Waiting, k) \in Waiting
  BY <1>1, NthIs
<1> DEFINE X == {RowOf(p) : p \in Waiting}
<1>4. \A k \in 1..n : RowOf(Nth(Waiting, k)) \in X
  BY <1>3
<1> HIDE DEF X, n
<1>5. NewRows \in Seq(X) /\ Len(NewRows) = n
      /\ \A k \in 1..n : NewRows[k] = RowOf(Nth(Waiting, k))
  BY <1>2, <1>4 DEF NewRows, n
<1>6. \A k \in 1..n : NewRows[k].date = jobs[Nth(Waiting, k)].date
  BY <1>5 DEF RowOf
<1>7. \A p \in Waiting : jobs[p].date \in Nat
  BY <1>1 DEF IsTable
<1>8. \A k \in 1..n : NewRows[k].date \in Nat
  BY <1>3, <1>6, <1>7
<1>9. IsTable(NewRows)
  BY <1>5, <1>8 DEF IsTable
<1> QED
  BY <1>3, <1>5, <1>6, <1>9

LEMMA StepSummary ==
    ASSUME SummaryInv, [Next]_vars
    PROVE  SummaryInv'
<1>0. /\ LinesOK(lines) /\ today \in Nat
      /\ IsTable(jobs) /\ IsTable(summary) /\ comparison = RebuildComparison(summary)
  BY DEF SummaryInv
<1>1. CASE UNCHANGED vars
  <2>1. UNCHANGED <<today, starts, jobs, lines, summary, comparison>>
    BY <1>1 DEF vars
  <2> QED
    BY <1>0, <2>1 DEF SummaryInv
<1>2. CASE NextDay
  <2>1. today' = today + 1 /\ UNCHANGED <<starts, jobs, lines, summary, comparison>>
    BY <1>2 DEF NextDay
  <2> QED
    BY <1>0, <2>1 DEF SummaryInv
<1>3. ASSUME NEW c, NEW s, StartNew(c, s)
      PROVE  SummaryInv'
  <2> DEFINE job == [condition |-> c, series |-> s, date |-> today, status |-> "running",
                     measurable |-> FALSE, lacks |-> "nothing"]
  <2>1. jobs' = Append(jobs, job) /\ lines' = <<>> /\ UNCHANGED <<today, summary, comparison>>
    BY <1>3 DEF StartNew, StartOne
  <2>2. job.date = today
    OBVIOUS
  <2> HIDE DEF job
  <2>3. IsTable(jobs')
    BY <1>0, <2>1, <2>2, AppendIsTable
  <2> QED
    BY <1>0, <2>1, <2>3, EmptyIsOK DEF SummaryInv
<1>4. ASSUME NEW p \in DOMAIN jobs, StartAgain(p)
      PROVE  SummaryInv'
  <2> DEFINE job == [jobs[p] EXCEPT !.status = "running", !.date = today]
  <2>1. /\ jobs' = [jobs EXCEPT ![p].status = "running", ![p].date = today]
        /\ lines' = <<>> /\ UNCHANGED <<today, summary, comparison>>
    BY <1>4 DEF StartAgain, StartOne
  <2>2. jobs' = [jobs EXCEPT ![p] = job]
    BY <2>1
  <2>3. job.date \in Nat
    BY <1>0
  <2> HIDE DEF job
  <2>4. IsTable(jobs')
    BY <1>0, <2>2, <2>3, UpdateIsTable
  <2> QED
    BY <1>0, <2>1, <2>4, EmptyIsOK DEF SummaryInv
<1>5. ASSUME NEW line \in NewLines, WriteLine(line)
      PROVE  SummaryInv'
  <2>1. lines' = Append(lines, line) /\ UNCHANGED <<today, starts, jobs, summary, comparison>>
    BY <1>5 DEF WriteLine
  <2>2. LinesOK(lines')
    BY <1>0, <2>1, WriteKeepsLines
  <2> QED
    BY <1>0, <2>1, <2>2 DEF SummaryInv
<1>6. ASSUME NEW p \in DOMAIN jobs, NEW status, NEW lacks, End(p, status, lacks)
      PROVE  SummaryInv'
  <2>1. PICK measurable, missing :
            jobs' = [jobs EXCEPT ![p].status = status, ![p].measurable = measurable,
                                 ![p].lacks = missing]
    BY <1>6 DEF End
  <2> DEFINE job == [jobs[p] EXCEPT !.status = status, !.measurable = measurable,
                                    !.lacks = missing]
  <2>2. lines' = <<>> /\ UNCHANGED <<today, summary, comparison>>
    BY <1>6 DEF End
  <2>3. jobs' = [jobs EXCEPT ![p] = job]
    BY <2>1
  <2>4. job.date \in Nat
    <3>1. job.date = jobs[p].date
      OBVIOUS
    <3> QED
      BY <1>0, <3>1 DEF IsTable
  <2> HIDE DEF job
  <2>5. IsTable(jobs')
    BY <1>0, <2>3, <2>4, UpdateIsTable
  <2> QED
    BY <1>0, <2>2, <2>5, EmptyIsOK DEF SummaryInv
<1>7. CASE Sync
  <2>1. /\ summary' = summary \o NewRows
        /\ comparison' = RebuildComparison(summary \o NewRows)
        /\ UNCHANGED <<today, jobs, lines>>
    BY <1>7 DEF Sync
  <2>2. IsTable(summary')
    BY <1>0, <2>1, NewRowsAre, ConcatIsTable
  <2> QED
    BY <1>0, <2>1, <2>2 DEF SummaryInv
<1> QED
  BY <1>1, <1>2, <1>3, <1>4, <1>5, <1>6, <1>7 DEF Next

----------------------------------------------------------------------------
(* What the runs check, for any constants *)

\* Whatever the transcript of the run under way, its shares add up to what was
\* charged; and unless it was compacted, the context tax is what the later
\* turns read again.
THEOREM SharesStand == Spec => []SharesAreExact
<1>1. SummaryInv => SharesAreExact
  <2> SUFFICES ASSUME SummaryInv
               PROVE  SharesAreExact
    OBVIOUS
  <2> DEFINE turns == ExtractTurns(lines)
  <2>1. TurnsOK(turns)
    BY TurnsAreOK DEF SummaryInv
  <2> HIDE DEF turns
  <2>2. Balanced(turns)
    BY <2>1, SharesAddUp
  <2>3. IsMeasurable(turns) =>
            ContextTax(turns) =
              Total([k \in DOMAIN turns |->
                        turns[k].context - turns[1].context
                           - Total([j \in DOMAIN turns |-> turns[j].output], k - 1)],
                    Len(turns))
    BY <2>1, TaxIsReread DEF IsMeasurable
  <2> QED
    BY <2>2, <2>3 DEF SharesAreExact, turns
<1> QED
  BY <1>1, InitSummary, StepSummary, PTL DEF Spec

\* Every measurable and scored run of a treatment is compared once, with BASE
\* runs of its series, if there are any.
THEOREM EveryRunIsCompared == Spec => []ComparedInFull
<1>1. SummaryInv => ComparedInFull
  BY ComparisonIsFull DEF SummaryInv
<1> QED
  BY <1>1, InitSummary, StepSummary, PTL DEF Spec

\* A message is counted by its first line: its further lines, and the lines
\* that are skipped, change no turn.
THEOREM RepeatsAreIgnored == Spec => RepeatsAddNothing
<1>1. ASSUME SummaryInv, [Next]_vars, Len(lines') > Len(lines),
             Last(lines').message \in Messages \union {0}
      PROVE  ExtractTurns(lines') = ExtractTurns(lines)
  <2>1. LinesOK(lines) /\ Len(lines) \in Nat
    BY <1>1 DEF SummaryInv, LinesOK
  <2>2. CASE UNCHANGED lines
    BY <1>1, <2>1, <2>2
  <2>3. CASE lines' = <<>>
    <3>1. Len(<<>>) = 0
      OBVIOUS
    <3> QED
      BY <1>1, <2>1, <2>3, <3>1
  <2>4. ASSUME NEW line, WriteLine(line)
        PROVE  ExtractTurns(lines') = ExtractTurns(lines)
    <3>1. lines' = Append(lines, line)
      BY <2>4 DEF WriteLine
    <3>2. PICK X : lines \in Seq(X)
      BY <2>1 DEF LinesOK
    <3>3. Len(lines') = Len(lines) + 1 /\ lines'[Len(lines) + 1] = line
          /\ DOMAIN lines = 1..Len(lines)
      BY <3>1, <3>2
    <3>4. Last(lines') = line
      BY <3>3 DEF Last
    <3>5. line.message = 0 \/ \E i \in 1..Len(lines) : lines[i].message = line.message
      BY <1>1, <3>3, <3>4 DEF Messages
    <3> QED
      BY <2>1, <3>1, <3>5, RepeatsBeginNothing
  <2> QED
    BY <1>1, <2>2, <2>3, <2>4 DEF Next, vars, NextDay, StartNew, StartAgain,
       StartOne, End, Sync
<1>2. SummaryInv /\ [Next]_vars
        => (Len(lines') > Len(lines) /\ Last(lines').message \in Messages \union {0}
              => ExtractTurns(lines') = ExtractTurns(lines))
  BY <1>1
<1> QED
  BY <1>2, InitSummary, StepSummary, PTL DEF Spec, RepeatsAddNothing

\* A row is made of runs and BASE runs up to its day: rows of later days leave
\* it as it is.
LEMMA PastRowStays ==
    ASSUME NEW s, NEW w, IsTable(s), IsTable(w), NEW i \in DOMAIN s, IsTreated(s, i),
           \A j \in 1..Len(w) : w[j].date > s[i].date,
           \E b \in BaselineFor(s, s[i].series, s[i].date) : s[b].date <= s[i].date
    PROVE  IsTreated(s \o w, i) /\ ComparisonRow(s \o w, i) = ComparisonRow(s, i)
<1> DEFINE all == s \o w
           n == Len(s)
           m == Len(w)
           day == s[i].date
           series == s[i].series
           old == {b \in BaseRuns(s, series) : s[b].date <= day}
           new == {b \in BaseRuns(all, series) : all[b].date <= day}
<1>1. /\ n \in Nat /\ m \in Nat /\ DOMAIN all = 1..(n + m) /\ DOMAIN s = 1..n
      /\ \A k \in 1..n : all[k] = s[k]
      /\ \A k \in 1..(n + m) : k \notin 1..n => k - n \in 1..m /\ all[k] = w[k - n]
  BY ConcatIsTable, PlacesOf
<1>2. i \in 1..n /\ all[i] = s[i] /\ day \in Nat
  BY <1>1 DEF IsTable
<1>3. \A j \in 1..m : w[j].date \in Nat /\ w[j].date > day
  BY DEF IsTable
<1> HIDE DEF all, n, m, day, series
<1>4. \A k \in 1..(n + m) : k \notin 1..n => ~(all[k].date <= day) /\ all[k].date # day
  BY <1>1, <1>2, <1>3
<1>5. \A k \in 1..n : k \in 1..(n + m)
  BY <1>1
<1>6. \A k \in 1..n : k \in OfSeries(all, series) <=> k \in OfSeries(s, series)
  BY <1>1, <1>5 DEF OfSeries, Compared
<1>7. \A k \in 1..n : k \in BaseRuns(all, series) <=> k \in BaseRuns(s, series)
  BY <1>1, <1>6 DEF BaseRuns
<1>8. /\ OfSeries(all, series) \subseteq 1..(n + m) /\ OfSeries(s, series) \subseteq 1..n
      /\ BaseRuns(all, series) \subseteq 1..(n + m) /\ BaseRuns(s, series) \subseteq 1..n
  BY <1>1 DEF BaseRuns, OfSeries, Compared
<1>9. new = old
  <2>1. \A k : k \in new <=> k \in old
    BY <1>1, <1>4, <1>5, <1>7, <1>8
  <2> QED
    BY <2>1
<1>10. old # {}
  <2>1. BaselineFor(s, series, day) \subseteq BaseRuns(s, series)
    BY BaselineIs
  <2> QED
    BY <2>1 DEF series, day
<1>11. BaselineFor(all, series, day) = BaselineFor(s, series, day)
  <2>1. BaselineFor(all, series, day) = LastOf(new)
    BY <1>9, <1>10 DEF BaselineFor
  <2>2. BaselineFor(s, series, day) = LastOf(old)
    BY <1>10 DEF BaselineFor
  <2> QED
    BY <1>9, <2>1, <2>2
<1> DEFINE condition == s[i].condition
           oldGroup == {k \in OfSeries(s, series) :
                           s[k].condition = condition /\ s[k].date = day}
           newGroup == {k \in OfSeries(all, series) :
                           all[k].condition = condition /\ all[k].date = day}
<1> HIDE DEF condition
<1>12. newGroup = oldGroup
  <2>1. \A k : k \in newGroup <=> k \in oldGroup
    BY <1>1, <1>4, <1>5, <1>6, <1>8
  <2> QED
    BY <2>1
<1>13. ComparisonRow(s, i) =
          [date |-> day, condition |-> condition, series |-> series,
           runs |-> oldGroup, baseline |-> BaselineFor(s, series, day)]
  BY DEF ComparisonRow, day, condition, series
<1>14. ComparisonRow(all, i) =
          [date |-> day, condition |-> condition, series |-> series,
           runs |-> newGroup, baseline |-> BaselineFor(all, series, day)]
  BY <1>2 DEF ComparisonRow, day, condition, series
<1>15. IsTreated(all, i)
  <2>1. BaseRuns(all, series) # {}
    BY <1>9, <1>10
  <2> QED
    BY <1>1, <1>2, <1>5, <2>1 DEF IsTreated, series
<1> QED
  BY <1>11, <1>12, <1>13, <1>14, <1>15 DEF all

\* A day that is over, and had a BASE run up to it, keeps its rows whatever is
\* synchronised later, although the comparison is built anew each time.
THEOREM PastComparisonsStay == Spec => PastStays
<1> DEFINE Over(r) == /\ \A p \in Waiting : jobs[p].date > r.date
                      /\ \E b \in r.baseline : summary[b].date <= r.date
<1>1. ASSUME SummaryInv, [Next]_vars, NEW r \in comparison, Over(r)
      PROVE  r \in comparison'
  <2>1. CASE UNCHANGED comparison
    BY <1>1, <2>1
  <2>2. CASE Sync
    <3> DEFINE all == summary \o NewRows
    <3>1. comparison' = RebuildComparison(all)
      BY <2>2 DEF Sync
    <3>2. PICK i \in DOMAIN summary : IsTreated(summary, i) /\ r = ComparisonRow(summary, i)
      BY <1>1, RowsAreOfTreated DEF SummaryInv
    <3>3. /\ r.date = summary[i].date
          /\ r.baseline = BaselineFor(summary, summary[i].series, summary[i].date)
      BY <3>2 DEF ComparisonRow
    <3>4. /\ IsTable(summary) /\ IsTable(NewRows)
          /\ \A k \in 1..Len(NewRows) :
                \E p \in Waiting : NewRows[k].date = jobs[p].date
      BY <1>1, NewRowsAre DEF SummaryInv
    <3>5. \A k \in 1..Len(NewRows) : NewRows[k].date > summary[i].date
      BY <1>1, <3>3, <3>4
    <3>6. \E b \in BaselineFor(summary, summary[i].series, summary[i].date) :
              summary[b].date <= summary[i].date
      BY <1>1, <3>3
    <3>7. IsTreated(all, i) /\ ComparisonRow(all, i) = r
      BY <3>2, <3>4, <3>5, <3>6, PastRowStays
    <3>8. i \in DOMAIN all
      BY <3>7 DEF IsTreated
    <3> HIDE DEF all
    <3>9. r \in RebuildComparison(all)
      BY <3>7, <3>8, RowsAreOfTreated
    <3> QED
      BY <3>1, <3>9
  <2> QED
    BY <1>1, <2>1, <2>2 DEF Next, vars, NextDay, StartNew, StartAgain, StartOne,
       WriteLine, End
<1>2. SummaryInv /\ [Next]_vars => \A r \in comparison : Over(r) => r \in comparison'
  BY <1>1
<1> QED
  BY <1>2, InitSummary, StepSummary, PTL DEF Spec, PastStays
=============================================================================
