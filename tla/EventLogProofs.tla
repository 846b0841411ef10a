--------------------------- MODULE EventLogProofs ---------------------------
(***************************************************************************)
(* Proofs about the history of the events the state cache has broadcast:   *)
(* how they are numbered, what each says after the one before it, and what *)
(* the simulation channel ends on.                                         *)
(***************************************************************************)
EXTENDS StateCacheProofs, WellFoundedInduction

-----------------------------------------------------------------------------
(* Two logs in a row, and a queue at its ends. *)

LEMMA ConcatElements ==
  ASSUME NEW S, NEW a \in Seq(S), NEW b \in Seq(S)
  PROVE  /\ a \o b \in Seq(S) /\ Len(a) \in Nat /\ Len(b) \in Nat
         /\ DOMAIN a = 1..Len(a) /\ DOMAIN b = 1..Len(b)
         /\ DOMAIN (a \o b) = 1..Len(a) + Len(b)
         /\ Len(a \o b) = Len(a) + Len(b)
         /\ \A i \in 1..Len(a) : (a \o b)[i] = a[i]
         /\ \A i \in 1..Len(b) : (a \o b)[Len(a) + i] = b[i]
         /\ \A i \in Len(a)+1..Len(a)+Len(b) :
              i - Len(a) \in 1..Len(b) /\ (a \o b)[i] = b[i - Len(a)]
<1>1. /\ Len(a) \in Nat /\ Len(b) \in Nat
      /\ DOMAIN a = 1..Len(a) /\ DOMAIN b = 1..Len(b)
  BY LenProperties
<1>2. /\ a \o b \in Seq(S) /\ Len(a \o b) = Len(a) + Len(b)
      /\ \A i \in 1..Len(a) + Len(b) :
           (a \o b)[i] = IF i <= Len(a) THEN a[i] ELSE b[i - Len(a)]
  BY ConcatProperties
<1>3. DOMAIN (a \o b) = 1..Len(a) + Len(b)
  BY <1>1, <1>2, LenProperties
<1> QED BY <1>1, <1>2, <1>3

LEMMA AppendElements ==
  ASSUME NEW S, NEW q \in Seq(S), NEW e \in S
  PROVE  /\ Append(q, e) \in Seq(S) /\ Len(q) \in Nat
         /\ Len(Append(q, e)) = Len(q) + 1
         /\ DOMAIN q = 1..Len(q) /\ DOMAIN Append(q, e) = 1..Len(q)+1
         /\ \A i \in 1..Len(q) : Append(q, e)[i] = q[i] /\ i # Len(q) + 1
         /\ Append(q, e)[Len(q) + 1] = e
<1>1. Append(q, e) \in Seq(S) /\ Len(Append(q, e)) = Len(q) + 1
  BY AppendProperties
<1>2. Len(q) \in Nat /\ DOMAIN q = 1..Len(q)
  BY LenProperties
<1>3. DOMAIN Append(q, e) = 1..Len(q)+1
  BY <1>1, LenProperties
<1> QED BY <1>1, <1>2, <1>3, AppendProperties

LEMMA TailElements ==
  ASSUME NEW S, NEW q \in Seq(S), q # <<>>
  PROVE  /\ Tail(q) \in Seq(S) /\ Len(q) \in Nat /\ Len(q) > 0
         /\ Len(Tail(q)) = Len(q) - 1
         /\ DOMAIN q = 1..Len(q) /\ DOMAIN Tail(q) = 1..Len(q)-1
         /\ \A i \in 1..Len(q)-1 : Tail(q)[i] = q[i + 1] /\ i + 1 \in 1..Len(q)
         /\ Head(q) = q[1] /\ Head(q) \in S
<1>1. Len(q) \in Nat /\ DOMAIN q = 1..Len(q) /\ Len(q) > 0
  BY LenProperties, EmptySeq
<1>2. /\ Tail(q) \in Seq(S) /\ Len(Tail(q)) = Len(q) - 1 /\ Head(q) \in S
      /\ \A i \in 1..Len(Tail(q)) : Tail(q)[i] = q[i + 1]
  BY HeadTailProperties
<1>3. DOMAIN Tail(q) = 1..Len(q)-1
  BY <1>2, LenProperties
<1> QED BY <1>1, <1>2, <1>3

\* Successive events about one thing in any log.
SuccessiveIn(es, i, j) ==
  /\ i < j /\ es[i].id = es[j].id
  /\ \A k \in i+1..j-1 : es[k].id # es[i].id

\* The j-th event of a log follows properly on the event before it about the
\* same thing: it says something else, changes no side, and removes nothing
\* that was never told.
FollowsAt(es, j) ==
  /\ \A i \in 1..j-1 : SuccessiveIn(es, i, j) =>
       /\ es[i].group # es[j].group
       /\ es[i].group # None /\ es[j].group # None =>
            es[i].group.side = es[j].group.side
  /\ es[j].group = None => \E i \in 1..j-1 : SuccessiveIn(es, i, j)

Follows(es) == \A j \in DOMAIN es : FollowsAt(es, j)

\* Where the log told v of g and the new events account for a change to w,
\* every new event about g follows properly on the event before it.
LEMMA NewEventFollows ==
  ASSUME NEW S, NEW old \in Seq(S), NEW new \in Seq(S),
         NEW es \in Seq(S), es = old \o new,
         NEW g, NEW v, NEW w, Tells(old, g, v), Accounts(new, g, v, w),
         NEW j \in Len(old)+1..Len(old)+Len(new), es[j].id = g
  PROVE  FollowsAt(es, j)
<1> DEFINE n == Len(old)
<1>1. /\ n \in Nat /\ Len(new) \in Nat
      /\ DOMAIN old = 1..n /\ DOMAIN new = 1..Len(new)
      /\ \A i \in 1..n : es[i] = old[i]
      /\ \A i \in 1..Len(new) : es[n + i] = new[i]
      /\ \A i \in n+1..n+Len(new) : i - n \in 1..Len(new) /\ es[i] = new[i - n]
  BY ConcatElements
<1> HIDE DEF n
<1>j. j \in n+1..n+Len(new) /\ new[j - n].id = g /\ j - n \in 1..Len(new)
  BY <1>1 DEF n
<1>2. ASSUME \A k \in 1..j-n-1 : new[k].id # g, v # None
      PROVE  \E i \in 1..n : SuccessiveIn(es, i, j) /\ es[i].group = v
  <2>1. PICK i \in 1..n : /\ old[i].id = g /\ old[i].group = v
                          /\ \A k \in 1..n : k > i => old[k].id # g
    BY <1>1, <1>2 DEF Tells, TellsLast
  <2>2. ASSUME NEW k \in i+1..j-1 PROVE es[k].id # g
    <3>1. CASE k <= n
      BY <3>1, <2>1, <2>2, <1>1
    <3>2. CASE k > n
      BY <3>2, <2>1, <2>2, <1>1, <1>2, <1>j
    <3> QED BY <3>1, <3>2, <1>1, <2>1, <2>2, <1>j
  <2>3. es[i].id = g /\ es[i].group = v /\ i < j
    BY <2>1, <1>1, <1>j
  <2>4. SuccessiveIn(es, i, j)
    BY <2>2, <2>3 DEF SuccessiveIn
  <2> QED BY <2>3, <2>4
<1>3. ASSUME \A k \in 1..j-n-1 : new[k].id # g,
             NEW i \in 1..j-1, SuccessiveIn(es, i, j)
      PROVE  es[i].group = v
  <2>1. i \in 1..n /\ old[i].id = g
    BY <1>1, <1>3, <1>j DEF SuccessiveIn
  <2>2. PICK m \in 1..n : /\ old[m].id = g /\ old[m].group = v
                          /\ \A k \in 1..n : k > m => old[k].id # g
    BY <2>1, <1>1 DEF Tells, TellsLast, Silent
  <2>3. i >= m
    BY <2>1, <2>2, <1>1, <1>3, <1>j DEF SuccessiveIn
  <2>4. i <= m
    BY <2>1, <2>2, <1>1
  <2>5. i = m
    BY <2>1, <2>2, <2>3, <2>4, <1>1
  <2> QED BY <2>1, <2>2, <2>5, <1>1
<1>4. CASE Once(new, g, v, w)
  <2>1. PICK p \in 1..Len(new) :
          /\ new[p].id = g /\ new[p].group = w
          /\ \A k \in 1..Len(new) : k # p => new[k].id # g
          /\ v # w
          /\ v # None /\ w # None => v.side = w.side
    BY <1>4, <1>1 DEF Once
  <2>2. p = j - n
    BY <2>1, <1>j
  <2>3. es[j].group = w /\ \A k \in 1..j-n-1 : new[k].id # g
    BY <2>1, <2>2, <1>1, <1>j
  <2>4. \A i \in 1..j-1 : SuccessiveIn(es, i, j) => es[i].group = v
    BY <2>3, <1>3
  <2>5. v # None => \E i \in 1..j-1 : SuccessiveIn(es, i, j)
    BY <2>3, <1>1, <1>2, <1>j
  <2> QED BY <2>1, <2>3, <2>4, <2>5 DEF FollowsAt
<1>5. CASE Twice(new, g, v, w)
  <2>1. PICK p, q \in 1..Len(new) :
          /\ p < q
          /\ new[p].id = g /\ new[p].group = None
          /\ new[q].id = g /\ new[q].group = w
          /\ \A k \in 1..Len(new) : k # p /\ k # q => new[k].id # g
          /\ v # None /\ w # None
    BY <1>5, <1>1 DEF Twice
  <2>2. CASE j - n = p
    <3>1. es[j].group = None /\ \A k \in 1..j-n-1 : new[k].id # g
      BY <2>1, <2>2, <1>1, <1>j
    <3>2. \A i \in 1..j-1 : SuccessiveIn(es, i, j) => es[i].group = v
      BY <3>1, <1>3
    <3>3. \E i \in 1..j-1 : SuccessiveIn(es, i, j)
      BY <3>1, <2>1, <1>1, <1>2, <1>j
    <3> QED BY <2>1, <3>1, <3>2, <3>3 DEF FollowsAt
  <2>3. CASE j - n = q
    <3>1. es[j].group = w /\ es[n + p].group = None /\ es[n + p].id = g
      BY <2>1, <2>3, <1>1, <1>j
    <3>2. n + p \in 1..j-1 /\ n + p < j
      BY <2>1, <2>3, <1>1, <1>j
    <3>3. \A k \in n+p+1..j-1 : es[k].id # g
      BY <2>1, <2>3, <1>1, <1>j
    <3>4. SuccessiveIn(es, n + p, j)
      BY <3>1, <3>2, <3>3 DEF SuccessiveIn
    <3>5. ASSUME NEW i \in 1..j-1, SuccessiveIn(es, i, j) PROVE i = n + p
      <4>1. i >= n + p
        BY <3>1, <3>2, <3>5, <1>1, <1>j, <2>1 DEF SuccessiveIn
      <4>2. i <= n + p
        <5>1. es[i].id = g
          BY <3>5 DEF SuccessiveIn
        <5>2. i \notin n+p+1..j-1
          BY <5>1, <3>3
        <5>3. i \in Nat /\ i <= j - 1 /\ n + p \in Nat /\ j \in Nat
          BY <1>1, <1>j, <2>1
        <5> QED BY <5>2, <5>3
      <4> QED BY <4>1, <4>2, <1>1, <2>1, <1>j
    <3> QED BY <2>1, <3>1, <3>2, <3>4, <3>5 DEF FollowsAt
  <2>4. j - n = p \/ j - n = q
    BY <2>1, <1>j
  <2> QED BY <2>2, <2>3, <2>4
<1>6. ~(Silent(new, g) /\ v = w)
  BY <1>1, <1>j DEF Silent
<1> QED BY <1>4, <1>5, <1>6 DEF Accounts

LEMMA ConcatFollows ==
  ASSUME NEW S, NEW old \in Seq(S), NEW new \in Seq(S), Follows(old),
         \A i \in 1..Len(new) : \E v, w :
           Tells(old, new[i].id, v) /\ Accounts(new, new[i].id, v, w)
  PROVE  Follows(old \o new)
<1> DEFINE es == old \o new
           n == Len(old)
<1>1. /\ n \in Nat /\ Len(new) \in Nat /\ es \in Seq(S)
      /\ DOMAIN old = 1..n /\ DOMAIN es = 1..n+Len(new)
      /\ \A i \in 1..n : es[i] = old[i]
      /\ \A i \in n+1..n+Len(new) : i - n \in 1..Len(new) /\ es[i] = new[i - n]
  BY ConcatElements
<1> HIDE DEF es
<1> SUFFICES ASSUME NEW j \in 1..n+Len(new)
             PROVE  FollowsAt(es, j)
  BY <1>1 DEF Follows, es
<1>2. CASE j <= n
  <2>1. j \in DOMAIN old /\ \A i \in 1..j : es[i] = old[i]
    BY <1>1, <1>2
  <2>2. ASSUME NEW i \in 1..j-1
        PROVE  SuccessiveIn(es, i, j) <=> SuccessiveIn(old, i, j)
    <3>1. \A k \in i+1..j-1 : es[k] = old[k]
      BY <2>1
    <3>2. es[i] = old[i] /\ es[j] = old[j]
      BY <2>1, <1>1
    <3> QED BY <3>1, <3>2 DEF SuccessiveIn
  <2>3. FollowsAt(old, j)
    BY <2>1 DEF Follows
  <2>4. \A i \in 1..j-1 : es[i] = old[i]
    BY <2>1
  <2>5. es[j] = old[j]
    BY <2>1, <1>1
  <2> QED BY <2>2, <2>3, <2>4, <2>5 DEF FollowsAt
<1>3. CASE j > n
  <2>1. j \in n+1..n+Len(new) /\ j - n \in 1..Len(new) /\ es[j] = new[j - n]
    BY <1>1, <1>3
  <2> DEFINE g == es[j].id
  <2>2. PICK v, w : Tells(old, g, v) /\ Accounts(new, g, v, w)
    BY <2>1
  <2>3. es = old \o new /\ es[j].id = g
    BY DEF es
  <2>4. es \in Seq(S) /\ j \in Len(old)+1..Len(old)+Len(new)
    BY <2>1, <1>1
  <2> HIDE DEF g
  <2> QED BY <2>2, <2>3, <2>4, NewEventFollows
<1> QED BY <1>1, <1>2, <1>3

\* The same events under other numbers account for the same.
LEMMA AccountsAlike ==
  ASSUME NEW es, NEW ns, NEW g, NEW v, NEW w,
         DOMAIN ns = DOMAIN es,
         \A i \in DOMAIN es : ns[i].id = es[i].id /\ ns[i].group = es[i].group,
         Accounts(es, g, v, w)
  PROVE  Accounts(ns, g, v, w)
<1>1. CASE Silent(es, g) /\ v = w
  BY <1>1 DEF Accounts, Silent
<1>2. CASE Once(es, g, v, w)
  BY <1>2 DEF Accounts, Once
<1>3. CASE Twice(es, g, v, w)
  BY <1>3 DEF Accounts, Twice
<1> QED BY <1>1, <1>2, <1>3 DEF Accounts

\* A change to w is told by events that carry w or are removals.
LEMMA AccountsOnly ==
  ASSUME NEW es, NEW g, NEW v, NEW w, Accounts(es, g, v, w),
         NEW k \in DOMAIN es, es[k].id = g
  PROVE  es[k].group \in {None, w}
BY DEF Accounts, Silent, Once, Twice

-----------------------------------------------------------------------------
(* A set of places in a log has a last one. *)

LEMMA LastPlace ==
  ASSUME NEW n \in Nat, NEW T, T \subseteq 1..n, T # {}
  PROVE  Max(T) \in T /\ \A y \in T : y <= Max(T)
<1> DEFINE FromEnd == {y \in Nat : \E x \in T : y = n - x}
<1>1. \A x \in T : x \in Nat /\ x <= n /\ n - x \in Nat
  OBVIOUS
<1>2. FromEnd \subseteq Nat /\ FromEnd # {}
  <2>1. PICK x \in T : TRUE
    OBVIOUS
  <2> QED BY <1>1, <2>1
<1>3. PICK m \in FromEnd : \A y \in FromEnd : ~(<<y, m>> \in OpToRel(<, Nat))
  BY <1>2, NatLessThanWellFounded, WFMin
<1>4. \A y \in Nat : y \in FromEnd => ~(y < m)
  BY <1>3 DEF OpToRel
<1>5. PICK x \in T : m = n - x
  BY <1>3
<1>6. ASSUME NEW y \in T PROVE x >= y
  <2>1. n - y \in FromEnd /\ n - y \in Nat
    BY <1>1
  <2>2. ~(n - y < n - x)
    BY <1>4, <1>5, <2>1
  <2>3. x \in Nat /\ y \in Nat
    BY <1>1
  <2> QED BY <2>2, <2>3
<1> HIDE DEF FromEnd
<1>7. Max(T) \in T /\ \A y \in T : Max(T) >= y
  BY <1>6 DEF Max
<1> QED BY <1>1, <1>7

LEMMA LastPlaceIs ==
  ASSUME NEW n \in Nat, NEW T, T \subseteq 1..n, NEW i \in T, \A y \in T : y <= i
  PROVE  Max(T) = i
<1>1. Max(T) \in T /\ \A y \in T : y <= Max(T)
  BY LastPlace
<1> DEFINE k == Max(T)
<1>2. k \in T /\ i <= k /\ k <= i
  BY <1>1
<1>3. i \in 1..n /\ k \in 1..n
  BY <1>2
<1> HIDE DEF k
<1>4. k = i
  BY <1>2, <1>3
<1> QED BY <1>4 DEF k

-----------------------------------------------------------------------------
(* The numbers of two logs that share a counter. *)

Numbers(es) == {es[i].sequence : i \in DOMAIN es}

Increasing(es) ==
  \A j \in DOMAIN es : \A i \in 1..j-1 : es[i].sequence < es[j].sequence

Ordered(gs, ss, n) ==
  /\ Increasing(gs) /\ Increasing(ss)
  /\ Numbers(gs) \cap Numbers(ss) = {}
  /\ Numbers(gs) \cup Numbers(ss) = 1..n

\* A log that goes on from the counter.
LEMMA ConcatIncreasing ==
  ASSUME NEW S, NEW a \in Seq(S), NEW b \in Seq(S), NEW n \in Nat,
         Increasing(a), Numbers(a) \subseteq 1..n,
         \A i \in 1..Len(b) : b[i].sequence = n + i
  PROVE  /\ Increasing(a \o b)
         /\ Numbers(a \o b) = Numbers(a) \cup (n+1..n+Len(b))
<1> DEFINE ab == a \o b
           l == Len(a)
<1>1. /\ l \in Nat /\ Len(b) \in Nat
      /\ DOMAIN a = 1..l /\ DOMAIN b = 1..Len(b) /\ DOMAIN ab = 1..l+Len(b)
      /\ \A i \in 1..l : ab[i] = a[i]
      /\ \A i \in 1..Len(b) : ab[l + i] = b[i]
      /\ \A i \in l+1..l+Len(b) : ab[i] = b[i - l]
  BY ConcatElements
<1> HIDE DEF ab, l
<1>2. \A i \in 1..l : ab[i].sequence = a[i].sequence /\ a[i].sequence \in 1..n
  BY <1>1 DEF Numbers
<1>3. \A i \in l+1..l+Len(b) : ab[i].sequence = n + (i - l)
  BY <1>1
<1>4. Increasing(ab)
  <2> SUFFICES ASSUME NEW j \in 1..l+Len(b), NEW i \in 1..j-1
               PROVE  ab[i].sequence < ab[j].sequence
    BY <1>1 DEF Increasing
  <2>1. CASE j <= l
    <3>1. i \in 1..l /\ j \in DOMAIN a
      BY <2>1, <1>1
    <3>2. a[i].sequence < a[j].sequence
      BY <3>1 DEF Increasing
    <3> QED BY <3>1, <3>2, <1>1, <1>2
  <2>2. CASE j > l /\ i <= l
    BY <2>2, <1>1, <1>2, <1>3
  <2>3. CASE i > l
    BY <2>3, <1>1, <1>3
  <2> QED BY <2>1, <2>2, <2>3, <1>1
<1>5. ASSUME NEW k \in Numbers(ab) PROVE k \in Numbers(a) \cup (n+1..n+Len(b))
  <2>1. PICK i \in 1..l+Len(b) : k = ab[i].sequence
    BY <1>1 DEF Numbers
  <2>2. CASE i <= l
    <3>1. i \in DOMAIN a /\ k = a[i].sequence
      BY <2>1, <2>2, <1>1
    <3> QED BY <3>1 DEF Numbers
  <2>3. CASE i > l
    BY <2>1, <2>3, <1>1, <1>3
  <2> QED BY <2>2, <2>3, <2>1, <1>1
<1>6. ASSUME NEW k \in Numbers(a) PROVE k \in Numbers(ab)
  <2>1. PICK i \in 1..l : k = a[i].sequence
    BY <1>1 DEF Numbers
  <2>2. i \in DOMAIN ab /\ k = ab[i].sequence
    BY <2>1, <1>1, <1>2
  <2> QED BY <2>2 DEF Numbers
<1>7. ASSUME NEW k \in n+1..n+Len(b) PROVE k \in Numbers(ab)
  <2>1. PICK i \in l+1..l+Len(b) : n + (i - l) = k
    <3>1. l + (k - n) \in l+1..l+Len(b) /\ n + ((l + (k - n)) - l) = k
      BY <1>1
    <3> QED BY <3>1
  <2>2. i \in DOMAIN ab
    BY <1>1
  <2>3. ab[i].sequence = k
    BY <2>1, <1>3
  <2> QED BY <2>2, <2>3 DEF Numbers
<1> QED BY <1>4, <1>5, <1>6, <1>7 DEF ab

LEMMA OrderedGroups ==
  ASSUME NEW S, NEW gs \in Seq(S), NEW ns \in Seq(S), NEW ss, NEW n \in Nat,
         Ordered(gs, ss, n), \A i \in 1..Len(ns) : ns[i].sequence = n + i
  PROVE  Ordered(gs \o ns, ss, n + Len(ns))
<1>0. Increasing(gs) /\ Numbers(gs) \subseteq 1..n
  BY DEF Ordered
<1>1. /\ Increasing(gs \o ns)
      /\ Numbers(gs \o ns) = Numbers(gs) \cup (n+1..n+Len(ns))
  BY <1>0, ConcatIncreasing
<1>2. Len(ns) \in Nat
  BY LenProperties
<1> QED BY <1>1, <1>2 DEF Ordered

LEMMA OrderedSimulation ==
  ASSUME NEW S, NEW gs, NEW ss \in Seq(S), NEW e \in S, NEW n \in Nat,
         Ordered(gs, ss, n), e.sequence = n + 1
  PROVE  Ordered(gs, Append(ss, e), n + 1)
<1> DEFINE new == <<e>>
<1>1. new \in Seq(S) /\ Len(new) = 1 /\ new[1] = e
  OBVIOUS
<1>2. Append(ss, e) = ss \o new
  OBVIOUS
<1> HIDE DEF new
<1>3. \A i \in 1..Len(new) : new[i].sequence = n + i
  BY <1>1
<1>4. Increasing(ss) /\ Numbers(ss) \subseteq 1..n
  BY DEF Ordered
<1>5. new \in Seq(S)
  BY <1>1
<1>6. /\ Increasing(ss \o new)
      /\ Numbers(ss \o new) = Numbers(ss) \cup (n+1..n+Len(new))
  BY <1>3, <1>4, <1>5, ConcatIncreasing, ZenonT(40)
<1> QED BY <1>1, <1>2, <1>6 DEF Ordered

LEMMA SequenceOrderedIs ==
  SequenceOrdered <=> Ordered(groupUpdates, simulationUpdates, sequence)
BY DEF SequenceOrdered, Ordered, Increasing, Numbers

LEMMA SequenceOrderedIsNext ==
  SequenceOrdered' <=> Ordered(groupUpdates, simulationUpdates, sequence)'
BY SequenceOrderedIs, PTL

-----------------------------------------------------------------------------
(* What a write does to the two logs. *)

LEMMA ToldOrdered ==
  ASSUME TypeOK, SequenceOrdered, GroupsTold
  PROVE  SequenceOrdered'
<1>1. PICK es :
        /\ Covers(es)
        /\ groupUpdates' = groupUpdates \o Numbered(sequence, es)
        /\ \/ sequence' = sequence + Len(es) /\ UNCHANGED simulationUpdates
           \/ PublishSimulation(sequence + Len(es) + 1, None)
  BY DEF GroupsTold
<1> DEFINE ns == Numbered(sequence, es)
<1>2. /\ ns \in Seq(GroupEvent) /\ Len(ns) = Len(es) /\ Len(es) \in Nat
      /\ \A i \in 1..Len(ns) : ns[i].sequence = sequence + i
  BY <1>1, NumberedType, LenProperties DEF Covers, TypeOK
<1> HIDE DEF ns
<1>3. Ordered(groupUpdates \o ns, simulationUpdates, sequence + Len(ns))
  BY <1>2, SequenceOrderedIs, OrderedGroups DEF TypeOK
<1>4. groupUpdates' = groupUpdates \o ns
  BY <1>1 DEF ns
<1>5. CASE sequence' = sequence + Len(es) /\ UNCHANGED simulationUpdates
  BY <1>2, <1>3, <1>4, <1>5, SequenceOrderedIsNext
<1>6. CASE PublishSimulation(sequence + Len(es) + 1, None)
  <2> DEFINE n == sequence + Len(es)
             e == [sequence |-> n + 1, state |-> None]
  <2>1. /\ n \in Nat /\ e \in SimulationEvent /\ e.sequence = n + 1
        /\ sequence' = n + 1
        /\ simulationUpdates' = Append(simulationUpdates, e)
        /\ Ordered(groupUpdates \o ns, simulationUpdates, n)
    BY <1>2, <1>3, <1>6 DEF PublishSimulation, SimulationEvent, TypeOK
  <2> HIDE DEF n, e
  <2>2. simulationUpdates \in Seq(SimulationEvent)
    BY DEF TypeOK
  <2>3. Ordered(groupUpdates \o ns, Append(simulationUpdates, e), n + 1)
    BY <2>1, <2>2, OrderedSimulation
  <2> QED BY <2>1, <2>3, <1>4, SequenceOrderedIsNext
<1> QED BY <1>1, <1>5, <1>6

LEMMA UntouchedOrdered ==
  ASSUME TypeOK, SequenceOrdered, GroupsUntouched
  PROVE  SequenceOrdered'
<1>1. CASE UNCHANGED <<sequence, simulationUpdates>>
  BY <1>1 DEF GroupsUntouched, SequenceOrdered
<1>2. CASE \E st \in SimulationStates : PublishSimulation(sequence + 1, st)
  <2>1. PICK st \in SimulationStates : PublishSimulation(sequence + 1, st)
    BY <1>2
  <2> DEFINE e == [sequence |-> sequence + 1, state |-> st]
  <2>2. /\ e \in SimulationEvent /\ e.sequence = sequence + 1
        /\ sequence' = sequence + 1
        /\ simulationUpdates' = Append(simulationUpdates, e)
        /\ simulationUpdates \in Seq(SimulationEvent) /\ sequence \in Nat
    BY <2>1 DEF PublishSimulation, SimulationEvent, TypeOK
  <2> HIDE DEF e
  <2>3. Ordered(groupUpdates, Append(simulationUpdates, e), sequence + 1)
    BY <2>2, SequenceOrderedIs, OrderedSimulation
  <2> QED BY <2>2, <2>3, SequenceOrderedIsNext DEF GroupsUntouched
<1> QED BY <1>1, <1>2 DEF GroupsUntouched

\* No event is spurious, changes sides unannounced or shows a foreign unit.
EventsFollow == NoRedundantEvent /\ SideChangeAnnounced /\ EventUnitsBelong

LEMMA FollowsIs ==
  NoRedundantEvent /\ SideChangeAnnounced <=> Follows(groupUpdates)
BY DEF NoRedundantEvent, SideChangeAnnounced, Successive, Follows, FollowsAt,
       SuccessiveIn

LEMMA FollowsIsNext ==
  NoRedundantEvent' /\ SideChangeAnnounced' <=> Follows(groupUpdates)'
BY FollowsIs, PTL

\* Every unit of a joined view names the group.
LEMMA JoinedUnitsBelong ==
  ASSUME MapsOK, NEW g \in GroupIds, JoinedGroup(g) # None
  PROVE  \A u \in DOMAIN JoinedGroup(g).units : JoinedGroup(g).units[u].group = g
<1>1. JoinedGroup(g).units = MemberUnits(g)
  BY DEF JoinedGroup
<1>2. \A u \in DOMAIN MemberUnits(g) :
        /\ u \in MemberIds(g) /\ MemberUnits(g)[u] = units[u]
  BY DEF MemberUnits
<1>3. \A u \in MemberIds(g) : u \in UnitIds /\ units[u].group = g
  BY MemberIdsType DEF MapsOK, IndexAgrees
<1> QED BY <1>1, <1>2, <1>3

UnitsBelong ==
  \A g \in GroupIds : JoinedGroup(g) # None =>
    \A u \in DOMAIN JoinedGroup(g).units : JoinedGroup(g).units[u].group = g

LEMMA JoinedUnitsBelongNext == MapsOK' => UnitsBelong'
<1>1. MapsOK => UnitsBelong
  BY JoinedUnitsBelong DEF UnitsBelong
<1> QED BY <1>1, PTL

LEMMA ToldFollows ==
  ASSUME TypeOK, EventsTellCache, MapsOK', EventsFollow, GroupsTold
  PROVE  EventsFollow'
<1>1. PICK es :
        Covers(es) /\ groupUpdates' = groupUpdates \o Numbered(sequence, es)
  BY DEF GroupsTold
<1> DEFINE ns == Numbered(sequence, es)
           n == Len(groupUpdates)
<1>2. /\ groupUpdates \in Seq(GroupEvent) /\ sequence \in Nat
      /\ es \in Seq(Notice)
  BY <1>1 DEF Covers, TypeOK
<1>3. /\ ns \in Seq(GroupEvent) /\ Len(ns) = Len(es)
      /\ \A i \in 1..Len(es) : ns[i].id = es[i].id /\ ns[i].group = es[i].group
  BY <1>2, NumberedType
<1>4. groupUpdates' = groupUpdates \o ns
  BY <1>1
<1> HIDE DEF ns
<1>5. DOMAIN ns = 1..Len(ns) /\ DOMAIN es = 1..Len(ns)
  BY <1>2, <1>3, LenProperties
<1>6. \A g \in GroupIds : Accounts(ns, g, JoinedGroup(g), JoinedGroup(g)')
  BY <1>1, <1>3, <1>5, AccountsAlike DEF Covers
<1>7. \A i \in 1..Len(ns) : ns[i].id \in GroupIds
  <2> SUFFICES ASSUME NEW i \in 1..Len(ns) PROVE ns[i].id \in GroupIds
    OBVIOUS
  <2>1. ns[i] \in GroupEvent
    BY <1>3, ElementOfSeq
  <2> QED BY <2>1 DEF GroupEvent
<1>8. Follows(groupUpdates \o ns)
  <2>1. \A i \in 1..Len(ns) : \E v, w :
          Tells(groupUpdates, ns[i].id, v) /\ Accounts(ns, ns[i].id, v, w)
    <3> SUFFICES ASSUME NEW g \in GroupIds
                 PROVE  \E v, w : Tells(groupUpdates, g, v) /\ Accounts(ns, g, v, w)
      BY <1>7
    <3> QED BY <1>6 DEF EventsTellCache
  <2>2. Follows(groupUpdates)
    BY FollowsIs DEF EventsFollow
  <2> QED BY <2>1, <2>2, <1>2, <1>3, ConcatFollows
<1>9. EventUnitsBelong'
  <2> DEFINE log == groupUpdates \o ns
  <2>1. /\ n \in Nat /\ DOMAIN groupUpdates = 1..n /\ DOMAIN log = 1..n+Len(ns)
        /\ \A i \in 1..n : log[i] = groupUpdates[i]
        /\ \A i \in n+1..n+Len(ns) : i - n \in 1..Len(ns) /\ log[i] = ns[i - n]
    <3>1. groupUpdates \in Seq(GroupEvent)
      BY <1>2
    <3>2. ns \in Seq(GroupEvent)
      BY <1>3
    <3> QED BY <3>1, <3>2, ConcatElements
  <2>2. log = groupUpdates'
    BY <1>4
  <2> HIDE DEF n, log
  <2> SUFFICES ASSUME NEW j \in DOMAIN log, log[j].group # None,
                      NEW u \in DOMAIN log[j].group.units
               PROVE  log[j].group.units[u].group = log[j].id
    BY <2>2 DEF EventUnitsBelong
  <2>3. CASE j \in 1..n
    BY <2>1, <2>3 DEF EventsFollow, EventUnitsBelong
  <2>4. CASE j \in n+1..n+Len(ns)
    <3>1. j - n \in DOMAIN ns /\ log[j] = ns[j - n]
      BY <2>1, <2>4, <1>5
    <3>2. PICK g \in GroupIds : g = log[j].id
      BY <3>1, <1>5, <1>7
    <3>3. Accounts(ns, g, JoinedGroup(g), JoinedGroup(g)')
      BY <1>6
    <3>4. log[j].group = JoinedGroup(g)'
      <4> DEFINE w == JoinedGroup(g)'
                 v == JoinedGroup(g)
      <4>1. Accounts(ns, g, v, w)
        BY <3>3
      <4> HIDE DEF v, w
      <4>2. ns[j - n].group \in {None, w}
        BY <3>1, <3>2, <4>1, AccountsOnly
      <4> QED BY <3>1, <4>2 DEF w
    <3>5. \A x \in DOMAIN JoinedGroup(g)'.units :
            JoinedGroup(g)'.units[x].group = g
      BY <3>4, JoinedUnitsBelongNext DEF UnitsBelong
    <3> QED BY <3>2, <3>4, <3>5
  <2> QED BY <2>1, <2>3, <2>4
<1> QED BY <1>4, <1>8, <1>9, FollowsIsNext DEF EventsFollow

\* A write that touches the simulation channel ends it on the new state.
LEMMA WriteSaysState ==
  ASSUME Write
  PROVE  \/ UNCHANGED <<simulation_state, simulationUpdates>>
         \/ \E n : PublishSimulation(n, simulation_state')
<1>1. CASE \E u \in UnitIds, g \in GroupIds, d \in UnitData : UpsertUnit(u, g, d)
  BY <1>1 DEF UpsertUnit, PublishGroups, simulationVars
<1>2. CASE \E u \in UnitIds : RemoveUnit(u)
  BY <1>2 DEF RemoveUnit, PublishGroups, simulationVars
<1>3. CASE \E g \in GroupIds, s \in Sides, d \in GroupData : UpsertGroup(g, s, d)
  BY <1>3 DEF UpsertGroup, PublishGroups, simulationVars
<1>4. CASE \E g \in GroupIds, s \in Sides, d \in GroupData, ids \in SUBSET UnitIds :
             \E us \in [ids -> UnitData] : UpsertGroupWithUnits(g, s, d, us)
  BY <1>4 DEF UpsertGroupWithUnits, PublishGroups, simulationVars
<1>5. CASE \E g \in GroupIds : RemoveGroup(g)
  BY <1>5 DEF RemoveGroup, PublishGroups, simulationVars
<1>6. CASE \E i \in SimulationInfos : SetSimulationInfo(i)
  BY <1>6 DEF SetSimulationInfo
<1>7. CASE \E st \in SimulationStates : SetSimulationState(st)
  BY <1>7 DEF SetSimulationState
<1>8. CASE \E ls \in SUBSET Locations : SetLocations(ls)
  BY <1>8 DEF SetLocations
<1>9. CASE Clear
  BY <1>9 DEF Clear
<1> QED BY <1>1, <1>2, <1>3, <1>4, <1>5, <1>6, <1>7, <1>8, <1>9 DEF Write

LEMMA WriteTellsState ==
  ASSUME TypeOK, Write, SimulationEventsTellState
  PROVE  SimulationEventsTellState'
<1>1. CASE UNCHANGED <<simulation_state, simulationUpdates>>
  BY <1>1 DEF SimulationEventsTellState
<1>2. CASE \E n : PublishSimulation(n, simulation_state')
  <2>1. PICK n : PublishSimulation(n, simulation_state')
    BY <1>2
  <2> DEFINE e == [sequence |-> n, state |-> simulation_state']
  <2>2. simulationUpdates' = Append(simulationUpdates, e)
    BY <2>1 DEF PublishSimulation
  <2>3. e.state = simulation_state'
    OBVIOUS
  <2> HIDE DEF e
  <2>4. /\ simulationUpdates' # <<>>
        /\ simulationUpdates'[Len(simulationUpdates')] = e
    <3>1. simulationUpdates \in Seq(SimulationEvent \cup {e})
      BY DEF TypeOK
    <3> QED BY <2>2, <3>1, AppendProperties
  <2> QED BY <2>3, <2>4 DEF SimulationEventsTellState, Last
<1> QED BY <1>1, <1>2, WriteSaysState

-----------------------------------------------------------------------------
(* The inductive invariant of the history: the cache's, for what was told. *)

LogInv == IInv /\ SequenceOrdered /\ EventsFollow /\ SimulationEventsTellState

LEMMA InitLogInv == Init => LogInv
<1> SUFFICES ASSUME Init PROVE LogInv
  OBVIOUS
<1>1. SequenceOrdered
  BY DEF Init, SequenceOrdered
<1>2. EventsFollow
  BY DEF Init, EventsFollow, NoRedundantEvent, SideChangeAnnounced,
         EventUnitsBelong
<1>3. SimulationEventsTellState
  BY DEF Init, SimulationEventsTellState
<1> QED BY <1>1, <1>2, <1>3, InitIInv DEF LogInv

LEMMA NextLogInv == LogInv /\ [Next]_cacheVars => LogInv'
<1> SUFFICES ASSUME LogInv, [Next]_cacheVars PROVE LogInv'
  OBVIOUS
<1>1. IInv'
  BY NextIInv DEF LogInv
<1>2. CASE Write
  <2>1. MapsOK' /\ (GroupsTold \/ GroupsUntouched)
    BY <1>2, WriteTells DEF LogInv, IInv
  <2>2. SimulationEventsTellState'
    BY <1>2, WriteTellsState DEF LogInv, IInv
  <2>3. CASE GroupsTold
    BY <1>1, <2>1, <2>2, <2>3, ToldOrdered, ToldFollows
    DEF LogInv, IInv
  <2>4. CASE GroupsUntouched
    <3>1. EventsFollow'
      BY <2>4 DEF GroupsUntouched, LogInv, EventsFollow, NoRedundantEvent,
                  SideChangeAnnounced, EventUnitsBelong, Successive
    <3> QED BY <1>1, <2>2, <2>4, <3>1, UntouchedOrdered DEF LogInv, IInv
  <2> QED BY <2>1, <2>3, <2>4
<1>3. ASSUME UNCHANGED <<units, groups, members, simulation_state, sequence,
                         groupUpdates, simulationUpdates>>
      PROVE  LogInv'
  <2>1. SequenceOrdered'
    BY <1>3 DEF LogInv, SequenceOrdered
  <2>2. SimulationEventsTellState'
    BY <1>3 DEF LogInv, SimulationEventsTellState
  <2>3. EventsFollow'
    BY <1>3 DEF LogInv, EventsFollow, NoRedundantEvent, SideChangeAnnounced,
                EventUnitsBelong, Successive
  <2> QED BY <1>1, <2>1, <2>2, <2>3 DEF LogInv
<1>4. CASE SendGroupUpdate \/ SendSimulationUpdate \/ UNCHANGED cacheVars
  BY <1>3, <1>4 DEF SendGroupUpdate, SendSimulationUpdate, cacheVars,
                    simulationVars
<1> QED BY <1>2, <1>4 DEF Next

-----------------------------------------------------------------------------
(* What every step does to the logs: new events are numbered past all others.  *)

Grows(old, new, n) ==
  /\ Len(old) <= Len(new)
  /\ \A i \in 1..Len(old) : new[i] = old[i]
  /\ \A i \in Len(old)+1..Len(new) : new[i].sequence > n

LEMMA ConcatGrows ==
  ASSUME NEW S, NEW a \in Seq(S), NEW b \in Seq(S), NEW n \in Nat, NEW k \in Nat,
         k >= n, \A i \in 1..Len(b) : b[i].sequence = k + i
  PROVE  Grows(a, a \o b, n)
<1> DEFINE ab == a \o b
<1>1. /\ Len(a) \in Nat /\ Len(b) \in Nat /\ Len(ab) = Len(a) + Len(b)
      /\ \A i \in 1..Len(a) : ab[i] = a[i]
      /\ \A i \in Len(a)+1..Len(a)+Len(b) :
           i - Len(a) \in 1..Len(b) /\ ab[i] = b[i - Len(a)]
  BY ConcatElements
<1> HIDE DEF ab
<1>2. \A i \in Len(a)+1..Len(ab) : ab[i].sequence > n
  BY <1>1
<1>3. Grows(a, ab, n)
  BY <1>1, <1>2 DEF Grows
<1> QED BY <1>3 DEF ab

LEMMA PrefixIs ==
  ASSUME NEW S, NEW a \in Seq(S), NEW T, NEW b \in Seq(T), Len(a) <= Len(b),
         \A i \in 1..Len(a) : b[i] = a[i]
  PROVE  IsPrefix(a, b)
<1>1. Len(a) \in Nat /\ Len(b) \in Nat
  BY LenProperties
<1>2. \A i \in 1..Len(a) : a[i] \in S /\ b[i] \in S
  BY ElementOfSeq
<1>3. /\ SubSeq(a, 1, Len(a)) \in Seq(S) /\ SubSeq(b, 1, Len(a)) \in Seq(S)
      /\ Len(SubSeq(a, 1, Len(a))) = Len(a) /\ Len(SubSeq(b, 1, Len(a))) = Len(a)
      /\ \A i \in 1..Len(a) : SubSeq(a, 1, Len(a))[i] = a[i]
                           /\ SubSeq(b, 1, Len(a))[i] = b[i]
  BY <1>1, <1>2
<1>4. SubSeq(a, 1, Len(a)) = SubSeq(b, 1, Len(a))
  BY <1>3, SeqEqual
<1> QED BY <1>4 DEF IsPrefix

LEMMA SameGrows ==
  ASSUME NEW S, NEW a \in Seq(S), NEW n
  PROVE  Grows(a, a, n)
BY LenProperties DEF Grows

LEMMA PublishGrows ==
  ASSUME TypeOK, NEW n \in Nat, n >= sequence, NEW st \in SimulationStates \cup {None},
         PublishSimulation(n + 1, st)
  PROVE  Grows(simulationUpdates, simulationUpdates', sequence)
<1> DEFINE b == <<[sequence |-> n + 1, state |-> st]>>
<1>1. /\ b \in Seq(SimulationEvent) /\ Len(b) = 1
      /\ \A i \in 1..Len(b) : b[i].sequence = n + i
  BY DEF SimulationEvent
<1>2. simulationUpdates' = simulationUpdates \o b
  BY DEF PublishSimulation, TypeOK
<1> HIDE DEF b
<1> QED BY <1>1, <1>2, ConcatGrows DEF TypeOK

LEMMA LogsGrow ==
  ASSUME LogInv, [Next]_cacheVars
  PROVE  /\ sequence <= sequence'
         /\ Grows(groupUpdates, groupUpdates', sequence)
         /\ Grows(simulationUpdates, simulationUpdates', sequence)
<1>1. TypeOK
  BY DEF LogInv, IInv
<1>2. groupUpdates \in Seq(GroupEvent) /\ sequence \in Nat
      /\ simulationUpdates \in Seq(SimulationEvent)
  BY <1>1 DEF TypeOK
<1>3. CASE UNCHANGED <<sequence, groupUpdates, simulationUpdates>>
  BY <1>2, <1>3, SameGrows
<1>4. CASE GroupsTold
  <2>1. PICK es :
          /\ Covers(es)
          /\ groupUpdates' = groupUpdates \o Numbered(sequence, es)
          /\ \/ sequence' = sequence + Len(es) /\ UNCHANGED simulationUpdates
             \/ PublishSimulation(sequence + Len(es) + 1, None)
    BY <1>4 DEF GroupsTold
  <2> DEFINE ns == Numbered(sequence, es)
  <2>2. es \in Seq(Notice) /\ Len(es) \in Nat
    BY <2>1, LenProperties DEF Covers
  <2>3. ns \in Seq(GroupEvent) /\ \A i \in 1..Len(ns) : ns[i].sequence = sequence + i
    BY <1>2, <2>2, NumberedType
  <2>4. groupUpdates' = groupUpdates \o ns
    BY <2>1
  <2> HIDE DEF ns
  <2>5. Grows(groupUpdates, groupUpdates', sequence)
    BY <1>2, <2>3, <2>4, ConcatGrows
  <2>6. CASE sequence' = sequence + Len(es) /\ UNCHANGED simulationUpdates
    BY <1>2, <2>2, <2>5, <2>6, SameGrows
  <2>7. CASE PublishSimulation(sequence + Len(es) + 1, None)
    <3> DEFINE n == sequence + Len(es)
    <3>1. n \in Nat /\ n >= sequence /\ PublishSimulation(n + 1, None)
      BY <1>2, <2>2, <2>7
    <3> HIDE DEF n
    <3>2. Grows(simulationUpdates, simulationUpdates', sequence)
      BY <1>1, <3>1, PublishGrows
    <3>3. sequence' = n + 1
      BY <3>1 DEF PublishSimulation
    <3> QED BY <1>2, <2>5, <3>1, <3>2, <3>3
  <2> QED BY <2>1, <2>6, <2>7
<1>5. CASE GroupsUntouched
  <2>1. CASE UNCHANGED <<sequence, simulationUpdates>>
    BY <1>3, <1>5, <2>1 DEF GroupsUntouched
  <2>2. CASE \E st \in SimulationStates : PublishSimulation(sequence + 1, st)
    <3>1. Grows(simulationUpdates, simulationUpdates', sequence)
      BY <1>1, <1>2, <2>2, PublishGrows
    <3>2. sequence' = sequence + 1
      BY <2>2 DEF PublishSimulation
    <3> QED BY <1>2, <1>5, <3>1, <3>2, SameGrows DEF GroupsUntouched
  <2> QED BY <1>5, <2>1, <2>2 DEF GroupsUntouched
<1>6. CASE Write
  BY <1>4, <1>5, <1>6, WriteTells DEF LogInv, IInv
<1>7. CASE SendGroupUpdate \/ SendSimulationUpdate \/ UNCHANGED cacheVars
  BY <1>3, <1>7 DEF SendGroupUpdate, SendSimulationUpdate, cacheVars
<1> QED BY <1>6, <1>7 DEF Next

-----------------------------------------------------------------------------
\* The counter numbers every event once, in the order of each channel, and a
\* reset does not start it again.
THEOREM NumbersCorrect == Spec => []SequenceOrdered
<1>1. LogInv => SequenceOrdered
  BY DEF LogInv
<1> QED BY InitLogInv, NextLogInv, <1>1, PTL DEF Spec

\* Every event says something new about its group, and only a group that the
\* channel has shown is removed on it.
THEOREM NoEventIsRedundant == Spec => []NoRedundantEvent
<1>1. LogInv => NoRedundantEvent
  BY DEF LogInv, EventsFollow
<1> QED BY InitLogInv, NextLogInv, <1>1, PTL DEF Spec

\* Between two upserts of a group with different sides there is a removal,
\* whichever of the two upsert calls changed the side.
THEOREM SideChangesAnnounced == Spec => []SideChangeAnnounced
<1>1. LogInv => SideChangeAnnounced
  BY DEF LogInv, EventsFollow
<1> QED BY InitLogInv, NextLogInv, <1>1, PTL DEF Spec

\* A broadcast group holds units of its own only, in the midst of any moves.
THEOREM UnitsOfEventsBelong == Spec => []EventUnitsBelong
<1>1. LogInv => EventUnitsBelong
  BY DEF LogInv, EventsFollow
<1> QED BY InitLogInv, NextLogInv, <1>1, PTL DEF Spec

\* The simulation channel ends on the current state, none after a reset.
THEOREM SimulationBroadcastCorrect == Spec => []SimulationEventsTellState
<1>1. LogInv => SimulationEventsTellState
  BY DEF LogInv
<1> QED BY InitLogInv, NextLogInv, <1>1, PTL DEF Spec
=============================================================================
