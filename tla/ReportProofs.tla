---------------------------- MODULE ReportProofs ----------------------------
(***************************************************************************)
(* What the walk over the capture points and the handler of /report show   *)
(* of a game that moves meanwhile, for any number of capture points,       *)
(* slots, objects, players and moves.                                      *)
(***************************************************************************)
EXTENDS Report, SequenceTheorems, FiniteSetTheorems, TLAPS

-----------------------------------------------------------------------------
(* Lists and their links. *)

\* No entity is twice in a list.
Injective(s) == \A j, k \in 1 .. Len(s) : s[j] = s[k] => j = k

\* The link of the k-th entity of a list.
Successor(s, k) == IF k < Len(s) THEN s[k + 1] ELSE Null

\* The game's list has no entity twice, and the links run along it.
ListOK ==
  /\ points \in Seq(Entity)
  /\ Injective(points)
  /\ link \in [Entity -> Entity \cup {Null}]
  /\ \A k \in 1 .. Len(points) : link[points[k]] = Successor(points, k)

\* Where the walk can be, and what it holds there.
WalkOK ==
  /\ moves \in Nat /\ movedAt \in Nat /\ movedAt <= moves
  /\ walk \in {"idle", "first", "hasNext", "row", "next", "ok", "out_of_range"}
  /\ has_next \in BOOLEAN
  /\ flag \in Entity \cup {Null}
  /\ flags \in Seq(Entity)
  /\ before \in Seq(Entity)
  /\ overwritten \in BOOLEAN
  /\ members \in SUBSET Entity
  /\ always \subseteq ToSet(points)
  /\ walk = "idle" => members = {} /\ always = {}
  /\ walk \in {"idle", "first"} => flags = << >> /\ flag = Null
  /\ walk \in {"row", "next"} => flag # Null

\* From an entity that was listed during the walk the links lead to such
\* entities only, so the walk never stands on another one.
Membership ==
  walk # "idle" =>
    /\ ToSet(points) \subseteq members
    /\ ToSet(flags) \subseteq members
    /\ flag \in members \cup {Null}
    /\ \A e \in members : link[e] \in members \cup {Null}

\* The rows so far are the beginning of the list.
Prefix(n) ==
  /\ Len(flags) = n
  /\ n <= Len(points)
  /\ \A k \in 1 .. n : flags[k] = points[k]

\* While the list stands still the walk goes along it.
QuietWalk ==
  walk # "idle" /\ Quiet =>
    /\ points = before
    /\ walk = "hasNext" =>
         IF has_next
         THEN \E n \in 0 .. (Len(points) - 1) : Prefix(n) /\ flag = points[n + 1]
         ELSE Prefix(Len(points))
    /\ walk = "row" =>
         \E n \in 0 .. (Len(points) - 1) :
           /\ Prefix(n) /\ flag = points[n + 1]
           /\ has_next <=> n + 1 < Len(points)
    /\ walk = "next" =>
         \E n \in 1 .. Len(points) :
           /\ Prefix(n) /\ flag = points[n]
           /\ has_next <=> n < Len(points)
    /\ walk = "ok" => Prefix(Len(points))
    /\ walk # "out_of_range"

Reported == ToSet(flags)

\* pos ranks every entity that was listed during the walk, in the order of
\* the list; links lead upwards, and never past an entity that is listed
\* all through the walk; what is not reported yet lies ahead.
Ranked(pos, lo, hi) ==
  /\ lo <= hi
  /\ \A e \in members : lo < pos[e] /\ pos[e] < hi
  /\ \A d, e \in members : pos[d] = pos[e] => d = e
  /\ \A j, k \in 1 .. Len(points) : j < k => pos[points[j]] < pos[points[k]]
  /\ \A e \in members : link[e] # Null => pos[e] < pos[link[e]]
  /\ \A e \in members, a \in always :
       pos[e] < pos[a] => link[e] # Null /\ pos[link[e]] <= pos[a]
  /\ walk = "hasNext" /\ has_next /\ flag # Null =>
       \A a \in always \ Reported : pos[flag] <= pos[a]
  /\ walk = "row" =>
       /\ \A a \in always \ Reported : pos[flag] <= pos[a]
       /\ ~has_next => always \subseteq Reported \cup {flag}
  /\ walk = "next" => \A a \in always \ Reported : pos[flag] < pos[a]
  /\ walk \in {"hasNext", "next"} /\ ~has_next => always \subseteq Reported
  /\ walk = "ok" => always \subseteq Reported

\* The rows go upwards in that ranking, and the walk is never behind them.
Ascends(pos) ==
  /\ \A j, k \in 1 .. Len(flags) : j < k => pos[flags[j]] < pos[flags[k]]
  /\ walk = "row" \/ (walk = "hasNext" /\ has_next /\ flag # Null) =>
       \A k \in 1 .. Len(flags) : pos[flags[k]] < pos[flag]
  /\ walk = "next" => \A k \in 1 .. Len(flags) : pos[flags[k]] <= pos[flag]

\* Unless memory was overwritten there is such a ranking, by elements of R.
RankedIn(R) ==
  walk # "idle" /\ ~overwritten =>
    \E pos \in [Entity -> R] :
      (\E lo, hi \in R : Ranked(pos, lo, hi)) /\ Ascends(pos)

\* The inductive invariant of the walk.
WalkInv == ListOK /\ WalkOK /\ Membership /\ QuietWalk /\ RankedIn(Int)

-----------------------------------------------------------------------------
\* The list without its n-th entity.
LEMMA RemovedAt ==
  ASSUME NEW S, NEW s \in Seq(S), NEW n \in 1 .. Len(s)
  PROVE  /\ RemoveAt(s, n) \in Seq(S)
         /\ Len(RemoveAt(s, n)) = Len(s) - 1
         /\ \A k \in 1 .. (Len(s) - 1) :
              RemoveAt(s, n)[k] = IF k < n THEN s[k] ELSE s[k + 1]
  <1> DEFINE a == SubSeq(s, 1, n - 1)
             b == SubSeq(s, n + 1, Len(s))
  <1>1. a \in Seq(S) /\ Len(a) = n - 1 /\ \A k \in 1 .. (n - 1) : a[k] = s[k]
    <2>1. 1 .. (n - 1) \subseteq 1 .. Len(s)
      OBVIOUS
    <2> QED
      BY <2>1, SubSeqProperties
  <1>2. b \in Seq(S) /\ Len(b) = Len(s) - n /\ \A k \in 1 .. (Len(s) - n) : b[k] = s[n + k]
    BY SubSeqProperties
  <1> DEFINE c == a \o b
  <1> HIDE DEF a, b
  <1>3. /\ c \in Seq(S) /\ Len(c) = Len(a) + Len(b)
        /\ \A k \in 1 .. Len(a) + Len(b) :
             c[k] = IF k <= Len(a) THEN a[k] ELSE b[k - Len(a)]
    BY <1>1, <1>2, ConcatProperties
  <1>4. RemoveAt(s, n) = c
    BY DEF RemoveAt, a, b
  <1> HIDE DEF c
  <1>5. RemoveAt(s, n) \in Seq(S) /\ Len(RemoveAt(s, n)) = Len(s) - 1
    BY <1>1, <1>2, <1>3, <1>4
  <1>6. ASSUME NEW k \in 1 .. (Len(s) - 1)
        PROVE  RemoveAt(s, n)[k] = IF k < n THEN s[k] ELSE s[k + 1]
    <2>1. RemoveAt(s, n)[k] = IF k <= n - 1 THEN a[k] ELSE b[k - (n - 1)]
      BY <1>1, <1>2, <1>3, <1>4
    <2>2. CASE k < n
      BY <1>1, <2>1, <2>2
    <2>3. CASE k >= n
      <3>1. k - (n - 1) \in 1 .. (Len(s) - n) /\ n + (k - (n - 1)) = k + 1
        BY <2>3
      <3>2. b[k - (n - 1)] = s[k + 1]
        BY <1>2, <3>1
      <3> QED
        BY <2>1, <2>3, <3>2
    <2> QED
      BY <2>2, <2>3
  <1> QED
    BY <1>5, <1>6

\* The list with one more entity at its front.
LEMMA Pushed ==
  ASSUME NEW S, NEW s \in Seq(S), NEW e \in S
  PROVE  /\ <<e>> \o s \in Seq(S)
         /\ Len(<<e>> \o s) = Len(s) + 1
         /\ \A k \in 1 .. (Len(s) + 1) :
              (<<e>> \o s)[k] = IF k = 1 THEN e ELSE s[k - 1]
  <1>1. <<e>> \in Seq(S) /\ Len(<<e>>) = 1 /\ <<e>>[1] = e
    OBVIOUS
  <1> DEFINE a == <<e>>
  <1> HIDE DEF a
  <1>2. /\ a \o s \in Seq(S) /\ Len(a \o s) = Len(a) + Len(s)
        /\ \A k \in 1 .. Len(a) + Len(s) :
             (a \o s)[k] = IF k <= Len(a) THEN a[k] ELSE s[k - Len(a)]
    BY <1>1, ConcatProperties DEF a
  <1> QED
    BY <1>1, <1>2 DEF a

\* The members of a list.
LEMMA SetOfList ==
  ASSUME NEW S, NEW s \in Seq(S)
  PROVE  /\ ToSet(s) = {s[k] : k \in 1 .. Len(s)}
         /\ ToSet(s) \subseteq S
  BY DEF ToSet

\* A row written after the others.
LEMMA SetOfAppend ==
  ASSUME NEW S, NEW s \in Seq(S), NEW e \in S
  PROVE  ToSet(Append(s, e)) = ToSet(s) \cup {e}
  <1> DEFINE t == Append(s, e)
  <1>1. /\ t \in Seq(S) /\ Len(t) = Len(s) + 1 /\ Len(s) \in Nat
        /\ \A k \in 1 .. Len(s) : t[k] = s[k]
        /\ t[Len(s) + 1] = e
    BY AppendProperties
  <1>2. ToSet(s) = {s[k] : k \in 1 .. Len(s)}
    BY SetOfList
  <1>3. ToSet(t) = {t[k] : k \in 1 .. Len(t)}
    BY <1>1, SetOfList
  <1> HIDE DEF t
  <1>4. 1 .. Len(t) = 1 .. Len(s) \cup {Len(s) + 1}
    BY <1>1
  <1>5. ToSet(t) = ToSet(s) \cup {e}
    BY <1>1, <1>2, <1>3, <1>4
  <1> QED
    BY <1>5 DEF t

\* The links that Links writes run along the list; the others stay.
LEMMA LinksRunAlong ==
  ASSUME NEW s \in Seq(Entity), Injective(s), NEW old \in [Entity -> Entity \cup {Null}]
  PROVE  /\ Links(s, old) \in [Entity -> Entity \cup {Null}]
         /\ \A k \in 1 .. Len(s) : Links(s, old)[s[k]] = Successor(s, k)
         /\ \A e \in Entity \ ToSet(s) : Links(s, old)[e] = old[e]
  <1>1. \A e \in ToSet(s) : \E k \in 1 .. Len(s) : s[k] = e
    BY DEF ToSet
  <1>2. \A k \in 1 .. Len(s) : (CHOOSE j \in 1 .. Len(s) : s[j] = s[k]) = k
    BY DEF Injective
  <1>3. \A k \in 1 .. Len(s) : s[k] \in ToSet(s) /\ s[k] \in Entity
    BY DEF ToSet
  <1>4. \A k \in 1 .. Len(s) : Links(s, old)[s[k]] = Successor(s, k)
    <2> TAKE k \in 1 .. Len(s)
    <2>1. Links(s, old)[s[k]] =
            LET l == CHOOSE j \in 1 .. Len(s) : s[j] = s[k]
            IN  IF l < Len(s) THEN s[l + 1] ELSE Null
      BY <1>3, Zenon DEF Links
    <2> QED
      BY <1>2, <2>1, Zenon DEF Successor
  <1>5. \A e \in Entity \ ToSet(s) : Links(s, old)[e] = old[e]
    BY DEF Links
  <1>6. \A k \in 1 .. Len(s) : Successor(s, k) \in Entity \cup {Null}
    BY DEF Successor
  <1>7. \A e \in Entity : Links(s, old)[e] \in Entity \cup {Null}
    <2> TAKE e \in Entity
    <2>1. CASE e \in ToSet(s)
      BY <1>1, <1>4, <1>6, <2>1
    <2>2. CASE e \notin ToSet(s)
      BY <1>5, <2>2
    <2> QED
      BY <2>1, <2>2
  <1>8. Links(s, old) \in [Entity -> Entity \cup {Null}]
    <2> DEFINE l(e) == IF e \in ToSet(s)
                       THEN LET i1 == CHOOSE j \in 1 .. Len(s) : s[j] = e
                            IN  IF i1 < Len(s) THEN s[i1 + 1] ELSE Null
                       ELSE old[e]
    <2>1. Links(s, old) = [e \in Entity |-> l(e)]
      BY DEF Links
    <2> HIDE DEF l
    <2>2. \A e \in Entity : l(e) \in Entity \cup {Null}
      BY <1>7, <2>1
    <2> QED
      BY <2>1, <2>2
  <1> QED
    BY <1>4, <1>5, <1>8

\* The lists the game can start with.
LEMMA FirstLists ==
  ASSUME NEW s \in SetToAllKPermutations(Entity)
  PROVE  s \in Seq(Entity) /\ Injective(s)
  <1>1. PICK T \in SUBSET Entity : s \in SetToSeqs(T)
    BY DEF SetToAllKPermutations
  <1>2. Cardinality(T) \in Nat
    <2>1. IsFiniteSet(T)
      BY EntityAssumption, FS_Subset
    <2> QED
      BY <2>1, FS_CardinalityType
  <1>3. /\ s \in [1 .. Cardinality(T) -> T]
        /\ \A j, k \in 1 .. Cardinality(T) : j # k => s[j] # s[k]
    BY <1>1 DEF SetToSeqs
  <1>4. s \in Seq(Entity) /\ Len(s) = Cardinality(T)
    BY <1>2, <1>3
  <1> QED
    BY <1>3, <1>4 DEF Injective

-----------------------------------------------------------------------------
(* The game's steps. *)

\* An entity that is not in the list is put at its front or at its end.
LEMMA CreatedList ==
  ASSUME NEW e \in Entity, ListOK, ~Listed(e),
         NEW s, s = <<e>> \o points \/ s = Append(points, e)
  PROVE  /\ s \in Seq(Entity) /\ Injective(s)
         /\ ToSet(s) = ToSet(points) \cup {e}
  <1>1. points \in Seq(Entity) /\ Injective(points) /\ Len(points) \in Nat
    BY DEF ListOK
  <1>2. \A k \in 1 .. Len(points) : points[k] # e
    BY <1>1, SetOfList DEF Listed
  <1>3. ToSet(points) = {points[k] : k \in 1 .. Len(points)}
    BY <1>1, SetOfList
  <1>4. CASE s = <<e>> \o points
    <2>1. /\ s \in Seq(Entity) /\ Len(s) = Len(points) + 1
          /\ \A k \in 1 .. (Len(points) + 1) : s[k] = IF k = 1 THEN e ELSE points[k - 1]
      BY <1>1, <1>4, Pushed
    <2>2. Injective(s)
      <3> SUFFICES ASSUME NEW j \in 1 .. Len(s), NEW k \in 1 .. Len(s), s[j] = s[k]
                   PROVE  j = k
        BY DEF Injective
      <3>1. \A x \in 1 .. Len(s) :
              IF x = 1 THEN s[x] = e
              ELSE x - 1 \in 1 .. Len(points) /\ s[x] = points[x - 1]
        BY <1>1, <2>1
      <3>2. CASE j = 1 \/ k = 1
        BY <1>2, <3>1, <3>2
      <3>3. CASE j # 1 /\ k # 1
        <4>1. points[j - 1] = points[k - 1]
          BY <3>1, <3>3
        <4>2. j - 1 = k - 1
          BY <1>1, <3>1, <3>3, <4>1 DEF Injective
        <4> QED
          BY <4>2
      <3> QED
        BY <3>2, <3>3
    <2>3. ToSet(s) = {s[k] : k \in 1 .. Len(s)}
      BY <2>1, SetOfList
    <2>4. \A k \in 1 .. Len(points) : points[k] = s[k + 1] /\ k + 1 \in 1 .. Len(s)
      BY <1>1, <2>1
    <2>5. s[1] = e /\ 1 \in 1 .. Len(s)
      BY <1>1, <2>1
    <2>6. \A k \in 1 .. Len(s) : s[k] \in ToSet(points) \cup {e}
      BY <1>1, <1>3, <2>1
    <2>7. ToSet(s) \subseteq ToSet(points) \cup {e}
      BY <2>3, <2>6, Zenon
    <2>8. ToSet(points) \cup {e} \subseteq ToSet(s)
      BY <1>3, <2>3, <2>4, <2>5, Zenon
    <2> QED
      BY <2>1, <2>2, <2>7, <2>8, Zenon
  <1>5. CASE s = Append(points, e)
    <2>1. /\ s \in Seq(Entity) /\ Len(s) = Len(points) + 1
          /\ \A k \in 1 .. Len(points) : s[k] = points[k]
          /\ s[Len(points) + 1] = e
      BY <1>1, <1>5, AppendProperties
    <2>2. Injective(s)
      BY <1>1, <1>2, <2>1 DEF Injective
    <2>3. ToSet(s) = ToSet(points) \cup {e}
      BY <1>1, <1>5, SetOfAppend
    <2> QED
      BY <2>1, <2>2, <2>3
  <1> QED
    BY <1>4, <1>5

\* An entity is taken out of the list.
LEMMA DestroyedList ==
  ASSUME ListOK, NEW n \in 1 .. Len(points),
         NEW s, s = RemoveAt(points, n)
  PROVE  /\ s \in Seq(Entity) /\ Injective(s)
         /\ ToSet(s) = ToSet(points) \ {points[n]}
  <1>1. points \in Seq(Entity) /\ Injective(points) /\ Len(points) \in Nat
    BY DEF ListOK
  <1>2. /\ s \in Seq(Entity) /\ Len(s) = Len(points) - 1
        /\ \A k \in 1 .. (Len(points) - 1) :
             s[k] = IF k < n THEN points[k] ELSE points[k + 1]
    BY <1>1, RemovedAt
  <1>3. Injective(s)
    BY <1>1, <1>2 DEF Injective
  <1>4. ToSet(points) = {points[k] : k \in 1 .. Len(points)}
    BY <1>1, SetOfList
  <1>5. ToSet(s) = {s[k] : k \in 1 .. Len(s)}
    BY <1>2, SetOfList
  <1>6. \A k \in 1 .. Len(s) : s[k] \in ToSet(points) \ {points[n]}
    BY <1>1, <1>2, <1>4 DEF Injective
  <1>7. \A k \in 1 .. Len(points) : k # n => \E j \in 1 .. Len(s) : s[j] = points[k]
    <2> SUFFICES ASSUME NEW k \in 1 .. Len(points), k # n
                 PROVE  \E j \in 1 .. Len(s) : s[j] = points[k]
      OBVIOUS
    <2>1. CASE k < n
      BY <1>1, <1>2, <2>1
    <2>2. CASE k > n
      <3>1. k - 1 \in 1 .. Len(s) /\ s[k - 1] = points[k]
        BY <1>1, <1>2, <2>2
      <3> QED
        BY <3>1
    <2> QED
      BY <1>1, <2>1, <2>2
  <1>8. ToSet(s) \subseteq ToSet(points) \ {points[n]}
    BY <1>5, <1>6, Zenon
  <1>9. ToSet(points) \ {points[n]} \subseteq ToSet(s)
    BY <1>4, <1>5, <1>7, Zenon
  <1> QED
    BY <1>2, <1>3, <1>8, <1>9, Zenon

\* The links of the new list.
LEMMA NewListOK ==
  ASSUME ListOK, NEW s \in Seq(Entity), Injective(s), points' = s,
         \/ link' = Links(s, link)
         \/ \E e \in Entity \ ToSet(s) : link' = [Links(s, link) EXCEPT ![e] = Null]
  PROVE  ListOK'
  <1>1. link \in [Entity -> Entity \cup {Null}]
    BY DEF ListOK
  <1>2. /\ Links(s, link) \in [Entity -> Entity \cup {Null}]
        /\ \A k \in 1 .. Len(s) : Links(s, link)[s[k]] = Successor(s, k)
    BY <1>1, LinksRunAlong
  <1>3. \A k \in 1 .. Len(s) : s[k] \in Entity /\ s[k] \in ToSet(s)
    BY SetOfList
  <1>4. link' \in [Entity -> Entity \cup {Null}]
    BY <1>2
  <1>5. \A k \in 1 .. Len(s) : link'[s[k]] = Successor(s, k)
    BY <1>2, <1>3
  <1>6. \A k \in 1 .. Len(points)' : (link[points[k]] = Successor(points, k))'
    BY <1>5 DEF Successor
  <1>7. points' \in Seq(Entity) /\ Injective(points)'
    BY DEF Injective
  <1> QED
    BY <1>4, <1>6, <1>7 DEF ListOK

\* Ranks that go up from each entity of a list to the later ones.
LEMMA Ascending ==
  ASSUME NEW s \in Seq(Entity), NEW pos \in [Entity -> Int],
         \A j, k \in 1 .. Len(s) : j < k => pos[s[j]] < pos[s[k]]
  PROVE  /\ \A j, k \in 1 .. Len(s) : pos[s[j]] < pos[s[k]] => j < k
         /\ \A k \in 1 .. Len(s) : k < Len(s) => pos[s[k]] < pos[s[k + 1]]
         /\ \A j, k \in 1 .. Len(s) :
              k < j => k < Len(s) /\ pos[s[k + 1]] <= pos[s[j]]
  <1> DEFINE f == [k \in 1 .. Len(s) |-> pos[s[k]]]
  <1>1. f \in [1 .. Len(s) -> Int] /\ Len(s) \in Nat
    OBVIOUS
  <1>2. \A k \in 1 .. Len(s) : f[k] = pos[s[k]]
    OBVIOUS
  <1> HIDE DEF f
  <1>3. \A j, k \in 1 .. Len(s) : j < k => f[j] < f[k]
    BY <1>2
  <1>4. \A j, k \in 1 .. Len(s) : f[j] < f[k] => j < k
    <2> SUFFICES ASSUME NEW j \in 1 .. Len(s), NEW k \in 1 .. Len(s), f[j] < f[k], k <= j
                 PROVE  FALSE
      OBVIOUS
    <2>1. f[j] \in Int /\ f[k] \in Int
      BY <1>1
    <2>2. CASE k = j
      BY <2>1, <2>2
    <2>3. CASE k < j
      BY <1>3, <2>1, <2>3
    <2> QED
      BY <2>2, <2>3
  <1>5. \A k \in 1 .. Len(s) : k < Len(s) => f[k] < f[k + 1] /\ k + 1 \in 1 .. Len(s)
    BY <1>1, <1>3
  <1>6. \A j, k \in 1 .. Len(s) : k < j => k < Len(s) /\ f[k + 1] <= f[j]
    <2> SUFFICES ASSUME NEW j \in 1 .. Len(s), NEW k \in 1 .. Len(s), k < j
                 PROVE  k < Len(s) /\ f[k + 1] <= f[j]
      OBVIOUS
    <2>1. k + 1 \in 1 .. Len(s) /\ k < Len(s)
      BY <1>1
    <2>2. f[j] \in Int
      BY <1>1
    <2>3. CASE k + 1 = j
      BY <2>1, <2>2, <2>3
    <2>4. CASE k + 1 < j
      <3>1. f[k + 1] < f[j]
        BY <1>3, <2>1, <2>4
      <3>2. f[k + 1] \in Int
        BY <1>1, <2>1
      <3> QED
        BY <2>1, <2>2, <3>1, <3>2
    <2> QED
      BY <2>3, <2>4
  <1> QED
    <2>1. \A j, k \in 1 .. Len(s) : pos[s[j]] < pos[s[k]] => j < k
      BY <1>2, <1>4
    <2>2. \A k \in 1 .. Len(s) : k < Len(s) => pos[s[k]] < pos[s[k + 1]]
      BY <1>2, <1>5
    <2>3. \A j, k \in 1 .. Len(s) : k < j => k < Len(s) /\ pos[s[k + 1]] <= pos[s[j]]
      <3> SUFFICES ASSUME NEW j \in 1 .. Len(s), NEW k \in 1 .. Len(s), k < j
                   PROVE  k < Len(s) /\ pos[s[k + 1]] <= pos[s[j]]
        OBVIOUS
      <3>1. k < Len(s) /\ k + 1 \in 1 .. Len(s) /\ f[k + 1] <= f[j]
        BY <1>5, <1>6
      <3> QED
        BY <1>2, <3>1
    <2> QED
      BY <2>1, <2>2, <2>3

\* The ranking of a new list: on what was ranked before nothing changes, and
\* along the list the ranks and the links go up one entity at a time.
LEMMA RankedNewList ==
  ASSUME ListOK, WalkOK, Membership, walk # "idle",
         NEW pos \in [Entity -> Int], NEW lo \in Int, NEW hi \in Int, Ranked(pos, lo, hi),
         NEW pos2 \in [Entity -> Int], NEW lo2 \in Int, NEW hi2 \in Int, lo2 <= hi2,
         NEW s \in Seq(Entity), Injective(s), points' = s, link' = Links(s, link),
         members' = members \cup ToSet(s),
         \A e \in members : pos2[e] = pos[e],
         \A e \in members \cup ToSet(s) : lo2 < pos2[e] /\ pos2[e] < hi2,
         \A d, e \in members \cup ToSet(s) : pos2[d] = pos2[e] => d = e,
         \A j, k \in 1 .. Len(s) : j < k => pos2[s[j]] < pos2[s[k]],
         always' \subseteq always, always' \subseteq ToSet(s),
         UNCHANGED <<walk, flag, has_next, flags>>
  PROVE  Ranked(pos2, lo2, hi2)'
  <1>1. /\ link \in [Entity -> Entity \cup {Null}]
        /\ members \in SUBSET Entity /\ ToSet(s) \in SUBSET Entity
        /\ Null \notin Entity
    BY SetOfList, EntityAssumption DEF ListOK, WalkOK
  <1>2. /\ \A k \in 1 .. Len(s) : link'[s[k]] = Successor(s, k)
        /\ \A e \in Entity \ ToSet(s) : link'[e] = link[e]
    BY <1>1, LinksRunAlong
  <1>3. \A e \in ToSet(s) : \E k \in 1 .. Len(s) : s[k] = e
    BY SetOfList
  <1>4. always \subseteq members /\ flag \in members \cup {Null}
    BY DEF WalkOK, Membership
  <1>5. \A e \in members : link[e] \in members \cup {Null}
    BY DEF Membership
  <1>6. \A e \in members' : link'[e] # Null => pos2[e] < pos2[link'[e]]
    <2> SUFFICES ASSUME NEW e \in members \cup ToSet(s), link'[e] # Null
                 PROVE  pos2[e] < pos2[link'[e]]
      OBVIOUS
    <2>1. CASE e \in ToSet(s)
      <3>1. PICK k \in 1 .. Len(s) : s[k] = e
        BY <1>3, <2>1
      <3>2. k < Len(s) /\ link'[e] = s[k + 1]
        BY <1>2, <3>1 DEF Successor
      <3>3. pos2[s[k]] < pos2[s[k + 1]]
        BY <3>2, Ascending
      <3> QED
        BY <3>1, <3>2, <3>3
    <2>2. CASE e \notin ToSet(s)
      <3>1. e \in members /\ link'[e] = link[e] /\ link[e] \in members
        BY <1>1, <1>2, <1>5, <2>2
      <3>2. pos[e] < pos[link[e]]
        BY <3>1 DEF Ranked
      <3> QED
        BY <3>1, <3>2
    <2> QED
      BY <2>1, <2>2
  <1>7. \A e \in members', a \in always' :
          pos2[e] < pos2[a] => link'[e] # Null /\ pos2[link'[e]] <= pos2[a]
    <2> SUFFICES ASSUME NEW e \in members \cup ToSet(s), NEW a \in always',
                        pos2[e] < pos2[a]
                 PROVE  link'[e] # Null /\ pos2[link'[e]] <= pos2[a]
      OBVIOUS
    <2>1. CASE e \in ToSet(s)
      <3>1. PICK k \in 1 .. Len(s) : s[k] = e
        BY <1>3, <2>1
      <3>2. PICK j \in 1 .. Len(s) : s[j] = a
        BY <1>3
      <3>3. k < j
        BY <3>1, <3>2, Ascending
      <3>4. k < Len(s) /\ pos2[s[k + 1]] <= pos2[s[j]]
        BY <3>3, Ascending
      <3>5. link'[e] = s[k + 1] /\ s[k + 1] \in Entity
        <4>1. link'[e] = Successor(s, k)
          BY <1>2, <3>1, Zenon
        <4>2. k + 1 \in 1 .. Len(s)
          BY <3>4
        <4>3. s[k + 1] \in Entity
          BY <4>2, ElementOfSeq
        <4> QED
          BY <3>4, <4>1, <4>3, Zenon DEF Successor
      <3> QED
        BY <1>1, <3>2, <3>4, <3>5
    <2>2. CASE e \notin ToSet(s)
      <3>1. e \in members /\ link'[e] = link[e] /\ a \in always /\ a \in members
        BY <1>1, <1>2, <1>4, <2>2
      <3>2. link[e] # Null /\ pos[link[e]] <= pos[a]
        BY <3>1 DEF Ranked
      <3> QED
        BY <1>5, <3>1, <3>2
    <2> QED
      BY <2>1, <2>2
  <1>8. \A a \in always : pos2[a] = pos[a] /\ (flag # Null => pos2[flag] = pos[flag])
    BY <1>4
  <1>9. flag # Null \/ walk \notin {"row", "next"}
    BY DEF WalkOK
  <1>10. /\ walk = "hasNext" /\ has_next /\ flag # Null =>
              \A a \in always \ Reported : pos2[flag] <= pos2[a]
         /\ walk = "row" =>
              /\ \A a \in always \ Reported : pos2[flag] <= pos2[a]
              /\ ~has_next => always \subseteq Reported \cup {flag}
         /\ walk = "next" => \A a \in always \ Reported : pos2[flag] < pos2[a]
         /\ walk \in {"hasNext", "next"} /\ ~has_next => always \subseteq Reported
         /\ walk = "ok" => always \subseteq Reported
    BY <1>8, <1>9 DEF Ranked
  <1>11. Reported' = Reported
    BY DEF Reported
  <1> QED
    BY <1>6, <1>7, <1>10, <1>11 DEF Ranked

\* The game's moves change no rank of what was listed, so the rows still go up.
LEMMA AscendsNewList ==
  ASSUME WalkOK, Membership, walk # "idle",
         NEW pos \in [Entity -> Int], Ascends(pos),
         NEW pos2 \in [Entity -> Int], \A e \in members : pos2[e] = pos[e],
         UNCHANGED <<walk, flag, has_next, flags>>
  PROVE  Ascends(pos2)'
  <1>1. \A k \in 1 .. Len(flags) : flags[k] \in members
    <2>1. flags \in Seq(Entity) /\ ToSet(flags) \subseteq members
      BY DEF WalkOK, Membership
    <2> QED
      BY <2>1, SetOfList
  <1>2. flag \in members \cup {Null} /\ (walk \in {"row", "next"} => flag # Null)
    BY DEF WalkOK, Membership
  <1>3. \A k \in 1 .. Len(flags) : pos2[flags[k]] = pos[flags[k]]
    BY <1>1
  <1>4. flag # Null => pos2[flag] = pos[flag]
    BY <1>2
  <1> QED
    BY <1>2, <1>3, <1>4 DEF Ascends

\* A move of the game during the walk ends the quiet.
LEMMA MoveEndsQuiet ==
  ASSUME WalkOK, moves' = moves + 1, movedAt' = movedAt
  PROVE  QuietWalk'
  BY DEF WalkOK, Quiet, QuietWalk

\* A capture point is created.
LEMMA CreateKeeps ==
  ASSUME WalkInv, NEW e \in Entity, create(e)
  PROVE  WalkInv'
  <1>1. PICK s : /\ s = <<e>> \o points \/ s = Append(points, e)
                 /\ Inserted(s)
    BY Zenon DEF create
  <1>2. /\ ~Listed(e) /\ moves' = moves + 1
        /\ overwritten' = (overwritten \/ e \in members)
        /\ UNCHANGED <<walk, flag, has_next, flags, before, movedAt, always>>
        /\ points' = s /\ link' = Links(s, link)
        /\ members' = IF walk = "idle" THEN {} ELSE members \cup ToSet(s)
    BY <1>1, Zenon DEF create, Inserted
  <1>3. s \in Seq(Entity) /\ Injective(s) /\ ToSet(s) = ToSet(points) \cup {e}
    BY <1>1, <1>2, CreatedList DEF WalkInv
  <1>4. ListOK'
    BY <1>2, <1>3, NewListOK DEF WalkInv
  <1>5. members \in SUBSET Entity /\ always \subseteq ToSet(points) /\ ToSet(s) \subseteq Entity
    BY <1>3, SetOfList DEF WalkInv, WalkOK
  <1>6. WalkOK'
    <2>1. members' \in SUBSET Entity /\ always' \subseteq ToSet(points')
      BY <1>2, <1>3, <1>5
    <2>2. walk' = "idle" => members' = {} /\ always' = {}
      BY <1>2 DEF WalkInv, WalkOK
    <2>3. moves' \in Nat /\ movedAt' <= moves' /\ overwritten' \in BOOLEAN
      BY <1>2 DEF WalkInv, WalkOK
    <2> QED
      BY <1>2, <2>1, <2>2, <2>3 DEF WalkInv, WalkOK
  <1>7. QuietWalk'
    BY <1>2, MoveEndsQuiet DEF WalkInv
  <1>8. Membership'
    <2> SUFFICES ASSUME walk # "idle"
                 PROVE  /\ ToSet(s) \subseteq members' /\ ToSet(flags) \subseteq members'
                        /\ flag \in members' \cup {Null}
                        /\ \A d \in members' : link'[d] \in members' \cup {Null}
      BY <1>2 DEF Membership
    <2>1. members' = members \cup ToSet(s)
      BY <1>2
    <2>2. /\ ToSet(flags) \subseteq members
          /\ flag \in members \cup {Null}
          /\ \A d \in members : link[d] \in members \cup {Null}
      BY DEF WalkInv, Membership
    <2>3. ASSUME NEW d \in members'
          PROVE  link'[d] \in members' \cup {Null}
      <3>1. link \in [Entity -> Entity \cup {Null}]
        BY DEF WalkInv, ListOK
      <3>2. CASE d \in ToSet(s)
        <4>1. PICK k \in 1 .. Len(s) : s[k] = d
          BY <1>3, <3>2, SetOfList
        <4>2. link'[d] = Successor(s, k)
          BY <1>2, <1>3, <3>1, <4>1, LinksRunAlong
        <4>3. Successor(s, k) \in ToSet(s) \cup {Null}
          BY <1>3, SetOfList DEF Successor
        <4> QED
          BY <2>1, <4>2, <4>3
      <3>3. CASE d \notin ToSet(s)
        <4>1. d \in members /\ link'[d] = link[d]
          BY <1>2, <1>3, <1>5, <2>1, <2>3, <3>1, <3>3, LinksRunAlong
        <4> QED
          BY <2>1, <2>2, <4>1
      <3> QED
        BY <3>2, <3>3
    <2> QED
      BY <2>1, <2>2, <2>3
  <1>9. RankedIn(Int)'
    <2> SUFFICES ASSUME walk # "idle", ~overwritten, e \notin members
                 PROVE  \E pos \in [Entity -> Int] :
                          (\E lo, hi \in Int : Ranked(pos, lo, hi)') /\ Ascends(pos)'
      BY <1>2 DEF RankedIn
    <2>1. PICK pos \in [Entity -> Int] :
            (\E lo, hi \in Int : Ranked(pos, lo, hi)) /\ Ascends(pos)
      BY DEF WalkInv, RankedIn
    <2>2. PICK lo \in Int, hi \in Int : Ranked(pos, lo, hi)
      BY <2>1
    <2>3. ToSet(points) \subseteq members
      BY DEF WalkInv, Membership
    <2>4. members' = members \cup ToSet(s) /\ members \cup ToSet(s) = members \cup {e}
      BY <1>2, <1>3, <2>3
    <2>5. /\ \A d \in members : lo < pos[d] /\ pos[d] < hi /\ pos[d] \in Int
          /\ \A c, d \in members : pos[c] = pos[d] => c = d
          /\ \A j, k \in 1 .. Len(points) : j < k => pos[points[j]] < pos[points[k]]
      BY <1>5, <2>2 DEF Ranked
    <2>6. \A k \in 1 .. Len(points) : points[k] \in members
      <3>1. points \in Seq(Entity)
        BY DEF WalkInv, ListOK
      <3> QED
        BY <2>3, <3>1, SetOfList
    <2> DEFINE front == s = <<e>> \o points
               rank == IF front THEN lo ELSE hi
    <2>7. PICK pos2 \in [Entity -> Int] :
            pos2[e] = rank /\ \A d \in members : pos2[d] = pos[d]
      <3>1. rank \in Int
        OBVIOUS
      <3> HIDE DEF rank
      <3> DEFINE f == [pos EXCEPT ![e] = rank]
      <3>2. f \in [Entity -> Int] /\ f[e] = rank /\ \A d \in members : f[d] = pos[d]
        BY <1>5, <3>1
      <3> QED
        BY <3>2, Zenon
    <2>8. lo <= hi
      BY <2>2 DEF Ranked
    <2>9. \A d \in members \cup ToSet(s) : lo - 1 < pos2[d] /\ pos2[d] < hi + 1
      <3>1. \A d \in members : lo - 1 < pos2[d] /\ pos2[d] < hi + 1
        BY <2>5, <2>7
      <3>2. lo - 1 < pos2[e] /\ pos2[e] < hi + 1
        BY <2>7, <2>8
      <3> QED
        BY <2>4, <3>1, <3>2
    <2>10. \A c, d \in members \cup ToSet(s) : pos2[c] = pos2[d] => c = d
      <3>1. \A d \in members : pos2[d] # pos2[e]
        BY <2>5, <2>7
      <3>2. \A c, d \in members : pos2[c] = pos2[d] => c = d
        BY <2>5, <2>7
      <3> QED
        BY <2>4, <3>1, <3>2
    <2>11. \A j, k \in 1 .. Len(s) : j < k => pos2[s[j]] < pos2[s[k]]
      <3> SUFFICES ASSUME NEW j \in 1 .. Len(s), NEW k \in 1 .. Len(s), j < k
                   PROVE  pos2[s[j]] < pos2[s[k]]
        OBVIOUS
      <3>1. points \in Seq(Entity) /\ Len(points) \in Nat
        BY DEF WalkInv, ListOK
      <3>2. \A x \in 1 .. Len(points) :
              pos2[points[x]] = pos[points[x]] /\ pos2[points[x]] \in Int
        BY <2>5, <2>6, <2>7
      <3>3. \A x \in 1 .. Len(points) : lo < pos2[points[x]] /\ pos2[points[x]] < hi
        BY <2>5, <2>6, <3>2
      <3>4. CASE front
        <4>1. /\ Len(s) = Len(points) + 1
              /\ \A x \in 1 .. (Len(points) + 1) : s[x] = IF x = 1 THEN e ELSE points[x - 1]
          BY <3>1, <3>4, Pushed
        <4>2. j \in 1 .. (Len(points) + 1) /\ k \in 1 .. (Len(points) + 1)
          BY <4>1, Zenon
        <4>3. \A n \in Nat : \A x, y \in 1 .. (n + 1) :
                x < y => y # 1 /\ y - 1 \in 1 .. n /\ (x # 1 => x - 1 \in 1 .. n /\ x - 1 < y - 1)
          OBVIOUS
        <4>4. /\ k # 1 /\ k - 1 \in 1 .. Len(points)
              /\ j # 1 => j - 1 \in 1 .. Len(points) /\ j - 1 < k - 1
          BY <3>1, <4>2, <4>3, Zenon
        <4>5. s[k] = points[k - 1]
          BY <4>1, <4>2, <4>4, Zenon
        <4>6. CASE j = 1
          <5>1. s[j] = e
            BY <4>1, <4>2, <4>6, Zenon
          <5>2. pos2[e] = lo
            BY <2>7, <3>4, Zenon
          <5> QED
            BY <3>3, <4>4, <4>5, <5>1, <5>2, Zenon
        <4>7. CASE j # 1
          <5>1. s[j] = points[j - 1]
            BY <4>1, <4>2, <4>7, Zenon
          <5>2. pos[points[j - 1]] < pos[points[k - 1]]
            BY <2>5, <4>4, <4>7, Zenon
          <5>3. pos2[points[j - 1]] = pos[points[j - 1]] /\ pos2[points[k - 1]] = pos[points[k - 1]]
            BY <3>2, <4>4, <4>7, Zenon
          <5>4. pos2[points[j - 1]] < pos2[points[k - 1]]
            BY <5>2, <5>3
          <5> QED
            BY <4>5, <5>1, <5>4, Zenon
        <4> QED
          BY <4>6, <4>7, Zenon
      <3>5. CASE ~front
        <4>1. /\ Len(s) = Len(points) + 1
              /\ \A x \in 1 .. Len(points) : s[x] = points[x]
              /\ s[Len(points) + 1] = e
          <5>1. s = Append(points, e)
            BY <1>1, <3>5, Zenon
          <5> HIDE DEF front
          <5> QED
            BY <3>1, <5>1, AppendProperties
        <4>2. j \in 1 .. (Len(points) + 1) /\ k \in 1 .. (Len(points) + 1)
          BY <4>1, Zenon
        <4>3. \A n \in Nat : \A x, y \in 1 .. (n + 1) :
                x < y => x \in 1 .. n /\ (y # n + 1 => y \in 1 .. n)
          OBVIOUS
        <4>4. /\ j \in 1 .. Len(points)
              /\ k # Len(points) + 1 => k \in 1 .. Len(points)
          BY <3>1, <4>2, <4>3, Zenon
        <4>5. s[j] = points[j]
          BY <4>1, <4>4, Zenon
        <4>6. CASE k = Len(points) + 1
          <5>1. s[k] = e
            BY <4>1, <4>6, Zenon
          <5>2. pos2[e] = hi
            BY <2>7, <3>5, Zenon
          <5> QED
            BY <3>3, <4>4, <4>5, <5>1, <5>2, Zenon
        <4>7. CASE k # Len(points) + 1
          <5>1. s[k] = points[k]
            BY <4>1, <4>4, <4>7, Zenon
          <5>2. pos[points[j]] < pos[points[k]]
            BY <2>5, <4>4, <4>7, Zenon
          <5>3. pos2[points[j]] = pos[points[j]] /\ pos2[points[k]] = pos[points[k]]
            BY <3>2, <4>4, <4>7, Zenon
          <5>4. pos2[points[j]] < pos2[points[k]]
            BY <5>2, <5>3
          <5> QED
            BY <4>5, <5>1, <5>4, Zenon
        <4> QED
          BY <4>6, <4>7, Zenon
      <3> QED
        BY <3>4, <3>5
    <2>12. always' \subseteq always /\ always' \subseteq ToSet(s)
      BY <1>2, <1>3, <1>5
    <2>13. lo - 1 \in Int /\ hi + 1 \in Int /\ lo - 1 <= hi + 1
      BY <2>8
    <2>14. Ranked(pos2, lo - 1, hi + 1)'
      <3> HIDE DEF front
      <3>1. ListOK /\ WalkOK /\ Membership
        BY DEF WalkInv
      <3> QED
        BY <1>2, <1>3, <2>2, <2>4, <2>7, <2>9, <2>10, <2>11, <2>12, <2>13, <3>1,
           RankedNewList
    <2>15. Ascends(pos2)'
      <3>1. WalkOK /\ Membership
        BY DEF WalkInv
      <3> HIDE DEF front
      <3> QED
        BY <1>2, <2>1, <2>7, <3>1, AscendsNewList
    <2> QED
      BY <2>7, <2>13, <2>14, <2>15, Zenon
  <1> QED
    BY <1>4, <1>6, <1>7, <1>8, <1>9 DEF WalkInv

\* A capture point is destroyed.
LEMMA DestroyKeeps ==
  ASSUME WalkInv, NEW e \in Entity, destroy(e)
  PROVE  WalkInv'
  <1>1. PICK n \in 1 .. Len(points) :
          /\ points[n] = e
          /\ points' = RemoveAt(points, n)
          /\ \/ link' = Links(RemoveAt(points, n), link) /\ overwritten' = overwritten
             \/ /\ link' = [Links(RemoveAt(points, n), link) EXCEPT ![e] = Null]
                /\ overwritten' = TRUE
          /\ moves' = moves + 1
          /\ always' = always \ {e}
          /\ UNCHANGED <<walk, flag, has_next, flags, before, movedAt, members>>
    BY Zenon DEF destroy
  <1>2. PICK s : s = RemoveAt(points, n)
    OBVIOUS
  <1>3. s \in Seq(Entity) /\ Injective(s) /\ ToSet(s) = ToSet(points) \ {e}
    BY <1>1, <1>2, DestroyedList DEF WalkInv
  <1>4. ListOK'
    <2>1. e \in Entity \ ToSet(s)
      BY <1>3
    <2>2. \/ link' = Links(s, link)
          \/ \E d \in Entity \ ToSet(s) : link' = [Links(s, link) EXCEPT ![d] = Null]
      BY <1>1, <1>2, <2>1, Zenon
    <2> QED
      BY <1>1, <1>2, <1>3, <2>2, NewListOK DEF WalkInv
  <1>5. members \in SUBSET Entity /\ always \subseteq ToSet(points) /\ ToSet(s) \subseteq Entity
    BY <1>3, SetOfList DEF WalkInv, WalkOK
  <1>6. WalkOK'
    <2>1. always' \subseteq ToSet(points') /\ (always = {} => always' = {})
      BY <1>1, <1>2, <1>3, <1>5
    <2>2. moves' \in Nat /\ movedAt' <= moves'
      BY <1>1 DEF WalkInv, WalkOK
    <2>3. overwritten' \in BOOLEAN
      <3>1. overwritten \in BOOLEAN
        BY DEF WalkInv, WalkOK
      <3>2. overwritten' = overwritten \/ overwritten' = TRUE
        BY <1>1, Zenon
      <3> QED
        BY <3>1, <3>2, Zenon
    <2> QED
      BY <1>1, <2>1, <2>2, <2>3 DEF WalkInv, WalkOK
  <1>7. QuietWalk'
    BY <1>1, MoveEndsQuiet DEF WalkInv
  <1>8. link \in [Entity -> Entity \cup {Null}]
    BY DEF WalkInv, ListOK
  <1>9. /\ Links(s, link) \in [Entity -> Entity \cup {Null}]
        /\ \A k \in 1 .. Len(s) : Links(s, link)[s[k]] = Successor(s, k)
        /\ \A d \in Entity \ ToSet(s) : Links(s, link)[d] = link[d]
    BY <1>3, <1>8, LinksRunAlong
  <1>10. Membership'
    <2> SUFFICES ASSUME walk # "idle"
                 PROVE  /\ ToSet(s) \subseteq members /\ ToSet(flags) \subseteq members
                        /\ flag \in members \cup {Null}
                        /\ \A d \in members : link'[d] \in members \cup {Null}
      BY <1>1, <1>2 DEF Membership
    <2>1. /\ ToSet(points) \subseteq members /\ ToSet(flags) \subseteq members
          /\ flag \in members \cup {Null}
          /\ \A d \in members : link[d] \in members \cup {Null}
      BY DEF WalkInv, Membership
    <2>2. ToSet(s) \subseteq members
      BY <1>3, <2>1
    <2>3. \A d \in members : Links(s, link)[d] \in members \cup {Null}
      <3> TAKE d \in members
      <3>1. CASE d \in ToSet(s)
        <4>1. PICK k \in 1 .. Len(s) : s[k] = d
          BY <1>3, <3>1, SetOfList
        <4>2. Successor(s, k) \in ToSet(s) \cup {Null}
          BY <1>3, SetOfList DEF Successor
        <4> QED
          BY <1>9, <2>2, <4>1, <4>2
      <3>2. CASE d \notin ToSet(s)
        BY <1>5, <1>9, <2>1, <3>2
      <3> QED
        BY <3>1, <3>2
    <2>4. \A d \in members : link'[d] \in {Links(s, link)[d], Null}
      BY <1>1, <1>2, <1>5, <1>9
    <2> QED
      BY <2>1, <2>2, <2>3, <2>4, Zenon
  <1>11. RankedIn(Int)'
    <2> SUFFICES ASSUME walk # "idle", ~overwritten, overwritten' = overwritten
                 PROVE  \E pos \in [Entity -> Int] :
                          (\E lo, hi \in Int : Ranked(pos, lo, hi)') /\ Ascends(pos)'
      BY <1>1 DEF RankedIn, WalkInv, WalkOK
    <2>1. PICK pos \in [Entity -> Int] :
            (\E lo, hi \in Int : Ranked(pos, lo, hi)) /\ Ascends(pos)
      BY DEF WalkInv, RankedIn
    <2>2. PICK lo \in Int, hi \in Int : Ranked(pos, lo, hi)
      BY <2>1
    <2>3. ToSet(points) \subseteq members
      BY DEF WalkInv, Membership
    <2>4. members' = members \cup ToSet(s) /\ members = members \cup ToSet(s)
      BY <1>1, <1>3, <2>3
    <2>5. /\ lo <= hi
          /\ \A d \in members : lo < pos[d] /\ pos[d] < hi
          /\ \A c, d \in members : pos[c] = pos[d] => c = d
          /\ \A j, k \in 1 .. Len(points) : j < k => pos[points[j]] < pos[points[k]]
      BY <2>2 DEF Ranked
    <2>6. \A j, k \in 1 .. Len(s) : j < k => pos[s[j]] < pos[s[k]]
      <3> SUFFICES ASSUME NEW j \in 1 .. Len(s), NEW k \in 1 .. Len(s), j < k
                   PROVE  pos[s[j]] < pos[s[k]]
        OBVIOUS
      <3>1. points \in Seq(Entity) /\ Len(points) \in Nat
        BY DEF WalkInv, ListOK
      <3>2. /\ Len(s) = Len(points) - 1
            /\ \A x \in 1 .. (Len(points) - 1) :
                 s[x] = IF x < n THEN points[x] ELSE points[x + 1]
        BY <1>2, <3>1, RemovedAt
      <3>3. \A x \in 1 .. Len(s) :
              s[x] = points[IF x < n THEN x ELSE x + 1]
        BY <3>1, <3>2
      <3> DEFINE f(x) == IF x < n THEN x ELSE x + 1
      <3>4. f(j) \in 1 .. Len(points) /\ f(k) \in 1 .. Len(points) /\ f(j) < f(k)
        BY <3>1, <3>2
      <3>5. s[j] = points[f(j)] /\ s[k] = points[f(k)]
        BY <3>3
      <3> HIDE DEF f
      <3> QED
        BY <2>5, <3>4, <3>5
    <2>7. link' = Links(s, link)
      BY <1>1, <1>2
    <2>8. always' \subseteq always /\ always' \subseteq ToSet(s)
      BY <1>1, <1>3, <1>5
    <2>9. Ranked(pos, lo, hi)'
      <3>1. ListOK /\ WalkOK /\ Membership
        BY DEF WalkInv
      <3> QED
        BY <1>1, <1>2, <1>3, <2>2, <2>4, <2>5, <2>6, <2>7, <2>8, <3>1, RankedNewList
    <2>10. Ascends(pos)'
      <3>1. WalkOK /\ Membership
        BY DEF WalkInv
      <3> QED
        BY <1>1, <2>1, <3>1, AscendsNewList
    <2> QED
      BY <2>9, <2>10
  <1> QED
    BY <1>4, <1>6, <1>7, <1>10, <1>11 DEF WalkInv

\* The players move, and the capture points stay.
LEMMA MoveKeeps ==
  ASSUME WalkInv, moves' = moves + 1, UNCHANGED <<points, link, walkVars>>
  PROVE  WalkInv'
  <1>1. QuietWalk'
    BY MoveEndsQuiet DEF WalkInv, walkVars
  <1>2. ListOK' /\ Membership' /\ WalkOK'
    BY DEF WalkInv, ListOK, Injective, Successor, Membership, WalkOK, walkVars
  <1>3. RankedIn(Int)'
    BY DEF WalkInv, RankedIn, Ranked, Ascends, Reported, walkVars
  <1> QED
    BY <1>1, <1>2, <1>3 DEF WalkInv

-----------------------------------------------------------------------------
(* The walk's steps. *)

\* A request reaches the walk: the list it begins with is ranked by place.
LEMMA BeginKeeps ==
  ASSUME WalkInv, begin
  PROVE  WalkInv'
  <1>1. /\ walk = "idle" /\ walk' = "first" /\ before' = points /\ movedAt' = moves
        /\ members' = ToSet(points) /\ always' = ToSet(points) /\ overwritten' = FALSE
        /\ UNCHANGED <<points, link, moves, flag, has_next, flags>>
    BY DEF begin
  <1>2. points \in Seq(Entity) /\ Injective(points) /\ Len(points) \in Nat
    BY DEF WalkInv, ListOK
  <1>3. ToSet(points) = {points[k] : k \in 1 .. Len(points)} /\ ToSet(points) \subseteq Entity
    BY <1>2, SetOfList
  <1>4. ListOK'
    BY <1>1 DEF WalkInv, ListOK, Injective, Successor
  <1>5. flags = << >> /\ flag = Null
    BY <1>1 DEF WalkInv, WalkOK
  <1>6. ToSet(flags) = {}
    BY <1>5 DEF ToSet
  <1>7. WalkOK'
    <2>1. overwritten' \in BOOLEAN
      BY <1>1, Zenon
    <2>2. moves \in Nat /\ moves <= moves
      BY DEF WalkInv, WalkOK
    <2>3. has_next \in BOOLEAN
      BY DEF WalkInv, WalkOK
    <2>4. members' \in SUBSET Entity /\ always' \subseteq ToSet(points')
      BY <1>1, <1>3
    <2>5. flags \in Seq(Entity) /\ flag \in Entity \cup {Null}
      BY DEF WalkInv, WalkOK
    <2> QED
      BY <1>1, <1>2, <1>5, <2>1, <2>2, <2>3, <2>4, <2>5, Zenon DEF WalkOK
  <1>8. \A k \in 1 .. Len(points) : link[points[k]] = Successor(points, k)
    BY DEF WalkInv, ListOK
  <1>9. Membership'
    <2>1. \A k \in 1 .. Len(points) : Successor(points, k) \in ToSet(points) \cup {Null}
      BY <1>2, <1>3 DEF Successor
    <2>2. \A e \in ToSet(points) : link[e] \in ToSet(points) \cup {Null}
      BY <1>3, <1>8, <2>1
    <2> QED
      BY <1>1, <1>5, <1>6, <2>2 DEF Membership
  <1>10. QuietWalk'
    BY <1>1 DEF QuietWalk
  <1>11. RankedIn(Int)'
    <2>1. PICK pos \in [Entity -> Int] : \A k \in 1 .. Len(points) : pos[points[k]] = k
      <3> DEFINE f == [e \in Entity |->
                         IF e \in ToSet(points)
                         THEN CHOOSE k \in 1 .. Len(points) : points[k] = e ELSE 0]
      <3>1. \A k \in 1 .. Len(points) :
              (CHOOSE j \in 1 .. Len(points) : points[j] = points[k]) = k
        BY <1>2 DEF Injective
      <3>2. \A e \in ToSet(points) :
              (CHOOSE k \in 1 .. Len(points) : points[k] = e) \in 1 .. Len(points)
        BY <1>3
      <3>3. f \in [Entity -> Int]
        BY <1>2, <3>2
      <3>4. \A k \in 1 .. Len(points) : f[points[k]] = k
        BY <1>3, <3>1
      <3> QED
        BY <3>3, <3>4, Zenon
    <2>2. PICK hi \in Int : hi = Len(points) + 1
      BY <1>2
    <2>3. \A e \in ToSet(points) : 0 < pos[e] /\ pos[e] < hi
      BY <1>2, <1>3, <2>1, <2>2
    <2>4. \A d, e \in ToSet(points) : pos[d] = pos[e] => d = e
      BY <1>3, <2>1
    <2>5. \A j, k \in 1 .. Len(points) : j < k => pos[points[j]] < pos[points[k]]
      BY <2>1
    <2>6. \A e \in ToSet(points) : link[e] # Null => pos[e] < pos[link[e]]
      <3> SUFFICES ASSUME NEW k \in 1 .. Len(points), link[points[k]] # Null
                   PROVE  pos[points[k]] < pos[link[points[k]]]
        BY <1>3
      <3>1. k < Len(points) /\ link[points[k]] = points[k + 1]
        BY <1>8 DEF Successor
      <3> QED
        BY <1>2, <2>1, <3>1
    <2>7. \A e \in ToSet(points), a \in ToSet(points) :
            pos[e] < pos[a] => link[e] # Null /\ pos[link[e]] <= pos[a]
      <3> SUFFICES ASSUME NEW j \in 1 .. Len(points), NEW k \in 1 .. Len(points),
                          pos[points[j]] < pos[points[k]]
                   PROVE  link[points[j]] # Null /\ pos[link[points[j]]] <= pos[points[k]]
        BY <1>3
      <3>1. j < k
        BY <2>1
      <3>2. j + 1 \in 1 .. Len(points) /\ link[points[j]] = points[j + 1]
        BY <1>2, <1>8, <3>1 DEF Successor
      <3>3. points[j + 1] # Null
        BY <1>2, <3>2, EntityAssumption
      <3>4. pos[points[j + 1]] = j + 1 /\ pos[points[k]] = k
        BY <2>1, <3>2
      <3> QED
        BY <3>1, <3>2, <3>3, <3>4
    <2>8. 0 <= hi
      BY <1>2, <2>2
    <2>9. Ranked(pos, 0, hi)'
      BY <1>1, <2>3, <2>4, <2>5, <2>6, <2>7, <2>8 DEF Ranked
    <2>10. Ascends(pos)'
      <3>1. Len(flags) = 0
        BY <1>5
      <3> QED
        BY <1>1, <3>1 DEF Ascends
    <2> QED
      BY <2>9, <2>10 DEF RankedIn
  <1> QED
    BY <1>4, <1>7, <1>9, <1>10, <1>11 DEF WalkInv

\* What the walk's own steps leave alone of the list.
LEMMA ListStays ==
  ASSUME ListOK, UNCHANGED <<points, link>>
  PROVE  ListOK'
  BY DEF ListOK, Injective, Successor

\* first(): the walk stands on the head of the list.
LEMMA FirstKeeps ==
  ASSUME WalkInv, first
  PROVE  WalkInv'
  <1>1. /\ walk = "first" /\ flag' = First /\ has_next' = TRUE
        /\ walk' = IF First = Null THEN "ok" ELSE "hasNext"
        /\ UNCHANGED <<points, link, moves, flags, before, movedAt, members,
                       always, overwritten>>
    BY DEF first
  <1>2. points \in Seq(Entity) /\ Len(points) \in Nat
    BY DEF WalkInv, ListOK
  <1>3. ToSet(points) = {points[k] : k \in 1 .. Len(points)}
    BY <1>2, SetOfList
  <1>4. \/ First = Null /\ points = << >>
        \/ First # Null /\ Len(points) > 0 /\ First = points[1]
    BY <1>2, EntityAssumption DEF First
  <1>5. flags = << >> /\ ToSet(flags) = {}
    BY <1>1 DEF WalkInv, WalkOK, ToSet
  <1>6. /\ ToSet(points) \subseteq members /\ members \subseteq Entity
        /\ always \subseteq ToSet(points)
    BY <1>1 DEF WalkInv, WalkOK, Membership
  <1>7. First \in ToSet(points) \cup {Null}
    BY <1>2, <1>3, <1>4
  <1>8. ListOK'
    BY <1>1, ListStays DEF WalkInv
  <1>9. WalkOK'
    BY <1>1, <1>6, <1>7 DEF WalkInv, WalkOK
  <1>10. Membership'
    BY <1>1, <1>6, <1>7 DEF WalkInv, Membership
  <1>11. QuietWalk'
    <2> SUFFICES ASSUME Quiet PROVE QuietWalk'
      BY <1>1 DEF QuietWalk, Quiet
    <2>1. points = before
      BY <1>1 DEF WalkInv, QuietWalk
    <2>2. Len(flags) = 0
      BY <1>5
    <2>3. CASE First = Null
      <3>1. Len(points) = 0
        BY <1>4, <2>3
      <3>2. Prefix(Len(points))'
        BY <1>1, <2>2, <3>1 DEF Prefix
      <3> QED
        BY <1>1, <2>1, <2>3, <3>2 DEF QuietWalk
    <2>4. CASE First # Null
      <3>1. Prefix(0)' /\ flag' = points[0 + 1] /\ 0 \in 0 .. (Len(points) - 1)
        BY <1>1, <1>2, <1>4, <2>2, <2>4 DEF Prefix
      <3> QED
        BY <1>1, <2>1, <2>4, <3>1 DEF QuietWalk
    <2> QED
      BY <2>3, <2>4
  <1>12. RankedIn(Int)'
    <2> SUFFICES ASSUME ~overwritten
                 PROVE  \E pos \in [Entity -> Int] :
                          (\E lo, hi \in Int : Ranked(pos, lo, hi)') /\ Ascends(pos)'
      BY <1>1 DEF RankedIn
    <2>1. PICK pos \in [Entity -> Int] :
            (\E lo, hi \in Int : Ranked(pos, lo, hi)) /\ Ascends(pos)
      BY <1>1 DEF WalkInv, RankedIn
    <2>2. PICK lo \in Int, hi \in Int : Ranked(pos, lo, hi)
      BY <2>1
    <2>3. First = Null => always = {}
      BY <1>3, <1>4, <1>6
    <2>4. ASSUME First # Null, NEW a \in always
          PROVE  pos[First] <= pos[a]
      <3>1. PICK k \in 1 .. Len(points) : points[k] = a
        BY <1>3, <1>6, <2>4
      <3>2. CASE k = 1
        BY <1>2, <1>4, <2>4, <3>1, <3>2
      <3>3. CASE k > 1
        <4>1. pos[points[1]] < pos[points[k]]
          BY <1>2, <2>2, <3>3 DEF Ranked
        <4>2. points[1] \in Entity /\ points[k] \in Entity
          BY <1>2, <1>4, <2>4
        <4> QED
          BY <1>4, <2>4, <3>1, <4>1, <4>2
      <3> QED
        BY <3>2, <3>3
    <2>5. Ranked(pos, lo, hi)'
      BY <1>1, <1>5, <2>2, <2>3, <2>4 DEF Ranked, Reported
    <2>6. Ascends(pos)'
      <3>1. Len(flags) = 0
        BY <1>5
      <3> QED
        BY <1>1, <3>1 DEF Ascends
    <2> QED
      BY <2>5, <2>6
  <1> QED
    BY <1>8, <1>9, <1>10, <1>11, <1>12 DEF WalkInv

\* hasNext() loads the link: the loop goes on or is over, or the load throws.
LEMMA HasNextKeeps ==
  ASSUME WalkInv, hasNext
  PROVE  WalkInv'
  <1>1. /\ walk = "hasNext"
        /\ UNCHANGED <<points, link, moves, flag, flags, before, movedAt, members,
                       always, overwritten>>
    BY DEF hasNext
  <1>2. \/ has_next /\ flag # Null /\ has_next' = (link[flag] # Null) /\ walk' = "row"
        \/ has_next /\ flag = Null /\ has_next' = has_next /\ walk' = "out_of_range"
        \/ ~has_next /\ has_next' = has_next /\ walk' = "ok"
    BY Zenon DEF hasNext
  <1>3. /\ points \in Seq(Entity) /\ Len(points) \in Nat
        /\ \A k \in 1 .. Len(points) : link[points[k]] = Successor(points, k)
    BY DEF WalkInv, ListOK
  <1>4. ListOK'
    BY <1>1, ListStays DEF WalkInv
  <1>5. WalkOK'
    <2>1. has_next' \in BOOLEAN
      <3>1. has_next \in BOOLEAN
        BY DEF WalkInv, WalkOK
      <3> QED
        BY <1>2, <3>1, Zenon
    <2> QED
      BY <1>1, <1>2, <2>1 DEF WalkInv, WalkOK
  <1>6. Membership'
    BY <1>1, <1>2 DEF WalkInv, Membership
  <1>7. QuietWalk'
    <2> SUFFICES ASSUME Quiet PROVE QuietWalk'
      BY <1>1 DEF QuietWalk, Quiet
    <2>1. /\ points = before
          /\ IF has_next
             THEN \E n \in 0 .. (Len(points) - 1) : Prefix(n) /\ flag = points[n + 1]
             ELSE Prefix(Len(points))
      BY <1>1 DEF WalkInv, QuietWalk
    <2>2. \A n : Prefix(n)' <=> Prefix(n)
      BY <1>1 DEF Prefix
    <2>3. CASE ~has_next
      <3>1. walk' = "ok"
        BY <1>2, <2>3
      <3>2. Prefix(Len(points))'
        BY <1>1, <2>1, <2>3 DEF Prefix
      <3> QED
        BY <1>1, <2>1, <3>1, <3>2 DEF QuietWalk
    <2>4. CASE has_next
      <3>1. PICK n \in 0 .. (Len(points) - 1) : Prefix(n) /\ flag = points[n + 1]
        BY <2>1, <2>4
      <3>2. n + 1 \in 1 .. Len(points) /\ n + 1 <= Len(points)
        BY <1>3
      <3>3. flag # Null
        BY <1>3, <3>1, <3>2, EntityAssumption
      <3>4. link[flag] = Successor(points, n + 1)
        BY <1>3, <3>1, <3>2
      <3>5. link[flag] # Null <=> n + 1 < Len(points)
        <4>1. CASE n + 1 < Len(points)
          <5>1. (n + 1) + 1 \in 1 .. Len(points)
            BY <1>3, <4>1
          <5>2. points[(n + 1) + 1] # Null
            BY <1>3, <5>1, ElementOfSeq, EntityAssumption
          <5> QED
            BY <3>4, <4>1, <5>2 DEF Successor
        <4>2. CASE ~(n + 1 < Len(points))
          BY <3>4, <4>2 DEF Successor
        <4> QED
          BY <4>1, <4>2
      <3>6. walk' = "row" /\ (has_next' <=> n + 1 < Len(points))
        BY <1>2, <2>4, <3>3, <3>5
      <3>7. Prefix(n)'
        BY <2>2, <3>1
      <3> QED
        BY <1>1, <2>1, <3>1, <3>6, <3>7 DEF QuietWalk
    <2> QED
      BY <2>3, <2>4
  <1>8. RankedIn(Int)'
    <2> SUFFICES ASSUME ~overwritten
                 PROVE  \E pos \in [Entity -> Int] :
                          (\E lo, hi \in Int : Ranked(pos, lo, hi)') /\ Ascends(pos)'
      BY <1>1 DEF RankedIn
    <2>1. PICK pos \in [Entity -> Int] :
            (\E lo, hi \in Int : Ranked(pos, lo, hi)) /\ Ascends(pos)
      BY <1>1 DEF WalkInv, RankedIn
    <2>2. PICK lo \in Int, hi \in Int : Ranked(pos, lo, hi)
      BY <2>1
    <2>3. always \subseteq members /\ members \subseteq Entity /\ flag \in members \cup {Null}
      BY <1>1 DEF WalkInv, WalkOK, Membership
    <2>4. /\ lo <= hi
          /\ \A e \in members : lo < pos[e] /\ pos[e] < hi
          /\ \A d, e \in members : pos[d] = pos[e] => d = e
          /\ \A j, k \in 1 .. Len(points) : j < k => pos[points[j]] < pos[points[k]]
          /\ \A e \in members : link[e] # Null => pos[e] < pos[link[e]]
          /\ \A e \in members, a \in always :
               pos[e] < pos[a] => link[e] # Null /\ pos[link[e]] <= pos[a]
          /\ has_next /\ flag # Null => \A a \in always \ Reported : pos[flag] <= pos[a]
          /\ ~has_next => always \subseteq Reported
      BY <1>1, <2>2 DEF Ranked
    <2>5. Reported' = Reported
      BY <1>1 DEF Reported
    <2>6. ASSUME walk' = "row"
          PROVE  /\ \A a \in always \ Reported : pos[flag] <= pos[a]
                 /\ ~has_next' => always \subseteq Reported \cup {flag}
      <3>1. has_next /\ flag # Null /\ has_next' = (link[flag] # Null)
        BY <1>2, <2>6
      <3>2. \A a \in always \ Reported : pos[flag] <= pos[a]
        BY <2>4, <3>1
      <3>3. ASSUME ~has_next', NEW a \in always \ Reported
            PROVE  a = flag
        <4>1. link[flag] = Null
          BY <3>1, <3>3
        <4>2. ~(pos[flag] < pos[a])
          BY <2>3, <2>4, <3>1, <4>1
        <4>3. pos[flag] = pos[a]
          BY <2>3, <3>1, <3>2, <4>2
        <4> QED
          BY <2>3, <2>4, <3>1, <4>3
      <3> QED
        BY <3>2, <3>3
    <2>7. walk' = "ok" => always \subseteq Reported
      BY <1>2, <2>4
    <2>8. walk' \notin {"hasNext", "next"}
      BY <1>2
    <2>9. Ranked(pos, lo, hi)'
      BY <1>1, <2>4, <2>5, <2>6, <2>7, <2>8 DEF Ranked
    <2>10. Ascends(pos)'
      BY <1>1, <1>2, <2>1 DEF Ascends
    <2> QED
      BY <2>9, <2>10
  <1> QED
    BY <1>4, <1>5, <1>6, <1>7, <1>8 DEF WalkInv

\* One row is written.
LEMMA RowKeeps ==
  ASSUME WalkInv, row
  PROVE  WalkInv'
  <1>1. /\ walk = "row" /\ walk' = "next" /\ flags' = Append(flags, flag)
        /\ UNCHANGED <<points, link, moves, flag, has_next, before, movedAt, members,
                       always, overwritten>>
    BY DEF row
  <1>2. /\ flag \in members /\ members \subseteq Entity /\ flags \in Seq(Entity)
        /\ ToSet(flags) \subseteq members /\ flag # Null /\ flag \in Entity
        /\ always \subseteq members
    BY <1>1 DEF WalkInv, WalkOK, Membership
  <1>3. ToSet(flags') = ToSet(flags) \cup {flag}
    BY <1>1, <1>2, SetOfAppend
  <1>4. /\ flags' \in Seq(Entity) /\ Len(flags') = Len(flags) + 1
        /\ \A k \in 1 .. Len(flags) : flags'[k] = flags[k]
        /\ flags'[Len(flags) + 1] = flag
    BY <1>1, <1>2, AppendProperties
  <1>5. ListOK'
    BY <1>1, ListStays DEF WalkInv
  <1>6. WalkOK'
    BY <1>1, <1>4 DEF WalkInv, WalkOK
  <1>7. Membership'
    BY <1>1, <1>2, <1>3 DEF WalkInv, Membership
  <1>8. QuietWalk'
    <2> SUFFICES ASSUME Quiet PROVE QuietWalk'
      BY <1>1 DEF QuietWalk, Quiet
    <2>1. points = before
      BY <1>1 DEF WalkInv, QuietWalk
    <2>2. PICK n \in 0 .. (Len(points) - 1) : /\ Prefix(n) /\ flag = points[n + 1]
                                              /\ has_next <=> n + 1 < Len(points)
      <3>1. QuietWalk /\ walk # "idle"
        BY <1>1 DEF WalkInv
      <3> QED
        BY <1>1, <3>1, Zenon DEF QuietWalk
    <2>3. Len(points) \in Nat
      BY DEF WalkInv, ListOK
    <2>4. /\ Len(flags) = n
          /\ \A k \in 1 .. n : flags[k] = points[k]
      BY <2>2 DEF Prefix
    <2>5. n + 1 \in 1 .. Len(points)
      BY <2>3
    <2>6. \A k \in 1 .. (n + 1) : flags'[k] = points[k]
      BY <1>4, <2>2, <2>4
    <2>7. Prefix(n + 1)'
      BY <1>1, <1>4, <2>4, <2>5, <2>6 DEF Prefix
    <2> QED
      BY <1>1, <2>1, <2>2, <2>5, <2>7 DEF QuietWalk
  <1>9. RankedIn(Int)'
    <2> SUFFICES ASSUME ~overwritten
                 PROVE  \E pos \in [Entity -> Int] :
                          (\E lo, hi \in Int : Ranked(pos, lo, hi)') /\ Ascends(pos)'
      BY <1>1 DEF RankedIn
    <2>1. PICK pos \in [Entity -> Int] :
            (\E lo, hi \in Int : Ranked(pos, lo, hi)) /\ Ascends(pos)
      BY <1>1 DEF WalkInv, RankedIn
    <2>2. PICK lo \in Int, hi \in Int : Ranked(pos, lo, hi)
      BY <2>1
    <2>3. Reported' = Reported \cup {flag}
      BY <1>3 DEF Reported
    <2>4. /\ \A a \in always \ Reported : pos[flag] <= pos[a]
          /\ ~has_next => always \subseteq Reported \cup {flag}
          /\ \A d, e \in members : pos[d] = pos[e] => d = e
      BY <1>1, <2>2 DEF Ranked
    <2>5. \A a \in always \ Reported' : pos[flag] < pos[a]
      <3> TAKE a \in always \ Reported'
      <3>1. a \in always \ Reported /\ a # flag
        BY <2>3
      <3>2. pos[a] # pos[flag] /\ pos[flag] <= pos[a]
        BY <1>2, <2>4, <3>1
      <3>3. pos[a] \in Int /\ pos[flag] \in Int
        BY <1>2, <3>1
      <3> QED
        BY <3>2, <3>3
    <2>6. Ranked(pos, lo, hi)'
      BY <1>1, <2>2, <2>3, <2>4, <2>5 DEF Ranked
    <2>7. Ascends(pos)'
      <3>1. /\ \A j, k \in 1 .. Len(flags) : j < k => pos[flags[j]] < pos[flags[k]]
            /\ \A k \in 1 .. Len(flags) : pos[flags[k]] < pos[flag]
        BY <1>1, <2>1 DEF Ascends
      <3>2. /\ Len(flags) \in Nat /\ pos[flag] \in Int
            /\ \A k \in 1 .. Len(flags) : flags[k] \in Entity /\ pos[flags[k]] \in Int
        BY <1>2
      <3>3. \A j, k \in 1 .. Len(flags') : j < k => pos[flags'[j]] < pos[flags'[k]]
        <4> SUFFICES ASSUME NEW j \in 1 .. (Len(flags) + 1),
                            NEW k \in 1 .. (Len(flags) + 1), j < k
                     PROVE  pos[flags'[j]] < pos[flags'[k]]
          BY <1>4
        <4>1. j \in 1 .. Len(flags) /\ flags'[j] = flags[j]
          BY <1>4, <3>2
        <4>2. CASE k = Len(flags) + 1
          BY <1>4, <3>1, <4>1, <4>2
        <4>3. CASE k # Len(flags) + 1
          <5>1. k \in 1 .. Len(flags) /\ flags'[k] = flags[k]
            BY <1>4, <3>2, <4>3
          <5> QED
            BY <3>1, <4>1, <5>1
        <4> QED
          BY <4>2, <4>3
      <3>4. \A k \in 1 .. Len(flags') : pos[flags'[k]] <= pos[flag']
        BY <1>1, <1>4, <3>1, <3>2
      <3> QED
        BY <1>1, <3>3, <3>4 DEF Ascends
    <2> QED
      BY <2>6, <2>7
  <1> QED
    BY <1>5, <1>6, <1>7, <1>8, <1>9 DEF WalkInv

\* flag.next() loads the link again.
LEMMA NextKeeps ==
  ASSUME WalkInv, next
  PROVE  WalkInv'
  <1>1. /\ walk = "next" /\ walk' = "hasNext"
        /\ flag' = IF has_next THEN link[flag] ELSE flag
        /\ UNCHANGED <<points, link, moves, has_next, flags, before, movedAt, members,
                       always, overwritten>>
    BY DEF next
  <1>2. /\ flag \in members /\ members \subseteq Entity /\ flag # Null
        /\ always \subseteq members
        /\ link[flag] \in members \cup {Null}
    BY <1>1 DEF WalkInv, WalkOK, Membership
  <1>3. flag' \in members \cup {Null}
    BY <1>1, <1>2
  <1>4. ListOK'
    BY <1>1, ListStays DEF WalkInv
  <1>5. WalkOK'
    BY <1>1, <1>2, <1>3 DEF WalkInv, WalkOK
  <1>6. Membership'
    BY <1>1, <1>3 DEF WalkInv, Membership
  <1>7. QuietWalk'
    <2> SUFFICES ASSUME Quiet PROVE QuietWalk'
      BY <1>1 DEF QuietWalk, Quiet
    <2>1. points = before
      BY <1>1 DEF WalkInv, QuietWalk
    <2>2. PICK n \in 1 .. Len(points) : /\ Prefix(n) /\ flag = points[n]
                                        /\ has_next <=> n < Len(points)
      <3>1. QuietWalk /\ walk # "idle"
        BY <1>1 DEF WalkInv
      <3> QED
        BY <1>1, <3>1, Zenon DEF QuietWalk
    <2>3. /\ Len(points) \in Nat
          /\ link[points[n]] = Successor(points, n)
      BY DEF WalkInv, ListOK
    <2>4. Prefix(n)'
      BY <1>1, <2>2 DEF Prefix
    <2>5. CASE has_next
      <3>1. flag' = points[n + 1] /\ n \in 0 .. (Len(points) - 1)
        BY <1>1, <2>2, <2>3, <2>5 DEF Successor
      <3> QED
        BY <1>1, <2>1, <2>4, <2>5, <3>1 DEF QuietWalk
    <2>6. CASE ~has_next
      <3>1. n = Len(points)
        BY <2>2, <2>3, <2>6
      <3>2. Prefix(Len(points))'
        BY <1>1, <2>4, <3>1
      <3> QED
        BY <1>1, <2>1, <2>6, <3>2 DEF QuietWalk
    <2> QED
      BY <2>5, <2>6
  <1>8. RankedIn(Int)'
    <2> SUFFICES ASSUME ~overwritten
                 PROVE  \E pos \in [Entity -> Int] :
                          (\E lo, hi \in Int : Ranked(pos, lo, hi)') /\ Ascends(pos)'
      BY <1>1 DEF RankedIn
    <2>1. PICK pos \in [Entity -> Int] :
            (\E lo, hi \in Int : Ranked(pos, lo, hi)) /\ Ascends(pos)
      BY <1>1 DEF WalkInv, RankedIn
    <2>2. PICK lo \in Int, hi \in Int : Ranked(pos, lo, hi)
      BY <2>1
    <2>3. Reported' = Reported
      BY <1>1 DEF Reported
    <2>4. /\ \A a \in always \ Reported : pos[flag] < pos[a]
          /\ ~has_next => always \subseteq Reported
          /\ \A e \in members, a \in always :
               pos[e] < pos[a] => link[e] # Null /\ pos[link[e]] <= pos[a]
      BY <1>1, <2>2 DEF Ranked
    <2>5. has_next /\ flag' # Null => \A a \in always \ Reported : pos[flag'] <= pos[a]
      BY <1>1, <1>2, <2>4
    <2>6. Ranked(pos, lo, hi)'
      BY <1>1, <2>2, <2>3, <2>4, <2>5 DEF Ranked
    <2>7. Ascends(pos)'
      <3>1. \A j, k \in 1 .. Len(flags) : j < k => pos[flags[j]] < pos[flags[k]]
        BY <2>1 DEF Ascends
      <3>2. ASSUME has_next, flag' # Null, NEW k \in 1 .. Len(flags)
            PROVE  pos[flags[k]] < pos[flag']
        <4>1. flag' = link[flag] /\ link[flag] # Null /\ link[flag] \in Entity
          BY <1>1, <1>2, <3>2
        <4>2. pos[flags[k]] <= pos[flag]
          BY <1>1, <2>1 DEF Ascends
        <4>3. pos[flag] < pos[link[flag]]
          BY <1>2, <2>2, <4>1 DEF Ranked
        <4>4. pos[flags[k]] \in Int /\ pos[flag] \in Int /\ pos[link[flag]] \in Int
          BY <1>2, <4>1 DEF WalkInv, WalkOK
        <4> QED
          BY <4>1, <4>2, <4>3, <4>4
      <3> QED
        BY <1>1, <3>1, <3>2 DEF Ascends
    <2> QED
      BY <2>6, <2>7
  <1> QED
    BY <1>4, <1>5, <1>6, <1>7, <1>8 DEF WalkInv

\* The result is sent, and the walk is forgotten.
LEMMA FinishKeeps ==
  ASSUME WalkInv, finish
  PROVE  WalkInv'
  <1>1. /\ walk' = "idle" /\ flag' = Null /\ has_next' = TRUE /\ flags' = << >>
        /\ before' = << >> /\ movedAt' = 0 /\ members' = {} /\ always' = {}
        /\ overwritten' = FALSE /\ UNCHANGED <<points, link, moves>>
    BY DEF finish, gameVars
  <1>2. ListOK'
    BY <1>1, ListStays DEF WalkInv
  <1>3. has_next' \in BOOLEAN /\ overwritten' \in BOOLEAN
    BY <1>1, Zenon
  <1>4. << >> \in Seq(Entity) /\ moves \in Nat /\ 0 <= moves
    BY DEF WalkInv, WalkOK
  <1>5. WalkOK'
    BY <1>1, <1>3, <1>4, Zenon DEF WalkOK
  <1> QED
    BY <1>1, <1>2, <1>5 DEF WalkInv, Membership, QuietWalk, RankedIn

\* Before any request.
LEMMA InitWalk == Init => WalkInv
  <1> SUFFICES ASSUME Init PROVE WalkInv
    OBVIOUS
  <1>1. points \in Seq(Entity) /\ Injective(points)
    BY FirstLists DEF Init
  <1>2. [e \in Entity |-> Null] \in [Entity -> Entity \cup {Null}]
    OBVIOUS
  <1>3. ListOK
    <2>1. /\ link \in [Entity -> Entity \cup {Null}]
          /\ \A k \in 1 .. Len(points) : link[points[k]] = Successor(points, k)
      BY <1>1, <1>2, LinksRunAlong DEF Init
    <2> QED
      BY <1>1, <2>1 DEF ListOK
  <1>4. has_next \in BOOLEAN /\ overwritten \in BOOLEAN
    BY Zenon DEF Init
  <1>5. << >> \in Seq(Entity) /\ 0 \in Nat /\ 0 <= 0
    OBVIOUS
  <1>6. WalkOK
    BY <1>4, <1>5, Zenon DEF Init, WalkOK
  <1> QED
    BY <1>3, <1>6 DEF Init, WalkInv, Membership, QuietWalk, RankedIn

\* Nothing happens.
LEMMA IdleWalk ==
  ASSUME WalkInv, UNCHANGED vars
  PROVE  WalkInv'
  <1>1. ListOK' /\ Membership' /\ WalkOK'
    BY DEF WalkInv, ListOK, Injective, Successor, Membership, WalkOK, vars
  <1>2. QuietWalk'
    <2>1. \A n : Prefix(n)' <=> Prefix(n)
      BY DEF Prefix, vars
    <2> QED
      BY <2>1, Zenon DEF WalkInv, QuietWalk, Quiet, vars
  <1>3. RankedIn(Int)'
    BY DEF WalkInv, RankedIn, Ranked, Ascends, Reported, vars
  <1> QED
    BY <1>1, <1>2, <1>3 DEF WalkInv

\* One step of the game or of the walk.
LEMMA NextWalk == WalkInv /\ [Next]_vars => WalkInv'
  BY CreateKeeps, DestroyKeeps, BeginKeeps, FirstKeeps, HasNextKeeps, RowKeeps,
     NextKeeps, FinishKeeps, IdleWalk, Zenon DEF Next, Game, Walking

\* What the invariant says of the rows.
LEMMA WalkInvRows == WalkInv => RowsWereMembers /\ StablePointsAreReported
  <1> SUFFICES ASSUME WalkInv PROVE RowsWereMembers /\ StablePointsAreReported
    OBVIOUS
  <1>1. RowsWereMembers
    <2> SUFFICES ASSUME walk # "idle", ~overwritten,
                        NEW j \in 1 .. Len(flags), NEW k \in 1 .. Len(flags),
                        flags[j] = flags[k]
                 PROVE  j = k
      BY DEF WalkInv, Membership, RowsWereMembers
    <2>1. PICK pos \in [Entity -> Int] : Ascends(pos)
      BY DEF WalkInv, RankedIn
    <2>2. flags[j] \in Entity /\ flags[k] \in Entity
      BY DEF WalkInv, WalkOK
    <2>3. ~(j < k) /\ ~(k < j)
      BY <2>1, <2>2 DEF Ascends
    <2> QED
      BY <2>3
  <1>2. walk = "ok" /\ ~overwritten => always \subseteq ToSet(flags)
    BY DEF WalkInv, RankedIn, Ranked, Reported
  <1>3. walk = "out_of_range" => ~Quiet
    BY DEF WalkInv, QuietWalk
  <1>4. ASSUME walk = "ok", Quiet
        PROVE  flags = before
    <2>1. points = before /\ Prefix(Len(points))
      BY <1>4 DEF WalkInv, QuietWalk
    <2>2. points \in Seq(Entity) /\ flags \in Seq(Entity)
      BY DEF WalkInv, ListOK, WalkOK
    <2>3. Len(flags) = Len(points) /\ \A k \in 1 .. Len(points) : flags[k] = points[k]
      BY <2>1 DEF Prefix
    <2>4. flags = points
      BY <2>2, <2>3, SeqEqual
    <2> QED
      BY <2>1, <2>4
  <1> QED
    BY <1>1, <1>2, <1>3, <1>4 DEF StablePointsAreReported

\* WalkInv holds whatever the game does while the list is walked.
THEOREM WalkInvariant == Spec => []WalkInv
  <1> QED
    BY InitWalk, NextWalk, PTL DEF Spec

\* Every flag reported by add_flags_to_result was a capture point of the game
\* at some time during the walk, and none is reported twice unless the memory
\* of a destroyed one was overwritten.
THEOREM ReportedFlagsWereMembers == Spec => []RowsWereMembers
  <1> QED
    BY WalkInvariant, WalkInvRows, PTL

\* A capture point that exists all through the walk is among the flags of a
\* walk that succeeds, unless a destroyed one's memory was overwritten; and a
\* walk over a list that stands still reports exactly that list.
THEOREM StableFlagsAreReported == Spec => []StablePointsAreReported
  <1> QED
    BY WalkInvariant, WalkInvRows, PTL

\* No more rows than there were entities in the list during the walk.
RowsAreFew ==
  walk # "idle" /\ ~overwritten => Len(flags) <= Cardinality(members)

\* How many positions there are.
LEMMA SizeOfInterval == \A n \in Nat : Cardinality(1 .. n) = n
  <1> SUFFICES ASSUME NEW n \in Nat
               PROVE  Cardinality(1 .. n) = n
    OBVIOUS
  <1>1. 1 \in Int /\ n \in Int
    OBVIOUS
  <1>2. Cardinality(1 .. n) = IF 1 > n THEN 0 ELSE n - 1 + 1
    BY <1>1, FS_Interval, Zenon
  <1>3. (IF 1 > n THEN 0 ELSE n - 1 + 1) = n
    OBVIOUS
  <1> QED
    BY <1>2, <1>3

\* Distinct rows about entities that were in the list cannot be more than those.
LEMMA WalkInvFewRows == WalkInv => RowsAreFew
  <1> SUFFICES ASSUME WalkInv, walk # "idle", ~overwritten
               PROVE  Len(flags) <= Cardinality(members)
    BY DEF RowsAreFew
  <1>1. flags \in Seq(Entity) /\ Len(flags) \in Nat
    BY DEF WalkInv, WalkOK
  <1>2. members \in SUBSET Entity /\ IsFiniteSet(members)
    BY EntityAssumption, FS_Subset DEF WalkInv, WalkOK
  <1>3. /\ ToSet(flags) \subseteq members
        /\ \A j, k \in 1 .. Len(flags) : flags[j] = flags[k] => j = k
    BY WalkInvRows DEF RowsWereMembers
  <1>4. \A k \in 1 .. Len(flags) : flags[k] \in members
    BY <1>1, <1>3, SetOfList
  <1> DEFINE f == [k \in 1 .. Len(flags) |-> flags[k]]
  <1>5. f \in Injection(1 .. Len(flags), members)
    BY <1>3, <1>4 DEF Injection, IsInjective
  <1>6. Cardinality(1 .. Len(flags)) <= Cardinality(members)
    <2> HIDE DEF f
    <2> QED
      BY <1>2, <1>5, FS_Injection
  <1>7. Cardinality(1 .. Len(flags)) = Len(flags)
    BY <1>1, SizeOfInterval, Zenon
  <1> QED
    BY <1>6, <1>7

\* The loop of add_flags_to_result writes no more rows than entities were in
\* the list while it ran: however the game relinks the list under it, the
\* loop cannot go round, unless the memory of a destroyed entity was
\* overwritten.
THEOREM WalkIsBounded == Spec => []RowsAreFew
  <1> QED
    BY WalkInvariant, WalkInvFewRows, PTL

-----------------------------------------------------------------------------
(* The report. *)

Names == {pl.name : pl \in Players} \cup {NoName, None, ""}

Row == [name : Names, at : Names]

\* The places of the handler before it reads a slot, and from then on.
Before == {"gameManager", "playerManager", "localPlayer", "players"}
AtSlot == {"clientPlayerAt", "name", "team"}
Failed == {"bad client game manager", "bad client player manager", "500"}

Occupied(k) == slot[k] # NoObj

Nm(k) == obj[slot[k]].name

\* What the handler and the game hold, and where the handler can be.
ReportOK ==
  /\ manager \in Pointers /\ local \in Obj \cup {NoObj}
  /\ slot \in [Index -> Obj \cup {NoObj}]
  /\ obj \in [Obj -> Players \cup {Zeroed}]
  /\ \A k \in Index : Occupied(k) => obj[slot[k]] \in Players
  /\ Distinct(slot, obj)
  /\ pc \in Before \cup AtSlot \cup Failed \cup {"flags", "success"}
  /\ startedAt \in Nat /\ startedAt <= moves
  /\ i \in Nat
  /\ pc \in AtSlot => i < Slots
  /\ pc \in {"flags", "success"} => i = Slots
  /\ pc \in {"name", "team"} => o \in Obj
  /\ local_player \in Row
  /\ rows \in [1 .. 2 -> Seq(Row)]
  /\ pc \in Before => rows = [t \in 1 .. 2 |-> << >>] /\ local_player.at = None
  /\ pc \in {"gameManager", "playerManager", "localPlayer"} => local_player.name = None
  /\ pc = "team" => name \in Names \ {NoName}
  /\ \A t \in 1 .. 2 : \A n \in 1 .. Len(rows[t]) : rows[t][n].name # NoName
  /\ walk # "idle" => pc \in {"flags", "success", "500"} /\ startedAt <= movedAt
  /\ pc = "success" => walk = "ok"

\* Whoever is in a slot has been seen there, and so has whoever is about to
\* be listed.
Seen ==
  /\ pc # "gameManager" => InSlots \subseteq present
  /\ pc = "name" => obj[o].name \in present \cup {NoName}
  /\ pc = "team" => name \in present
  /\ NoGhostRows

\* While the game stands still the handler has said what is there.
Snapshot ==
  moves = startedAt =>
    /\ pc \notin {"gameManager", "bad client game manager"} => manager.gameManager
    /\ pc \notin {"gameManager", "playerManager", "bad client game manager",
                  "bad client player manager"} => manager.playerManager
    /\ pc \in AtSlot \cup {"flags", "success"} =>
         /\ manager.playerList
         /\ \A t \in 1 .. 2 : Lists(rows[t], t, i)
         /\ local_player.at =
              IF \E k \in Index : k < i /\ Occupied(k) /\ Nm(k) = LocalName
              THEN LocalName ELSE None
    /\ pc \in AtSlot \cup {"players", "flags", "success"} =>
         /\ local_name = LocalName
         /\ local_player.name = IF Named(local) THEN LocalName ELSE None
    /\ pc \in {"name", "team"} => o = slot[i]
    /\ pc = "team" => name = obj[o].name
    /\ pc = "bad client game manager" => ~manager.gameManager
    /\ pc = "bad client player manager" => ~manager.playerManager
    /\ pc = "500" => local = NoObj \/ ~manager.playerList

\* The slots that will still be read.
Ahead(k) ==
  \/ pc = "clientPlayerAt" /\ i <= k
  \/ pc \in {"name", "team"} /\ i < k

\* n is the name of a row.
RowName(n) == \E t \in 1 .. 2 : \E j \in 1 .. Len(rows[t]) : rows[t][j].name = n

\* Every row shows one player, and no player has two.
RowsApart ==
  /\ \A t \in 1 .. 2 : \A j \in 1 .. Len(rows[t]) : rows[t][j].name = rows[t][j].at
  /\ \A t, u \in 1 .. 2 : \A j \in 1 .. Len(rows[t]), k \in 1 .. Len(rows[u]) :
       rows[t][j].name = rows[u][k].name => t = u /\ j = k

\* As long as the game has moved at most once, nobody who has a row, or is
\* about to get one, is in a slot that will still be read.
Apart ==
  moves < startedAt + 2 =>
    /\ RowsApart
    /\ \A k \in Index : Ahead(k) /\ Occupied(k) => ~RowName(Nm(k))
    /\ pc = "name" =>
         /\ ~RowName(obj[o].name)
         /\ \A k \in Index : Ahead(k) /\ Occupied(k) => Nm(k) # obj[o].name
    /\ pc = "team" =>
         /\ ~RowName(name)
         /\ obj[o].name = name \/ obj[o] = Zeroed
         /\ \A k \in Index : Ahead(k) /\ Occupied(k) => Nm(k) # name

\* The inductive invariant of a request.
ReportInv == WalkInv /\ ReportOK /\ Seen /\ Snapshot /\ Apart

-----------------------------------------------------------------------------
(* What a move of the players does to the slots. *)

\* Players keep their names; a slot holds who was in it, or somebody new; an
\* object that was in a slot keeps its name or is zeroed.
Moved ==
  /\ slot' \in [Index -> Obj \cup {NoObj}]
  /\ obj' \in [Obj -> Players \cup {Zeroed}]
  /\ \A k \in Index : slot'[k] # NoObj => obj'[slot'[k]] \in Players
  /\ Distinct(slot', obj')
  /\ present \subseteq present'
  /\ \A k \in Index : slot'[k] # NoObj =>
       \/ Occupied(k) /\ obj'[slot'[k]].name = Nm(k)
       \/ /\ obj'[slot'[k]].name \in present'
          /\ \A j \in Index : Occupied(j) => Nm(j) # obj'[slot'[k]].name
  /\ \A k \in Index : Occupied(k) => obj'[slot[k]].name = Nm(k) \/ obj'[slot[k]] = Zeroed
  /\ \A x \in Obj : obj'[x].name \in {obj[x].name, NoName} \cup present'

\* The records of players, and of the object whose memory was zeroed.
LEMMA PlayerRecords ==
  /\ \A pl \in Players : pl.name \in Names \ {NoName} /\ pl.team \in Int
  /\ Zeroed.name = NoName /\ Zeroed.team = 0 /\ Zeroed \notin Players
  /\ \A pl \in Players \cup {Zeroed} : pl.name \in Names
  <1>1. \A pl \in Players : pl.name # NoName /\ pl.team \in Int
    BY PlayersAssumption
  <1>2. Zeroed.name = NoName /\ Zeroed.team = 0
    BY DEF Zeroed
  <1> QED
    BY <1>1, <1>2 DEF Names

\* The objects of two slots are different ones.
LEMMA ObjectsDiffer ==
  ASSUME ReportOK, NEW j \in Index, NEW k \in Index, j # k, Occupied(j), Occupied(k)
  PROVE  slot[j] # slot[k] /\ Nm(j) # Nm(k) /\ slot[j] \in Obj /\ slot[k] \in Obj
  BY DEF ReportOK, Distinct, Occupied, Nm

\* A player joins: his object and his name are nobody else's.
LEMMA JoinMoves ==
  ASSUME ReportOK, NEW k0 \in Index, NEW x \in Obj, NEW pl \in Players, join(k0, x, pl)
  PROVE  Moved
  <1>1. /\ slot[k0] = NoObj /\ \A j \in Index : slot[j] # x
        /\ slot' = [slot EXCEPT ![k0] = x]
        /\ obj' = [obj EXCEPT ![x] = pl]
        /\ Distinct(slot', obj')
        /\ present' = present \cup {pl.name}
    BY DEF join
  <1>2. slot \in [Index -> Obj \cup {NoObj}] /\ obj \in [Obj -> Players \cup {Zeroed}]
    BY DEF ReportOK
  <1>3. /\ slot' \in [Index -> Obj \cup {NoObj}] /\ slot'[k0] = x
        /\ \A k \in Index : k # k0 => slot'[k] = slot[k]
    BY <1>1, <1>2
  <1>4. /\ obj' \in [Obj -> Players \cup {Zeroed}] /\ obj'[x] = pl
        /\ \A y \in Obj : y # x => obj'[y] = obj[y]
    BY <1>1, <1>2
  <1>5. \A k \in Index : Occupied(k) => /\ k # k0 /\ slot[k] \in Obj
                                        /\ obj'[slot[k]] = obj[slot[k]]
                                        /\ obj[slot[k]] \in Players
    BY <1>1, <1>2, <1>4 DEF ReportOK, Occupied
  <1>6. x # NoObj
    BY NoObjAssumption
  <1>7. ASSUME NEW k \in Index, slot'[k] # NoObj
        PROVE  /\ obj'[slot'[k]] \in Players
               /\ \/ Occupied(k) /\ obj'[slot'[k]].name = Nm(k)
                  \/ /\ obj'[slot'[k]].name \in present'
                     /\ \A j \in Index : Occupied(j) => Nm(j) # obj'[slot'[k]].name
    <2>1. CASE k = k0
      <3>1. slot'[k] = x /\ obj'[slot'[k]] = pl
        BY <1>3, <1>4, <2>1
      <3>2. ASSUME NEW j \in Index, Occupied(j)
            PROVE  Nm(j) # pl.name
        <4>1. j # k /\ slot'[j] = slot[j] /\ slot'[j] # NoObj
          BY <1>3, <1>5, <2>1, <3>2 DEF Occupied
        <4>2. obj'[slot'[j]].name # obj'[slot'[k]].name
          BY <1>1, <1>7, <4>1, Zenon DEF Distinct
        <4> QED
          BY <1>5, <3>1, <3>2, <4>1, <4>2 DEF Nm
      <3> QED
        BY <1>1, <3>1, <3>2
    <2>2. CASE k # k0
      BY <1>3, <1>5, <1>7, <2>2 DEF Occupied, Nm
    <2> QED
      BY <2>1, <2>2
  <1>8. \A k \in Index : Occupied(k) => obj'[slot[k]].name = Nm(k)
    BY <1>5 DEF Nm
  <1>9. \A y \in Obj : obj'[y].name \in {obj[y].name, NoName} \cup present'
    BY <1>1, <1>4
  <1> QED
    BY <1>1, <1>3, <1>4, <1>7, <1>8, <1>9, Zenon DEF Moved

\* A player leaves.
LEMMA LeaveMoves ==
  ASSUME ReportOK, NEW k0 \in Index, leave(k0)
  PROVE  Moved
  <1>1. /\ slot[k0] # NoObj
        /\ slot' = [slot EXCEPT ![k0] = NoObj]
        /\ obj' = obj \/ obj' = [obj EXCEPT ![slot[k0]] = Zeroed]
        /\ present' = present
    BY DEF leave
  <1>2. slot \in [Index -> Obj \cup {NoObj}] /\ obj \in [Obj -> Players \cup {Zeroed}]
    BY DEF ReportOK
  <1>3. PICK x \in Obj : x = slot[k0]
    BY <1>1, <1>2
  <1>4. /\ slot' \in [Index -> Obj \cup {NoObj}] /\ slot'[k0] = NoObj
        /\ \A k \in Index : k # k0 => slot'[k] = slot[k]
    BY <1>1, <1>2
  <1>5. /\ obj' \in [Obj -> Players \cup {Zeroed}] /\ obj'[x] \in {obj[x], Zeroed}
        /\ \A y \in Obj : y # x => obj'[y] = obj[y]
    BY <1>1, <1>2, <1>3
  <1>6. ASSUME NEW k \in Index, slot'[k] # NoObj
        PROVE  /\ k # k0 /\ Occupied(k) /\ slot'[k] = slot[k]
               /\ obj'[slot'[k]] = obj[slot[k]] /\ obj[slot[k]] \in Players
    <2>1. k # k0 /\ slot'[k] = slot[k] /\ Occupied(k)
      BY <1>4, <1>6 DEF Occupied
    <2>2. slot[k] \in Obj /\ slot[k] # x
      BY <1>1, <1>3, <2>1, ObjectsDiffer DEF Occupied
    <2>3. obj[slot[k]] \in Players
      BY <2>1 DEF ReportOK
    <2> QED
      BY <1>5, <2>1, <2>2, <2>3
  <1>7. Distinct(slot', obj')
    <2> SUFFICES ASSUME NEW j \in Index, NEW k \in Index, j # k,
                        slot'[j] # NoObj, slot'[k] # NoObj
                 PROVE  slot'[j] # slot'[k] /\ obj'[slot'[j]].name # obj'[slot'[k]].name
      BY DEF Distinct
    <2>1. /\ slot'[j] = slot[j] /\ slot'[k] = slot[k] /\ Occupied(j) /\ Occupied(k)
          /\ obj'[slot'[j]] = obj[slot[j]] /\ obj'[slot'[k]] = obj[slot[k]]
      BY <1>6
    <2>2. slot[j] # slot[k] /\ Nm(j) # Nm(k)
      BY <2>1, ObjectsDiffer
    <2> QED
      BY <2>1, <2>2, Zenon DEF Nm
  <1>8. \A k \in Index : slot'[k] # NoObj =>
          /\ obj'[slot'[k]] \in Players
          /\ Occupied(k) /\ obj'[slot'[k]].name = Nm(k)
    BY <1>6, Zenon DEF Nm
  <1>9. \A k \in Index : Occupied(k) =>
          obj'[slot[k]].name = Nm(k) \/ obj'[slot[k]] = Zeroed
    BY <1>2, <1>5 DEF Nm, Occupied
  <1>10. \A y \in Obj : obj'[y].name \in {obj[y].name, NoName} \cup present'
    BY <1>5, PlayerRecords
  <1> QED
    BY <1>1, <1>4, <1>5, <1>7, <1>8, <1>9, <1>10, Zenon DEF Moved

\* A player goes over to another team.
LEMMA ChangeTeamMoves ==
  ASSUME ReportOK, NEW k0 \in Index, NEW t, changeTeam(k0, t)
  PROVE  Moved
  <1>1. /\ slot[k0] # NoObj /\ slot' = slot /\ present' = present
        /\ [obj[slot[k0]] EXCEPT !.team = t] \in Players
        /\ obj' = [obj EXCEPT ![slot[k0]] = [obj[slot[k0]] EXCEPT !.team = t]]
    BY DEF changeTeam
  <1>2. /\ slot \in [Index -> Obj \cup {NoObj}] /\ obj \in [Obj -> Players \cup {Zeroed}]
        /\ Distinct(slot, obj)
        /\ \A k \in Index : Occupied(k) => obj[slot[k]] \in Players
    BY DEF ReportOK
  <1>3. PICK x \in Obj : x = slot[k0]
    BY <1>1, <1>2
  <1>4. PICK pl \in Players : pl = [obj[x] EXCEPT !.team = t]
    BY <1>1, <1>3
  <1>5. pl.name = obj[x].name
    <2>1. obj[x] \in [name : STRING \ {NoName}, team : Int]
      BY <1>1, <1>2, <1>3, PlayersAssumption DEF Occupied
    <2> QED
      BY <1>4, <2>1
  <1>6. /\ obj' \in [Obj -> Players \cup {Zeroed}] /\ obj'[x] = pl
        /\ \A y \in Obj : y # x => obj'[y] = obj[y]
    <2>1. obj' = [obj EXCEPT ![x] = pl]
      BY <1>1, <1>3, <1>4
    <2> QED
      BY <1>2, <2>1
  <1>7. \A y \in Obj : obj'[y].name = obj[y].name
    BY <1>5, <1>6
  <1>8. \A k \in Index : Occupied(k) => /\ slot[k] \in Obj /\ obj'[slot[k]] \in Players
                                        /\ obj'[slot[k]].name = Nm(k)
    <2> SUFFICES ASSUME NEW k \in Index, Occupied(k)
                 PROVE  /\ slot[k] \in Obj /\ obj'[slot[k]] \in Players
                        /\ obj'[slot[k]].name = Nm(k)
      OBVIOUS
    <2>1. slot[k] \in Obj /\ obj[slot[k]] \in Players
      BY <1>2 DEF Occupied
    <2>2. obj'[slot[k]] \in Players
      BY <1>4, <1>6, <2>1
    <2> QED
      BY <1>7, <2>1, <2>2 DEF Nm
  <1>9. Distinct(slot', obj')
    <2> SUFFICES ASSUME NEW j \in Index, NEW k \in Index, j # k,
                        slot[j] # NoObj, slot[k] # NoObj
                 PROVE  slot[j] # slot[k] /\ obj'[slot[j]].name # obj'[slot[k]].name
      BY <1>1 DEF Distinct
    <2>1. Occupied(j) /\ Occupied(k)
      BY DEF Occupied
    <2> QED
      BY <1>8, <2>1, ObjectsDiffer
  <1> QED
    BY <1>1, <1>2, <1>6, <1>7, <1>8, <1>9 DEF Moved, Occupied

\* The pointers of a match change.
LEMMA SetPointersMoves ==
  ASSUME ReportOK, UNCHANGED <<slot, obj, present>>
  PROVE  Moved
  BY DEF Moved, ReportOK, Occupied, Nm

\* While the game stands still, whoever has a row is in a slot that was read.
LEMMA QuietRowNames ==
  ASSUME \A t \in 1 .. 2 : Lists(rows[t], t, i), NEW n, RowName(n)
  PROVE  \E k \in Index : k < i /\ Occupied(k) /\ Nm(k) = n
  <1>1. PICK t \in 1 .. 2 : \E j \in 1 .. Len(rows[t]) : rows[t][j].name = n
    BY DEF RowName
  <1>2. PICK j \in 1 .. Len(rows[t]) : rows[t][j].name = n
    BY <1>1
  <1>3. PICK at \in [1 .. Len(rows[t]) -> Index] :
          \A l \in 1 .. Len(rows[t]) :
            /\ at[l] < i /\ Shown(at[l], t)
            /\ rows[t][l] = [name |-> obj[slot[at[l]]].name, at |-> obj[slot[at[l]]].name]
    BY Zenon DEF Lists
  <1>4. at[j] \in Index /\ at[j] < i /\ Shown(at[j], t)
    BY <1>3
  <1>5. rows[t][j].name = Nm(at[j])
    <2>1. rows[t][j] = [name |-> Nm(at[j]), at |-> Nm(at[j])]
      BY <1>3, Zenon DEF Nm
    <2> QED
      BY <2>1
  <1> QED
    BY <1>2, <1>4, <1>5 DEF Shown, Named, Occupied

\* What is said of the rows alone stays true while they do.
LEMMA SameRows ==
  ASSUME rows' = rows
  PROVE  /\ RowsApart' <=> RowsApart
         /\ \A n : RowName(n)' <=> RowName(n)
  <1>1. RowsApart' <=> RowsApart
    BY Zenon DEF RowsApart
  <1>2. \A n : RowName(n)' <=> RowName(n)
    BY Zenon DEF RowName
  <1> QED
    BY <1>1, <1>2

\* What every step that leaves the handler alone keeps of it.
LEMMA HandlerStays ==
  ASSUME ReportOK, UNCHANGED <<pc, reqVars, walk, movedAt>>, moves' \in Nat, moves <= moves',
         manager' \in Pointers, local' \in Obj \cup {NoObj}, moves \in Nat,
         slot' \in [Index -> Obj \cup {NoObj}], obj' \in [Obj -> Players \cup {Zeroed}],
         \A k \in Index : slot'[k] # NoObj => obj'[slot'[k]] \in Players,
         Distinct(slot', obj')
  PROVE  ReportOK'
  <1>1. startedAt' \in Nat /\ startedAt' <= moves'
    BY DEF ReportOK, reqVars
  <1> QED
    BY <1>1 DEF ReportOK, reqVars, Occupied, Distinct

\* The players move.
LEMMA PlayersMoveKeeps ==
  ASSUME ReportInv, PlayersMove
  PROVE  ReportInv'
  <1>1. Moved
    <2>1. ReportOK
      BY DEF ReportInv
    <2>2. ASSUME NEW k \in Index, NEW x \in Obj, NEW pl \in Players, join(k, x, pl)
          PROVE  Moved
      BY <2>1, <2>2, JoinMoves
    <2>3. ASSUME NEW k \in Index, leave(k)
          PROVE  Moved
      BY <2>1, <2>3, LeaveMoves
    <2>4. ASSUME NEW k \in Index, NEW t, changeTeam(k, t)
          PROVE  Moved
      BY <2>1, <2>4, ChangeTeamMoves
    <2>5. ASSUME NEW p, NEW x, setPointers(p, x)
          PROVE  Moved
      <3>1. UNCHANGED <<slot, obj, present>>
        BY <2>5 DEF setPointers
      <3> QED
        BY <2>1, <3>1, SetPointersMoves
    <2> QED
      BY <2>2, <2>3, <2>4, <2>5, Zenon DEF PlayersMove
  <1>2. /\ Move
        /\ \/ manager' = manager /\ local' = local
           \/ manager' \in Pointers /\ local' \in Obj \cup {NoObj}
    BY Zenon DEF PlayersMove, join, leave, changeTeam, setPointers
  <1>3. moves' = moves + 1 /\ UNCHANGED <<pc, reqVars, points, link, walkVars>>
    BY <1>2 DEF Move
  <1>4. WalkInv'
    BY <1>3, MoveKeeps DEF ReportInv
  <1>5. moves \in Nat /\ startedAt \in Nat /\ startedAt <= moves
    BY DEF ReportInv, ReportOK, WalkInv, WalkOK
  <1>6. ReportOK'
    <2>1. manager' \in Pointers /\ local' \in Obj \cup {NoObj}
      BY <1>2 DEF ReportInv, ReportOK
    <2>2. moves' \in Nat /\ moves <= moves'
      BY <1>3, <1>5
    <2>3. UNCHANGED <<pc, reqVars, walk, movedAt>>
      BY <1>3 DEF walkVars
    <2> QED
      BY <1>1, <1>5, <2>1, <2>2, <2>3, HandlerStays DEF ReportInv, Moved
  <1>7. UNCHANGED <<pc, startedAt, i, o, name, rows>>
    BY <1>3 DEF reqVars
  <1>8. Seen'
    <2>1. Seen /\ (pc = "name" => o \in Obj)
      BY DEF ReportInv, ReportOK
    <2>2. ASSUME pc # "gameManager"
          PROVE  InSlots' \subseteq present'
      <3> SUFFICES ASSUME NEW k \in Index, slot'[k] # NoObj
                   PROVE  obj'[slot'[k]].name \in present'
        BY DEF InSlots
      <3>1. \/ Occupied(k) /\ obj'[slot'[k]].name = Nm(k)
            \/ obj'[slot'[k]].name \in present'
        BY <1>1, Zenon DEF Moved
      <3>2. Occupied(k) => Nm(k) \in present
        BY <2>1, <2>2 DEF Seen, InSlots, Occupied, Nm
      <3>3. present \subseteq present'
        BY <1>1, Zenon DEF Moved
      <3> QED
        BY <3>1, <3>2, <3>3
    <2>3. pc = "name" => obj'[o].name \in present' \cup {NoName}
      <3>1. /\ present \subseteq present'
            /\ \A x \in Obj : obj'[x].name \in {obj[x].name, NoName} \cup present'
        BY <1>1, Zenon DEF Moved
      <3> QED
        BY <2>1, <3>1 DEF Seen
    <2>4. present \subseteq present'
      BY <1>1, Zenon DEF Moved
    <2>5. NoGhostRows'
      BY <1>7, <2>1, <2>4 DEF Seen, NoGhostRows
    <2> QED
      BY <1>7, <2>1, <2>2, <2>3, <2>4, <2>5 DEF Seen
  <1>9. Snapshot'
    <2>1. moves' # startedAt'
      BY <1>3, <1>5, <1>7
    <2> QED
      BY <2>1, Zenon DEF Snapshot
  <1>10. Apart'
    <2> SUFFICES ASSUME moves = startedAt
                 PROVE  Apart'
      BY <1>3, <1>5, <1>7 DEF Apart
    <2>1. /\ RowsApart
          /\ \A k \in Index : Ahead(k) /\ Occupied(k) => ~RowName(Nm(k))
          /\ pc = "name" =>
               /\ ~RowName(obj[o].name)
               /\ \A k \in Index : Ahead(k) /\ Occupied(k) => Nm(k) # obj[o].name
          /\ pc = "team" =>
               /\ ~RowName(name)
               /\ obj[o].name = name \/ obj[o] = Zeroed
               /\ \A k \in Index : Ahead(k) /\ Occupied(k) => Nm(k) # name
      BY <1>5 DEF ReportInv, Apart
    <2>2. RowsApart' /\ (\A k : Ahead(k)' <=> Ahead(k)) /\ (\A n : RowName(n)' <=> RowName(n))
      <3>1. RowsApart'
        <4>1. rows' = rows /\ RowsApart
          BY <1>7, <2>1
        <4> QED
          BY <4>1, SameRows
      <3>2. \A k : Ahead(k)' <=> Ahead(k)
        BY <1>7, Zenon DEF Ahead
      <3>3. \A n : RowName(n)' <=> RowName(n)
        BY <1>7, Zenon DEF RowName
      <3> QED
        BY <3>1, <3>2, <3>3
    <2>3. \A n : pc \in AtSlot /\ RowName(n) =>
                   \E k \in Index : k < i /\ Occupied(k) /\ Nm(k) = n
      BY QuietRowNames DEF ReportInv, Snapshot
    <2>4. \A k \in Index : slot'[k] # NoObj =>
            \/ Occupied(k) /\ obj'[slot'[k]].name = Nm(k)
            \/ \A j \in Index : Occupied(j) => Nm(j) # obj'[slot'[k]].name
      BY <1>1, Zenon DEF Moved
    <2>5. \A k \in Index : Ahead(k) => pc \in AtSlot
      BY DEF Ahead, AtSlot
    <2>6. \A k \in Index : Ahead(k) /\ slot'[k] # NoObj => ~RowName(obj'[slot'[k]].name)
      BY <2>1, <2>3, <2>4, <2>5, Zenon
    <2>7. \A k \in Index : slot'[k] # NoObj => obj'[slot'[k]].name # NoName
      BY <1>1, PlayerRecords DEF Moved
    <2>8. ~RowName(NoName)
      BY DEF ReportInv, ReportOK, RowName
    <2>9. ASSUME pc \in {"name", "team"}
          PROVE  /\ i \in Index /\ Occupied(i) /\ Nm(i) = obj[o].name
                 /\ obj'[o].name = Nm(i) \/ obj'[o] = Zeroed
                 /\ \A k \in Index : Ahead(k) /\ slot'[k] # NoObj =>
                      obj'[slot'[k]].name # Nm(i)
      <3>1. o = slot[i] /\ o \in Obj /\ i \in Index
        <4>1. o = slot[i]
          BY <2>9, Zenon DEF ReportInv, Snapshot
        <4>2. o \in Obj /\ i \in Nat /\ i < Slots
          BY <2>9 DEF ReportInv, ReportOK, AtSlot
        <4> QED
          BY <4>1, <4>2, SlotsAssumption DEF Index
      <3>2. Occupied(i) /\ Nm(i) = obj[o].name
        BY <3>1, NoObjAssumption DEF Occupied, Nm
      <3>3. obj'[o].name = Nm(i) \/ obj'[o] = Zeroed
        BY <1>1, <3>1, <3>2, Zenon DEF Moved
      <3>4. \A k \in Index : Ahead(k) /\ Occupied(k) => Nm(k) # Nm(i)
        <4> SUFFICES ASSUME NEW k \in Index, Ahead(k), Occupied(k) PROVE Nm(k) # Nm(i)
          OBVIOUS
        <4>1. k # i
          BY <2>9, <3>1 DEF Ahead, Index
        <4> QED
          BY <3>1, <3>2, <4>1, ObjectsDiffer DEF ReportInv
      <3> QED
        BY <2>4, <3>1, <3>2, <3>3, <3>4, Zenon
    <2>10. pc = "name" =>
             /\ ~RowName(obj'[o].name)
             /\ \A k \in Index : Ahead(k) /\ slot'[k] # NoObj =>
                  obj'[slot'[k]].name # obj'[o].name
      <3>1. Zeroed.name = NoName
        BY PlayerRecords
      <3> SUFFICES ASSUME pc = "name"
                   PROVE  /\ ~RowName(obj'[o].name)
                          /\ \A k \in Index : Ahead(k) /\ slot'[k] # NoObj =>
                               obj'[slot'[k]].name # obj'[o].name
        OBVIOUS
      <3>2. pc \in {"name", "team"}
        OBVIOUS
      <3>3. CASE obj'[o] = Zeroed
        BY <2>7, <2>8, <3>1, <3>3, Zenon
      <3>4. CASE obj'[o].name = Nm(i)
        <4>1. obj'[o].name = obj[o].name
          BY <2>9, <3>2, <3>4, Zenon
        <4>2. ~RowName(obj[o].name)
          BY <2>1, Zenon
        <4> QED
          BY <2>9, <3>2, <3>4, <4>1, <4>2, Zenon
      <3> QED
        BY <2>9, <3>2, <3>3, <3>4, Zenon
    <2>11. pc = "team" =>
             /\ ~RowName(name)
             /\ obj'[o].name = name \/ obj'[o] = Zeroed
             /\ \A k \in Index : Ahead(k) /\ slot'[k] # NoObj => obj'[slot'[k]].name # name
      <3>1. pc = "team" => name = obj[o].name
        BY DEF ReportInv, Snapshot
      <3>2. pc = "team" => pc \in {"name", "team"}
        OBVIOUS
      <3> QED
        BY <2>1, <2>9, <3>1, <3>2, Zenon
    <2> QED
      BY <1>7, <2>2, <2>6, <2>10, <2>11, Zenon DEF Apart, Occupied, Nm
  <1> QED
    BY <1>4, <1>6, <1>8, <1>9, <1>10 DEF ReportInv

\* The capture points move.
LEMMA PointsMoveKeeps ==
  ASSUME ReportInv, PointsMove
  PROVE  ReportInv'
  <1>1. PICK e \in Entity : create(e) \/ destroy(e)
    BY Zenon DEF PointsMove, Game
  <1>2. UNCHANGED <<playerVars, pc, reqVars, present>>
    BY DEF PointsMove
  <1>3. WalkInv'
    BY <1>1, CreateKeeps, DestroyKeeps, Zenon DEF ReportInv
  <1>4. moves' = moves + 1 /\ walk' = walk /\ movedAt' = movedAt
    BY <1>1 DEF create, destroy
  <1>5. moves \in Nat /\ startedAt \in Nat /\ startedAt <= moves
    BY DEF ReportInv, ReportOK, WalkInv, WalkOK
  <1>6. /\ UNCHANGED <<manager, slot, local, obj, pc, startedAt, i, o, name, local_name,
                       local_player, rows, present>>
    BY <1>2 DEF playerVars, reqVars
  <1>7. ReportOK'
    <2>1. startedAt' \in Nat /\ startedAt' <= moves'
      BY <1>4, <1>5, <1>6
    <2> QED
      BY <1>4, <1>6, <2>1 DEF ReportInv, ReportOK, Occupied, Distinct
  <1>8. Seen'
    BY <1>6 DEF ReportInv, Seen, NoGhostRows, InSlots
  <1>9. Snapshot'
    <2>1. moves' # startedAt'
      BY <1>4, <1>5, <1>6
    <2> QED
      BY <2>1, Zenon DEF Snapshot
  <1>10. Apart'
    <2> SUFFICES ASSUME moves < startedAt + 2
                 PROVE  Apart'
      BY <1>4, <1>5, <1>6 DEF Apart
    <2>1. RowsApart' <=> RowsApart
      BY <1>6, SameRows
    <2>2. \A n : RowName(n)' <=> RowName(n)
      BY <1>6, SameRows
    <2> QED
      BY <1>6, <2>1, <2>2, Zenon DEF ReportInv, Apart, Ahead, Occupied, Nm
  <1> QED
    BY <1>3, <1>7, <1>8, <1>9, <1>10 DEF ReportInv

-----------------------------------------------------------------------------
(* The handler's steps. *)

\* What is said of the players alone stays true while they do not move.
LEMMA PlayersStay ==
  ASSUME UNCHANGED playerVars
  PROVE  /\ manager' = manager /\ slot' = slot /\ local' = local /\ obj' = obj
         /\ InSlots' = InSlots /\ LocalName' = LocalName
         /\ Named(local)' <=> Named(local)
         /\ \A k : (Occupied(k)' <=> Occupied(k)) /\ Nm(k)' = Nm(k)
         /\ \A s, t, n : Lists(s, t, n)' <=> Lists(s, t, n)
  <1>1. manager' = manager /\ slot' = slot /\ local' = local /\ obj' = obj
    BY DEF playerVars
  <1>2. \A x : Named(x)' <=> Named(x)
    BY <1>1 DEF Named
  <1>3. LocalName' = LocalName /\ (Named(local)' <=> Named(local))
    BY <1>1 DEF LocalName, Named
  <1>4. \A k, t : Shown(k, t)' <=> Shown(k, t)
    BY <1>1, <1>3, Zenon DEF Shown, Named
  <1>5. \A s, t, n : Lists(s, t, n)' <=> Lists(s, t, n)
    <2> TAKE s, t, n
    <2> DEFINE row_at(k) == [name |-> obj[slot[k]].name, at |-> obj[slot[k]].name]
               P(at) ==
                 /\ \A j \in 1 .. Len(s) : at[j] < n /\ Shown(at[j], t) /\ s[j] = row_at(at[j])
                 /\ \A j, k \in 1 .. Len(s) : j < k => at[j] < at[k]
                 /\ \A k \in Index : k < n /\ Shown(k, t) => \E j \in 1 .. Len(s) : at[j] = k
    <2>1. Lists(s, t, n) <=> \E at \in [1 .. Len(s) -> Index] : P(at)
      BY Zenon DEF Lists
    <2>2. Lists(s, t, n)' <=> \E at \in [1 .. Len(s) -> Index] : P(at)'
      BY Zenon DEF Lists
    <2>3. \A k : row_at(k)' = row_at(k)
      BY <1>1, Zenon
    <2> HIDE DEF row_at
    <2>4. \A at : P(at)' <=> P(at)
      BY <1>4, <2>3, Zenon
    <2> QED
      BY <2>1, <2>2, <2>4, Zenon
  <1>6. InSlots' = InSlots
    BY <1>1 DEF InSlots
  <1>7. \A k : (Occupied(k)' <=> Occupied(k)) /\ Nm(k)' = Nm(k)
    BY <1>1, Zenon DEF Occupied, Nm
  <1> QED
    BY <1>1, <1>3, <1>5, <1>6, <1>7

\* What ReportOK says of the players and the walk, while they stay.
LEMMA ReportOKStays ==
  ASSUME ReportOK, UNCHANGED playerVars,
         pc' \in Before \cup AtSlot \cup Failed \cup {"flags", "success"},
         startedAt' \in Nat, startedAt' <= moves', i' \in Nat,
         pc' \in AtSlot => i' < Slots,
         pc' \in {"flags", "success"} => i' = Slots,
         pc' \in {"name", "team"} => o' \in Obj,
         local_player' \in Row,
         rows' \in [1 .. 2 -> Seq(Row)],
         pc' \in Before => rows' = [t \in 1 .. 2 |-> << >>] /\ local_player'.at = None,
         pc' \in {"gameManager", "playerManager", "localPlayer"} => local_player'.name = None,
         pc' = "team" => name' \in Names \ {NoName},
         \A t \in 1 .. 2 : \A n \in 1 .. Len(rows'[t]) : rows'[t][n].name # NoName,
         walk' # "idle" => pc' \in {"flags", "success", "500"} /\ startedAt' <= movedAt',
         pc' = "success" => walk' = "ok"
  PROVE  ReportOK'
  <1>1. manager' = manager /\ slot' = slot /\ obj' = obj /\ local' = local
    BY DEF playerVars
  <1>2. /\ manager' \in Pointers /\ local' \in Obj \cup {NoObj}
        /\ slot' \in [Index -> Obj \cup {NoObj}]
        /\ obj' \in [Obj -> Players \cup {Zeroed}]
        /\ \A k \in Index : Occupied(k)' => obj'[slot'[k]] \in Players
        /\ Distinct(slot', obj')
    BY <1>1, Zenon DEF ReportOK, Occupied
  <1> QED
    BY <1>2, Zenon DEF ReportOK, Distinct

\* There are no rows yet.
LEMMA NoRows ==
  ASSUME rows = [t \in 1 .. 2 |-> << >>]
  PROVE  /\ rows \in [1 .. 2 -> Seq(Row)]
         /\ \A t \in 1 .. 2 : Len(rows[t]) = 0
         /\ \A n : ~RowName(n)
         /\ RowsApart /\ NoGhostRows
         /\ \A t \in 1 .. 2 : Lists(rows[t], t, 0)
  <1>1. \A t \in 1 .. 2 : rows[t] = << >> /\ Len(rows[t]) = 0
    OBVIOUS
  <1>2. rows \in [1 .. 2 -> Seq(Row)]
    OBVIOUS
  <1>3. \A t \in 1 .. 2 : Lists(rows[t], t, 0)
    <2> TAKE t \in 1 .. 2
    <2> DEFINE at == [j \in 1 .. Len(rows[t]) |-> 0]
    <2>1. Len(rows[t]) = 0
      BY <1>1
    <2>2. at \in [1 .. Len(rows[t]) -> Index]
      BY <2>1
    <2>3. \A k \in Index : ~(k < 0)
      BY SlotsAssumption DEF Index
    <2>4. \A j \in 1 .. Len(rows[t]) : FALSE
      BY <2>1
    <2> HIDE DEF at
    <2> QED
      BY <2>2, <2>3, <2>4, Zenon DEF Lists
  <1>4. \A n : ~RowName(n)
    BY <1>1 DEF RowName
  <1>5. RowsApart
    BY <1>1 DEF RowsApart
  <1>6. NoGhostRows
    BY <1>1 DEF NoGhostRows
  <1> QED
    BY <1>1, <1>2, <1>3, <1>4, <1>5, <1>6

\* Before the first slot is read there is little to keep apart.
LEMMA ApartEarly ==
  ASSUME RowsApart, pc \notin AtSlot
  PROVE  Apart
  BY DEF Apart, Ahead, AtSlot

\* construct_player_manager's first pointer: the request begins.
LEMMA GameManagerKeeps ==
  ASSUME ReportInv, gameManager
  PROVE  ReportInv'
  <1>1. /\ pc = "gameManager" /\ startedAt' = moves /\ present' = InSlots
        /\ pc' = IF manager.gameManager THEN "playerManager" ELSE "bad client game manager"
        /\ UNCHANGED <<i, o, name, local_name, local_player, rows>>
    BY DEF gameManager
  <1>2. ReportOK /\ moves \in Nat /\ walk = "idle"
    BY <1>1 DEF ReportInv, ReportOK, WalkInv, WalkOK
  <1>3. WalkInv' /\ moves' = moves /\ walk' = walk /\ UNCHANGED playerVars
    BY IdleWalk DEF ReportInv, vars, gameManager
  <1>4. /\ rows = [t \in 1 .. 2 |-> << >>] /\ i \in Nat
        /\ local_player.at = None /\ local_player.name = None
    BY <1>1, <1>2 DEF ReportOK, Before
  <1>5. RowsApart' /\ NoGhostRows'
    <2>1. RowsApart
      BY <1>4, NoRows
    <2>2. \A t \in 1 .. 2 : Len(rows'[t]) = 0
      BY <1>1, <1>4, NoRows
    <2>3. rows' = rows
      BY <1>1, Zenon
    <2>4. RowsApart'
      BY <2>1, <2>3, SameRows
    <2>5. NoGhostRows'
      BY <2>2 DEF NoGhostRows
    <2> QED
      BY <2>4, <2>5
  <1>6. pc' \in {"playerManager", "bad client game manager"}
    BY <1>1
  <1>7. ReportOK'
    <2>1. startedAt' \in Nat /\ startedAt' <= moves'
      <3>1. startedAt' = moves /\ moves' = moves /\ moves \in Nat
        BY <1>1, <1>2, <1>3, Zenon
      <3> QED
        BY <3>1
    <2>2. /\ pc' \in Before \cup AtSlot \cup Failed \cup {"flags", "success"}
          /\ pc' \notin AtSlot \cup {"flags", "success", "name", "team"}
      BY <1>6 DEF Before, AtSlot, Failed
    <2>3. /\ local_player' \in Row
          /\ \A t \in 1 .. 2 : \A n \in 1 .. Len(rows'[t]) : rows'[t][n].name # NoName
      BY <1>1, <1>2 DEF ReportOK
    <2>4. rows' \in [1 .. 2 -> Seq(Row)]
      BY <1>1, <1>4, NoRows
    <2> QED
      BY <1>1, <1>2, <1>3, <1>4, <2>1, <2>2, <2>3, <2>4, ReportOKStays
  <1>8. Seen'
    BY <1>1, <1>3, <1>5, <1>6, PlayersStay DEF Seen
  <1>9. Snapshot'
    BY <1>1, <1>3, <1>6, PlayersStay DEF Snapshot, AtSlot
  <1>10. Apart'
    BY <1>5, <1>6 DEF Apart, Ahead
  <1> QED
    BY <1>3, <1>7, <1>8, <1>9, <1>10 DEF ReportInv

\* construct_player_manager's second pointer.
LEMMA PlayerManagerKeeps ==
  ASSUME ReportInv, playerManager
  PROVE  ReportInv'
  <1>1. /\ pc = "playerManager"
        /\ pc' = IF manager.playerManager THEN "localPlayer" ELSE "bad client player manager"
        /\ UNCHANGED <<startedAt, i, o, name, local_name, local_player, rows, present>>
    BY DEF playerManager, reqVars
  <1>2. ReportOK /\ moves \in Nat /\ walk = "idle" /\ manager \in Pointers
    BY <1>1 DEF ReportInv, ReportOK, WalkInv, WalkOK
  <1>3. WalkInv' /\ moves' = moves /\ walk' = walk /\ UNCHANGED playerVars
    BY IdleWalk DEF ReportInv, vars, playerManager
  <1>4. /\ rows = [t \in 1 .. 2 |-> << >>] /\ i \in Nat
        /\ local_player.at = None /\ local_player.name = None
    BY <1>1, <1>2 DEF ReportOK, Before
  <1>5. rows' = rows /\ RowsApart /\ NoGhostRows
    BY <1>1, <1>4, NoRows, Zenon
  <1>6. pc' \in {"localPlayer", "bad client player manager"}
    BY <1>1
  <1>7. ReportOK'
    <2>1. startedAt' \in Nat /\ startedAt' <= moves'
      <3>1. startedAt' = startedAt /\ moves' = moves /\ startedAt \in Nat /\ startedAt <= moves
        BY <1>1, <1>2, <1>3, Zenon DEF ReportOK
      <3> QED
        BY <3>1
    <2>2. /\ pc' \in Before \cup AtSlot \cup Failed \cup {"flags", "success"}
          /\ pc' \notin AtSlot \cup {"flags", "success", "name", "team"}
      BY <1>6 DEF Before, AtSlot, Failed
    <2>3. /\ local_player' \in Row
          /\ \A t \in 1 .. 2 : \A n \in 1 .. Len(rows'[t]) : rows'[t][n].name # NoName
      BY <1>1, <1>2 DEF ReportOK
    <2>4. rows' \in [1 .. 2 -> Seq(Row)]
      BY <1>1, <1>4, NoRows
    <2> QED
      BY <1>1, <1>2, <1>3, <1>4, <2>1, <2>2, <2>3, <2>4, ReportOKStays
  <1>8. Seen'
    <2>1. InSlots' = InSlots /\ InSlots \subseteq present
      BY <1>1, <1>3, PlayersStay DEF ReportInv, Seen
    <2>2. NoGhostRows'
      BY <1>1, <1>5 DEF NoGhostRows
    <2> QED
      BY <1>1, <1>6, <2>1, <2>2 DEF Seen
  <1>9. Snapshot'
    <2> SUFFICES ASSUME moves = startedAt PROVE Snapshot'
      BY <1>1, <1>3 DEF Snapshot
    <2>1. manager' = manager /\ manager.gameManager
      <3>1. Snapshot
        BY DEF ReportInv
      <3>2. pc \notin {"gameManager", "bad client game manager"}
        BY <1>1
      <3> QED
        BY <1>3, <3>1, <3>2, PlayersStay, Zenon DEF Snapshot
    <2>2. manager.playerManager <=> pc' = "localPlayer"
      BY <1>1
    <2> QED
      BY <1>6, <2>1, <2>2 DEF Snapshot, AtSlot
  <1>10. Apart'
    <2>1. RowsApart'
      BY <1>5, SameRows
    <2> QED
      BY <1>6, <2>1 DEF Apart, Ahead
  <1> QED
    BY <1>3, <1>7, <1>8, <1>9, <1>10 DEF ReportInv

\* read_local_player.
LEMMA ReadLocalPlayerKeeps ==
  ASSUME ReportInv, read_local_player
  PROVE  ReportInv'
  <1>1. /\ pc = "localPlayer"
        /\ UNCHANGED <<startedAt, i, o, name, rows, present>>
    BY DEF read_local_player
  <1>2. \/ /\ Named(local) /\ local_name' = obj[local].name
           /\ local_player' = [local_player EXCEPT !.name = obj[local].name]
           /\ pc' = "players"
        \/ /\ ~Named(local) /\ local_name' = "" /\ local_player' = local_player
           /\ pc' = "players"
        \/ /\ local = NoObj /\ local_player' = local_player /\ pc' = "500"
    BY Zenon DEF read_local_player
  <1>3. WalkInv' /\ moves' = moves /\ walk' = walk /\ UNCHANGED playerVars
    BY IdleWalk DEF ReportInv, vars, read_local_player
  <1>4. ReportOK /\ moves \in Nat /\ walk = "idle"
    BY <1>1 DEF ReportInv, ReportOK, WalkInv, WalkOK
  <1>5. /\ rows = [t \in 1 .. 2 |-> << >>] /\ local_player.at = None /\ i \in Nat
        /\ local_player \in Row /\ obj \in [Obj -> Players \cup {Zeroed}]
    BY <1>1, <1>4 DEF ReportOK, Before
  <1>6. rows' = rows /\ RowsApart /\ NoGhostRows
    BY <1>1, <1>5, NoRows, Zenon
  <1>7. pc' \in {"players", "500"}
    BY <1>2
  <1>8. local_player' \in Row /\ local_player'.at = None
    <2>1. CASE Named(local) /\ local_player' = [local_player EXCEPT !.name = obj[local].name]
      <3>1. PICK n : n = obj[local].name
        OBVIOUS
      <3>2. n \in Names
        BY <1>4, <1>5, <2>1, <3>1, PlayerRecords DEF ReportOK, Named
      <3>3. local_player' = [local_player EXCEPT !.name = n]
        BY <2>1, <3>1, Zenon
      <3> QED
        BY <1>5, <3>2, <3>3 DEF Row
    <2>2. CASE local_player' = local_player
      BY <1>5, <2>2
    <2> QED
      BY <1>2, <2>1, <2>2, Zenon
  <1>9. ReportOK'
    <2>1. startedAt' \in Nat /\ startedAt' <= moves'
      <3>1. startedAt' = startedAt /\ moves' = moves /\ startedAt \in Nat /\ startedAt <= moves
        BY <1>1, <1>3, <1>4, Zenon DEF ReportOK
      <3> QED
        BY <3>1
    <2>2. /\ pc' \in Before \cup AtSlot \cup Failed \cup {"flags", "success"}
          /\ pc' \notin AtSlot \cup {"flags", "success", "name", "team"}
          /\ pc' \notin {"gameManager", "playerManager", "localPlayer"}
      BY <1>7 DEF Before, AtSlot, Failed
    <2>3. \A t \in 1 .. 2 : \A n \in 1 .. Len(rows'[t]) : rows'[t][n].name # NoName
      BY <1>1, <1>4 DEF ReportOK
    <2>4. rows' \in [1 .. 2 -> Seq(Row)]
      BY <1>1, <1>5, NoRows
    <2> QED
      BY <1>1, <1>3, <1>4, <1>5, <1>8, <2>1, <2>2, <2>3, <2>4, ReportOKStays
  <1>10. Seen'
    <2>1. InSlots' = InSlots /\ InSlots \subseteq present
      BY <1>1, <1>3, PlayersStay DEF ReportInv, Seen
    <2>2. NoGhostRows'
      BY <1>1, <1>6 DEF NoGhostRows
    <2> QED
      BY <1>1, <1>7, <2>1, <2>2 DEF Seen
  <1>11. Snapshot'
    <2> SUFFICES ASSUME moves = startedAt PROVE Snapshot'
      BY <1>1, <1>3 DEF Snapshot
    <2>1. manager' = manager /\ manager.gameManager /\ manager.playerManager
      <3>1. Snapshot
        BY DEF ReportInv
      <3>2. pc \notin {"gameManager", "bad client game manager", "playerManager",
                       "bad client player manager"}
        BY <1>1
      <3> QED
        BY <1>3, <3>1, <3>2, PlayersStay, Zenon DEF Snapshot
    <2>2. local' = local /\ LocalName' = LocalName /\ (Named(local)' <=> Named(local))
      BY <1>3, PlayersStay
    <2>3. CASE pc' = "500"
      <3>1. local' = NoObj
        BY <1>2, <2>2, <2>3
      <3> QED
        BY <2>1, <2>3, <3>1 DEF Snapshot, AtSlot
    <2>4. CASE pc' = "players"
      <3>1. /\ local_name' = LocalName
            /\ local_player'.name = IF Named(local) THEN LocalName ELSE None
        <4>1. CASE Named(local)
          <5>1. PICK n : n = obj[local].name
            OBVIOUS
          <5>2. local_name' = n /\ local_player' = [local_player EXCEPT !.name = n]
            <6>1. local # NoObj /\ pc' # "500"
              BY <2>4, <4>1 DEF Named
            <6> QED
              BY <1>2, <4>1, <5>1, <6>1, Zenon
          <5>3. local_player'.name = n
            BY <1>5, <5>2 DEF Row
          <5> QED
            BY <4>1, <5>1, <5>2, <5>3, Zenon DEF LocalName
        <4>2. CASE ~Named(local)
          <5>1. local_name' = "" /\ local_player' = local_player
            BY <1>2, <2>4, <4>2
          <5>2. local_player.name = None
            BY <1>1 DEF ReportInv, ReportOK
          <5> QED
            BY <4>2, <5>1, <5>2, Zenon DEF LocalName
        <4> QED
          BY <4>1, <4>2
      <3> QED
        BY <2>1, <2>2, <2>4, <3>1, Zenon DEF Snapshot, AtSlot
    <2> QED
      BY <1>7, <2>3, <2>4
  <1>12. Apart'
    <2>1. RowsApart'
      BY <1>6, SameRows
    <2> QED
      BY <1>7, <2>1 DEF Apart, Ahead
  <1> QED
    BY <1>3, <1>9, <1>10, <1>11, <1>12 DEF ReportInv

\* A team's list, named before and after a step that leaves the players alone.
LEMMA ListsAfter ==
  ASSUME UNCHANGED playerVars, NEW t, Lists(rows'[t], t, i')
  PROVE  Lists(rows[t], t, i)'
  <1> DEFINE Q(s, n) ==
        \E at \in [1 .. Len(s) -> Index] :
          /\ \A j \in 1 .. Len(s) : /\ at[j] < n /\ Shown(at[j], t)'
                                    /\ s[j] = [name |-> obj'[slot'[at[j]]].name,
                                               at   |-> obj'[slot'[at[j]]].name]
          /\ \A j, k \in 1 .. Len(s) : j < k => at[j] < at[k]
          /\ \A k \in Index : k < n /\ Shown(k, t)' => \E j \in 1 .. Len(s) : at[j] = k
  <1>1. PICK s, n : s = rows'[t] /\ n = i' /\ Lists(s, t, n)
    OBVIOUS
  <1>2. Lists(s, t, n)'
    BY <1>1, PlayersStay
  <1>3. Q(s, n)
    BY <1>2, Zenon DEF Lists
  <1>4. Q(rows'[t], i')
    <2> HIDE DEF Q
    <2> QED
      BY <1>1, <1>3
  <1> QED
    BY <1>4, Zenon DEF Lists

\* player_manager.players().
LEMMA PlayersKeeps ==
  ASSUME ReportInv, players
  PROVE  ReportInv'
  <1>1. /\ pc = "players" /\ i' = 0
        /\ pc' = IF manager.playerList THEN "clientPlayerAt" ELSE "500"
        /\ UNCHANGED <<startedAt, o, name, local_name, local_player, rows, present>>
    BY DEF players
  <1>2. ReportOK /\ moves \in Nat /\ walk = "idle"
    BY <1>1 DEF ReportInv, ReportOK, WalkInv, WalkOK
  <1>3. WalkInv' /\ moves' = moves /\ walk' = walk /\ UNCHANGED playerVars
    BY IdleWalk DEF ReportInv, vars, players
  <1>4. /\ rows = [t \in 1 .. 2 |-> << >>] /\ local_player.at = None
        /\ rows' = rows /\ RowsApart /\ NoGhostRows
    <2>1. rows = [t \in 1 .. 2 |-> << >>] /\ local_player.at = None
      BY <1>1, <1>2 DEF ReportOK, Before
    <2> QED
      BY <1>1, <2>1, NoRows, Zenon
  <1>5. pc' \in {"clientPlayerAt", "500"}
    BY <1>1
  <1>6. ReportOK'
    <2>1. startedAt' \in Nat /\ startedAt' <= moves'
      <3>1. startedAt' = startedAt /\ moves' = moves /\ startedAt \in Nat /\ startedAt <= moves
        BY <1>1, <1>2, <1>3, Zenon DEF ReportOK
      <3> QED
        BY <3>1
    <2>2. /\ pc' \in Before \cup AtSlot \cup Failed \cup {"flags", "success"}
          /\ pc' \notin Before \cup {"flags", "success", "name", "team"}
          /\ pc' \notin {"gameManager", "playerManager", "localPlayer"}
      BY <1>5 DEF Before, AtSlot, Failed
    <2>3. /\ local_player' \in Row
          /\ \A t \in 1 .. 2 : \A n \in 1 .. Len(rows'[t]) : rows'[t][n].name # NoName
      BY <1>1, <1>2 DEF ReportOK
    <2>4. rows' \in [1 .. 2 -> Seq(Row)]
      BY <1>4, NoRows
    <2>5. i' \in Nat /\ i' < Slots
      BY <1>1, SlotsAssumption
    <2> QED
      BY <1>2, <1>3, <2>1, <2>2, <2>3, <2>4, <2>5, ReportOKStays
  <1>7. Seen'
    <2>1. InSlots' = InSlots /\ InSlots \subseteq present
      BY <1>1, <1>3, PlayersStay DEF ReportInv, Seen
    <2>2. NoGhostRows'
      BY <1>1, <1>4 DEF NoGhostRows
    <2> QED
      BY <1>1, <1>5, <2>1, <2>2 DEF Seen
  <1>8. Snapshot'
    <2> SUFFICES ASSUME moves = startedAt PROVE Snapshot'
      BY <1>1, <1>3 DEF Snapshot
    <2>1. /\ manager.gameManager /\ manager.playerManager /\ local_name = LocalName
          /\ local_player.name = IF Named(local) THEN LocalName ELSE None
      <3>1. Snapshot
        BY DEF ReportInv
      <3>2. /\ pc \notin {"gameManager", "bad client game manager", "playerManager",
                          "bad client player manager"}
            /\ pc \in AtSlot \cup {"players", "flags", "success"}
        BY <1>1
      <3> QED
        BY <3>1, <3>2, Zenon DEF Snapshot
    <2>2. /\ manager' = manager /\ local' = local /\ LocalName' = LocalName
          /\ Named(local)' <=> Named(local)
      BY <1>3, PlayersStay
    <2>3. CASE manager.playerList
      <3>1. pc' = "clientPlayerAt"
        BY <1>1, <2>3
      <3>2. \A t \in 1 .. 2 : Lists(rows'[t], t, i')
        BY <1>1, <1>4, NoRows, Zenon
      <3>3. \A t \in 1 .. 2 : Lists(rows[t], t, i)'
        BY <1>3, <3>2, ListsAfter
      <3>4. \A k \in Index : ~(k < i')
        BY <1>1, SlotsAssumption DEF Index
      <3>5. local_player'.at = None
        BY <1>1, <1>4
      <3> QED
        BY <1>1, <2>1, <2>2, <2>3, <3>1, <3>3, <3>4, <3>5, Zenon DEF Snapshot, AtSlot
    <2>4. CASE ~manager.playerList
      <3>1. pc' = "500"
        BY <1>1, <2>4
      <3> QED
        BY <2>1, <2>2, <2>4, <3>1 DEF Snapshot, AtSlot
    <2> QED
      BY <2>3, <2>4
  <1>9. Apart'
    <2>1. RowsApart'
      BY <1>4, SameRows
    <2>2. \A n : ~RowName(n)'
      <3>1. \A n : ~RowName(n)
        BY <1>4, NoRows
      <3> QED
        BY <1>4, <3>1 DEF RowName
    <2> QED
      BY <1>5, <2>1, <2>2 DEF Apart
  <1> QED
    BY <1>3, <1>6, <1>7, <1>8, <1>9 DEF ReportInv

-----------------------------------------------------------------------------
(* The loop over the slots. *)

\* A slot with nobody to show leaves a team's list as it is.
LEMMA ListsSkip ==
  ASSUME NEW s, NEW t, NEW n \in Index, Lists(s, t, n), ~Shown(n, t)
  PROVE  Lists(s, t, n + 1)
  <1> DEFINE row_at(k) == [name |-> obj[slot[k]].name, at |-> obj[slot[k]].name]
  <1>1. PICK at \in [1 .. Len(s) -> Index] :
          /\ \A j \in 1 .. Len(s) : at[j] < n /\ Shown(at[j], t) /\ s[j] = row_at(at[j])
          /\ \A j, k \in 1 .. Len(s) : j < k => at[j] < at[k]
          /\ \A k \in Index : k < n /\ Shown(k, t) => \E j \in 1 .. Len(s) : at[j] = k
    BY Zenon DEF Lists
  <1>2. \A k \in Index : k < n => k < n + 1
    BY SlotsAssumption DEF Index
  <1>3. \A k \in Index : k < n + 1 => k < n \/ k = n
    BY SlotsAssumption DEF Index
  <1>4. \A j \in 1 .. Len(s) : at[j] < n + 1 /\ Shown(at[j], t) /\ s[j] = row_at(at[j])
    BY <1>1, <1>2, Zenon
  <1>5. \A k \in Index : k < n + 1 /\ Shown(k, t) => \E j \in 1 .. Len(s) : at[j] = k
    BY <1>1, <1>3, Zenon
  <1> QED
    BY <1>1, <1>4, <1>5, Zenon DEF Lists

\* A slot whose player is shown adds his row at the end of his team's list.
LEMMA ListsAdd ==
  ASSUME NEW s \in Seq(Row), NEW t, NEW n \in Index, Lists(s, t, n), Shown(n, t),
         NEW r \in Row, r = [name |-> obj[slot[n]].name, at |-> obj[slot[n]].name]
  PROVE  Lists(Append(s, r), t, n + 1)
  <1> DEFINE row_at(k) == [name |-> obj[slot[k]].name, at |-> obj[slot[k]].name]
  <1>1. PICK at \in [1 .. Len(s) -> Index] :
          /\ \A j \in 1 .. Len(s) : at[j] < n /\ Shown(at[j], t) /\ s[j] = row_at(at[j])
          /\ \A j, k \in 1 .. Len(s) : j < k => at[j] < at[k]
          /\ \A k \in Index : k < n /\ Shown(k, t) => \E j \in 1 .. Len(s) : at[j] = k
    BY Zenon DEF Lists
  <1>2. PICK u, m : u = Append(s, r) /\ m = Len(s)
    OBVIOUS
  <1>3. /\ m \in Nat /\ Len(u) = m + 1 /\ u[m + 1] = r
        /\ \A j \in 1 .. m : u[j] = s[j]
    BY <1>2, AppendProperties
  <1> DEFINE new == [j \in 1 .. Len(u) |-> IF j <= m THEN at[j] ELSE n]
  <1>4. /\ new \in [1 .. Len(u) -> Index] /\ new[m + 1] = n
        /\ \A j \in 1 .. m : new[j] = at[j]
    BY <1>2, <1>3
  <1>5. \A j \in 1 .. Len(u) : j \in 1 .. m \/ j = m + 1
    BY <1>3
  <1>6. \A k \in Index : (k < n => k < n + 1) /\ (k < n + 1 => k < n \/ k = n)
    BY SlotsAssumption DEF Index
  <1>7. n < n + 1 /\ 1 .. m \subseteq 1 .. Len(u) /\ m + 1 \in 1 .. Len(u)
    BY <1>3, SlotsAssumption DEF Index
  <1> HIDE DEF new, row_at
  <1>8. r = row_at(n)
    BY DEF row_at
  <1>9. \A j \in 1 .. Len(u) : new[j] < n + 1 /\ Shown(new[j], t) /\ u[j] = row_at(new[j])
    <2> TAKE j \in 1 .. Len(u)
    <2>1. CASE j \in 1 .. m
      BY <1>1, <1>2, <1>3, <1>4, <1>6, <2>1, Zenon
    <2>2. CASE j = m + 1
      BY <1>3, <1>4, <1>7, <1>8, <2>2, Zenon
    <2> QED
      BY <1>5, <2>1, <2>2
  <1>10. \A j, k \in 1 .. Len(u) : j < k => new[j] < new[k]
    <2> SUFFICES ASSUME NEW j \in 1 .. Len(u), NEW k \in 1 .. Len(u), j < k
                 PROVE  new[j] < new[k]
      OBVIOUS
    <2>1. j \in 1 .. m
      BY <1>3
    <2>2. CASE k \in 1 .. m
      BY <1>1, <1>2, <1>4, <2>1, <2>2, Zenon
    <2>3. CASE k = m + 1
      BY <1>1, <1>2, <1>4, <2>1, <2>3, Zenon
    <2> QED
      BY <1>5, <2>2, <2>3
  <1>11. \A k \in Index : k < n + 1 /\ Shown(k, t) => \E j \in 1 .. Len(u) : new[j] = k
    <2> SUFFICES ASSUME NEW k \in Index, k < n + 1, Shown(k, t)
                 PROVE  \E j \in 1 .. Len(u) : new[j] = k
      OBVIOUS
    <2>1. CASE k < n
      <3>1. PICK j \in 1 .. m : at[j] = k
        BY <1>1, <1>2, <2>1, Zenon
      <3> QED
        BY <1>4, <1>7, <3>1, Zenon
    <2>2. CASE k = n
      BY <1>4, <1>7, <2>2, Zenon
    <2> QED
      BY <1>6, <2>1, <2>2
  <1>12. Lists(u, t, n + 1)
    BY <1>4, <1>9, <1>10, <1>11, Zenon DEF Lists, row_at
  <1> QED
    BY <1>2, <1>12

\* What stays while a slot is read.
LEMMA SlotFacts ==
  ASSUME ReportInv, pc \in AtSlot, UNCHANGED <<playerVars, startedAt, local_name, present, vars>>
  PROVE  /\ WalkInv' /\ ReportOK /\ moves \in Nat /\ moves' = moves /\ walk' = "idle"
         /\ startedAt' = startedAt /\ local_name' = local_name /\ present' = present
         /\ startedAt' \in Nat /\ startedAt' <= moves'
         /\ UNCHANGED playerVars
         /\ i \in Index /\ i \in Nat /\ i < Slots
         /\ InSlots' = InSlots /\ InSlots \subseteq present
  <1>1. WalkInv' /\ moves' = moves /\ walk' = walk /\ UNCHANGED playerVars
    BY IdleWalk DEF ReportInv, vars
  <1>2. ReportOK /\ moves \in Nat /\ walk = "idle"
    BY DEF ReportInv, ReportOK, WalkInv, WalkOK, AtSlot
  <1>3. startedAt' = startedAt /\ local_name' = local_name /\ present' = present
    OBVIOUS
  <1>4. i \in Index /\ i \in Nat /\ i < Slots
    BY <1>2, SlotsAssumption DEF ReportOK, Index
  <1>5. startedAt \in Nat /\ startedAt <= moves
    BY <1>2 DEF ReportOK
  <1>6. InSlots' = InSlots /\ InSlots \subseteq present
    BY <1>1, PlayersStay DEF ReportInv, Seen, AtSlot
  <1> QED
    BY <1>1, <1>2, <1>3, <1>4, <1>5, <1>6

\* What the snapshot says while a slot is read.
LEMMA SlotSnapshot ==
  ASSUME ReportInv, pc \in AtSlot, moves = startedAt
  PROVE  /\ manager.gameManager /\ manager.playerManager /\ manager.playerList
         /\ \A t \in 1 .. 2 : Lists(rows[t], t, i)
         /\ local_player.at =
              IF \E k \in Index : k < i /\ Occupied(k) /\ Nm(k) = LocalName
              THEN LocalName ELSE None
         /\ local_name = LocalName
         /\ local_player.name = IF Named(local) THEN LocalName ELSE None
         /\ pc \in {"name", "team"} => o = slot[i]
         /\ pc = "team" => name = obj[o].name
  <1>1. Snapshot
    BY DEF ReportInv
  <1>2. /\ pc \notin {"gameManager", "bad client game manager", "playerManager",
                      "bad client player manager"}
        /\ pc \in AtSlot \cup {"players", "flags", "success"}
        /\ pc \in AtSlot \cup {"flags", "success"}
    BY DEF AtSlot
  <1> QED
    BY <1>1, <1>2, Zenon DEF Snapshot

\* The end of the loop body, however the slot was dealt with.
LEMMA EndOfSlot ==
  ASSUME ReportInv, pc \in AtSlot, NextSlot,
         UNCHANGED <<playerVars, startedAt, local_name, present, vars>>,
         local_player' \in Row, rows' \in [1 .. 2 -> Seq(Row)],
         \A t \in 1 .. 2 : \A n \in 1 .. Len(rows'[t]) : rows'[t][n].name # NoName,
         NoGhostRows',
         moves = startedAt =>
           /\ \A t \in 1 .. 2 : Lists(rows'[t], t, i + 1)
           /\ local_player'.name = local_player.name
           /\ local_player'.at =
                IF \E k \in Index : k < i + 1 /\ Occupied(k) /\ Nm(k) = LocalName
                THEN LocalName ELSE None,
         moves < startedAt + 2 =>
           /\ RowsApart'
           /\ \A k \in Index : i < k /\ Occupied(k) => ~RowName(Nm(k))'
  PROVE  ReportInv'
  <1>1. /\ WalkInv' /\ ReportOK /\ moves \in Nat /\ moves' = moves /\ walk' = "idle"
        /\ startedAt' = startedAt /\ local_name' = local_name /\ present' = present
        /\ startedAt' \in Nat /\ startedAt' <= moves'
        /\ UNCHANGED playerVars
        /\ i \in Nat /\ i < Slots
        /\ InSlots' = InSlots /\ InSlots \subseteq present
    BY SlotFacts, Zenon
  <1>2. i' = i + 1 /\ pc' = IF i + 1 < Slots THEN "clientPlayerAt" ELSE "flags"
    BY DEF NextSlot
  <1>3. pc' \in {"clientPlayerAt", "flags"}
    BY <1>2
  <1>4. ReportOK'
    <2>1. /\ i' \in Nat
          /\ pc' = "clientPlayerAt" => i' < Slots
          /\ pc' = "flags" => i' = Slots
      BY <1>1, <1>2, SlotsAssumption
    <2>2. /\ pc' \in Before \cup AtSlot \cup Failed \cup {"flags", "success"}
          /\ pc' \notin Before \cup {"success", "name", "team"}
          /\ pc' \notin {"gameManager", "playerManager", "localPlayer"}
          /\ pc' \in AtSlot => pc' = "clientPlayerAt"
      BY <1>3 DEF Before, AtSlot, Failed
    <2> QED
      BY <1>1, <2>1, <2>2, ReportOKStays
  <1>5. Seen'
    BY <1>1, <1>3 DEF Seen
  <1>6. Snapshot'
    <2> SUFFICES ASSUME moves = startedAt PROVE Snapshot'
      BY <1>1 DEF Snapshot
    <2>1. /\ manager.gameManager /\ manager.playerManager /\ manager.playerList
          /\ local_name = LocalName
          /\ local_player.name = IF Named(local) THEN LocalName ELSE None
      BY SlotSnapshot
    <2>2. /\ manager' = manager /\ local' = local /\ LocalName' = LocalName
          /\ Named(local)' <=> Named(local)
          /\ \A k : (Occupied(k)' <=> Occupied(k)) /\ Nm(k)' = Nm(k)
      BY <1>1, PlayersStay
    <2>3. \A t \in 1 .. 2 : Lists(rows[t], t, i)'
      <3>1. \A t \in 1 .. 2 : Lists(rows'[t], t, i')
        BY <1>2, Zenon
      <3> QED
        BY <1>1, <3>1, ListsAfter
    <2>4. local_player'.at =
            IF \E k \in Index : k < i' /\ Occupied(k)' /\ Nm(k)' = LocalName'
            THEN LocalName' ELSE None
      BY <1>2, <2>2, Zenon
    <2>5. /\ pc' \notin {"players", "name", "team", "500", "bad client game manager",
                         "bad client player manager", "gameManager", "playerManager"}
      BY <1>3
    <2> QED
      BY <1>1, <2>1, <2>2, <2>3, <2>4, <2>5, Zenon DEF Snapshot
  <1>7. Apart'
    <2> SUFFICES ASSUME moves < startedAt + 2 PROVE Apart'
      BY <1>1 DEF Apart
    <2>1. \A k \in Index : Ahead(k)' => i < k
      BY <1>1, <1>2, SlotsAssumption DEF Ahead, Index
    <2>2. \A k \in Index : Ahead(k)' /\ Occupied(k)' => ~RowName(Nm(k))'
      BY <1>1, <2>1, PlayersStay
    <2> QED
      BY <1>3, <2>2 DEF Apart
  <1> QED
    BY <1>1, <1>4, <1>5, <1>6, <1>7 DEF ReportInv

\* The names that can still be read are those of no row, while the rows stay.
LEMMA RowsStayApart ==
  ASSUME ReportInv, pc \in AtSlot, i \in Nat, UNCHANGED playerVars, rows' = rows,
         moves < startedAt + 2
  PROVE  /\ RowsApart'
         /\ \A k \in Index : i < k /\ Occupied(k) => ~RowName(Nm(k))'
  <1>1. /\ RowsApart
        /\ \A k \in Index : Ahead(k) /\ Occupied(k) => ~RowName(Nm(k))
    BY DEF ReportInv, Apart
  <1>2. RowsApart'
    BY <1>1, SameRows
  <1>3. \A k \in Index : i < k => Ahead(k)
    BY SlotsAssumption DEF Ahead, AtSlot, Index
  <1>4. \A k : ~RowName(Nm(k)) => ~RowName(Nm(k))'
    <2>1. \A k : Nm(k)' = Nm(k)
      BY PlayersStay
    <2> QED
      BY <2>1 DEF RowName
  <1> QED
    BY <1>1, <1>2, <1>3, <1>4, Zenon

\* The slot adds nothing to the report.
LEMMA SlotSkipped ==
  ASSUME ReportInv, pc \in AtSlot, NextSlot,
         UNCHANGED <<playerVars, startedAt, local_name, present, vars>>,
         local_player' = local_player, rows' = rows,
         moves = startedAt =>
           /\ \A t \in 1 .. 2 : ~Shown(i, t)
           /\ ~(Occupied(i) /\ Nm(i) = LocalName)
  PROVE  ReportInv'
  <1>1. ReportOK /\ i \in Index /\ i \in Nat /\ startedAt' = startedAt /\ present' = present
    BY SlotFacts
  <1>2. /\ local_player' \in Row /\ rows' \in [1 .. 2 -> Seq(Row)]
        /\ \A t \in 1 .. 2 : \A n \in 1 .. Len(rows'[t]) : rows'[t][n].name # NoName
    BY <1>1 DEF ReportOK
  <1>3. NoGhostRows'
    BY <1>1 DEF ReportInv, Seen, NoGhostRows
  <1>4. ASSUME moves = startedAt
        PROVE  /\ \A t \in 1 .. 2 : Lists(rows'[t], t, i + 1)
               /\ local_player'.at =
                    IF \E k \in Index : k < i + 1 /\ Occupied(k) /\ Nm(k) = LocalName
                    THEN LocalName ELSE None
    <2>1. /\ \A t \in 1 .. 2 : Lists(rows[t], t, i)
          /\ local_player.at =
               IF \E k \in Index : k < i /\ Occupied(k) /\ Nm(k) = LocalName
               THEN LocalName ELSE None
      BY <1>4, SlotSnapshot
    <2>2. \A t \in 1 .. 2 : Lists(rows'[t], t, i + 1)
      BY <1>1, <1>4, <2>1, ListsSkip
    <2>3. \A k \in Index : k < i + 1 <=> k < i \/ k = i
      BY <1>1, SlotsAssumption DEF Index
    <2>4. (\E k \in Index : k < i + 1 /\ Occupied(k) /\ Nm(k) = LocalName)
            <=> (\E k \in Index : k < i /\ Occupied(k) /\ Nm(k) = LocalName)
      BY <1>4, <2>3, Zenon
    <2> QED
      BY <2>1, <2>2, <2>4, Zenon
  <1>5. ASSUME moves < startedAt + 2
        PROVE  /\ RowsApart'
               /\ \A k \in Index : i < k /\ Occupied(k) => ~RowName(Nm(k))'
    BY <1>1, <1>5, RowsStayApart
  <1> QED
    BY <1>2, <1>3, <1>4, <1>5, EndOfSlot, Zenon

\* player_list.clientPlayerAt(i).
LEMMA ClientPlayerAtKeeps ==
  ASSUME ReportInv, clientPlayerAt
  PROVE  ReportInv'
  <1>1. /\ pc = "clientPlayerAt" /\ pc \in AtSlot /\ local_player' = local_player
        /\ rows' = rows /\ name' = name
        /\ UNCHANGED <<playerVars, startedAt, local_name, present, vars>>
    BY DEF clientPlayerAt, AtSlot
  <1>2. CASE slot[i] = NoObj
    <2>1. NextSlot
      BY <1>2 DEF clientPlayerAt
    <2>2. ~Occupied(i) /\ \A t \in 1 .. 2 : ~Shown(i, t)
      BY <1>2 DEF Occupied, Shown, Named
    <2> QED
      BY <1>1, <2>1, <2>2, SlotSkipped
  <1>3. CASE slot[i] # NoObj
    <2>1. o' = slot[i] /\ pc' = "name" /\ i' = i
      BY <1>3 DEF clientPlayerAt
    <2>2. /\ WalkInv' /\ ReportOK /\ moves \in Nat /\ moves' = moves /\ walk' = "idle"
          /\ startedAt' = startedAt /\ local_name' = local_name /\ present' = present
          /\ startedAt' \in Nat /\ startedAt' <= moves'
          /\ UNCHANGED playerVars
          /\ i \in Index /\ i \in Nat /\ i < Slots
          /\ InSlots' = InSlots /\ InSlots \subseteq present
      BY <1>1, SlotFacts, Zenon
    <2>3. /\ local_player \in Row /\ rows \in [1 .. 2 -> Seq(Row)] /\ slot[i] \in Obj
          /\ \A t \in 1 .. 2 : \A n \in 1 .. Len(rows[t]) : rows[t][n].name # NoName
          /\ Occupied(i)
      BY <1>3, <2>2 DEF ReportOK, Occupied
    <2>4. /\ slot' = slot /\ obj' = obj
          /\ \A k : (Occupied(k)' <=> Occupied(k)) /\ Nm(k)' = Nm(k)
      BY <2>2, PlayersStay
    <2>5. obj'[o'].name = Nm(i)
      BY <2>1, <2>4 DEF Nm
    <2>6. ReportOK'
      <3>1. /\ pc' \in Before \cup AtSlot \cup Failed \cup {"flags", "success"}
            /\ pc' \notin Before \cup {"flags", "success", "team"}
            /\ pc' \notin {"gameManager", "playerManager", "localPlayer"}
        BY <2>1 DEF Before, AtSlot, Failed
      <3>2. /\ \A t \in 1 .. 2 : \A n \in 1 .. Len(rows'[t]) : rows'[t][n].name # NoName
            /\ i' \in Nat /\ i' < Slots /\ o' \in Obj
            /\ local_player' \in Row /\ rows' \in [1 .. 2 -> Seq(Row)]
        BY <1>1, <2>1, <2>2, <2>3
      <3> QED
        BY <2>2, <3>1, <3>2, ReportOKStays
    <2>7. Seen'
      <3>1. Nm(i) \in InSlots
        BY <2>2, <2>3 DEF InSlots, Occupied, Nm
      <3>2. NoGhostRows'
        BY <1>1, <2>2 DEF ReportInv, Seen, NoGhostRows
      <3> QED
        BY <2>1, <2>2, <2>5, <3>1, <3>2 DEF Seen
    <2>8. Snapshot'
      <3> SUFFICES ASSUME moves = startedAt PROVE Snapshot'
        BY <2>2 DEF Snapshot
      <3>1. /\ manager.gameManager /\ manager.playerManager /\ manager.playerList
            /\ \A t \in 1 .. 2 : Lists(rows[t], t, i)
            /\ local_player.at =
                 IF \E k \in Index : k < i /\ Occupied(k) /\ Nm(k) = LocalName
                 THEN LocalName ELSE None
            /\ local_name = LocalName
            /\ local_player.name = IF Named(local) THEN LocalName ELSE None
        BY <1>1, SlotSnapshot
      <3>2. /\ manager' = manager /\ local' = local /\ LocalName' = LocalName
            /\ Named(local)' <=> Named(local)
        BY <2>2, PlayersStay
      <3>3. \A t \in 1 .. 2 : Lists(rows[t], t, i)'
        <4>1. \A t \in 1 .. 2 : Lists(rows'[t], t, i')
          BY <1>1, <2>1, <3>1, Zenon
        <4> QED
          BY <2>2, <4>1, ListsAfter
      <3>4. local_player'.at =
              IF \E k \in Index : k < i' /\ Occupied(k)' /\ Nm(k)' = LocalName'
              THEN LocalName' ELSE None
        BY <1>1, <2>1, <2>4, <3>1, <3>2, Zenon
      <3>5. /\ pc' \notin {"players", "team", "500", "bad client game manager",
                           "bad client player manager", "gameManager", "playerManager"}
            /\ o' = slot'[i']
        BY <2>1, <2>4
      <3>6. pc' # "team" /\ pc' # "500"
        BY <3>5
      <3> QED
        BY <1>1, <2>2, <3>1, <3>2, <3>3, <3>4, <3>5, <3>6, Zenon DEF Snapshot
    <2>9. Apart'
      <3> SUFFICES ASSUME moves < startedAt + 2 PROVE Apart'
        BY <2>2 DEF Apart
      <3>1. /\ RowsApart
            /\ \A k \in Index : Ahead(k) /\ Occupied(k) => ~RowName(Nm(k))
        BY DEF ReportInv, Apart
      <3>2. RowsApart' /\ \A n : RowName(n)' <=> RowName(n)
        BY <1>1, <3>1, SameRows
      <3>3. Ahead(i) /\ \A k \in Index : Ahead(k)' => Ahead(k) /\ k # i
        BY <1>1, <2>1, <2>2, SlotsAssumption DEF Ahead, Index
      <3>4. \A k \in Index : Ahead(k)' /\ Occupied(k)' => Nm(k)' # Nm(i)
        <4> SUFFICES ASSUME NEW k \in Index, Ahead(k)', Occupied(k)'
                     PROVE  Nm(k)' # Nm(i)
          OBVIOUS
        <4>1. Occupied(k) /\ k # i /\ Nm(k)' = Nm(k)
          BY <2>4, <3>3
        <4> QED
          BY <2>2, <2>3, <4>1, ObjectsDiffer
      <3>5. ~RowName(Nm(i))
        BY <2>2, <2>3, <3>1, <3>3
      <3>6. \A k \in Index : Ahead(k)' /\ Occupied(k)' => ~RowName(Nm(k))'
        <4> SUFFICES ASSUME NEW k \in Index, Ahead(k)', Occupied(k)'
                     PROVE  ~RowName(Nm(k))'
          OBVIOUS
        <4>1. PICK n : n = Nm(k)
          OBVIOUS
        <4>2. ~RowName(n) /\ Nm(k)' = n
          BY <2>4, <3>1, <3>3, <4>1
        <4>3. ~RowName(n)'
          BY <3>2, <4>2
        <4> QED
          BY <4>2, <4>3 DEF RowName
      <3>7. ~RowName(obj[o].name)'
        <4>1. PICK n : n = Nm(i)
          OBVIOUS
        <4>2. ~RowName(n)'
          BY <3>2, <3>5, <4>1
        <4> QED
          BY <2>5, <4>1, <4>2 DEF RowName
      <3> QED
        BY <2>1, <2>5, <3>2, <3>4, <3>6, <3>7 DEF Apart
    <2> QED
      BY <2>2, <2>6, <2>7, <2>8, <2>9 DEF ReportInv
  <1> QED
    BY <1>2, <1>3

\* While the game stands still, the object read for a slot is a player's.
LEMMA QuietObject ==
  ASSUME ReportInv, pc \in {"name", "team"}, moves = startedAt
  PROVE  o = slot[i] /\ Occupied(i) /\ obj[o] \in Players /\ Named(slot[i])
  <1>1. pc \in AtSlot
    BY DEF AtSlot
  <1>2. o = slot[i] /\ ReportOK
    BY <1>1, SlotSnapshot DEF ReportInv
  <1>3. o \in Obj /\ i \in Index
    BY <1>1, <1>2, SlotsAssumption DEF ReportOK, Index
  <1>4. Occupied(i)
    BY <1>2, <1>3, NoObjAssumption DEF Occupied
  <1>5. obj[o] \in Players
    BY <1>2, <1>3, <1>4, Zenon DEF ReportOK
  <1> QED
    BY <1>2, <1>4, <1>5, PlayerRecords DEF Named, Occupied

\* p.name(): the name of the object read for the slot.
LEMMA ReadNameKeeps ==
  ASSUME ReportInv, readName
  PROVE  ReportInv'
  <1>1. /\ pc = "name" /\ pc \in AtSlot /\ local_player' = local_player
        /\ rows' = rows /\ o' = o
        /\ UNCHANGED <<playerVars, startedAt, local_name, present, vars>>
    BY DEF readName, AtSlot
  <1>2. CASE obj[o].name = NoName
    <2>1. NextSlot
      BY <1>2 DEF readName
    <2>2. moves # startedAt
      BY <1>1, <1>2, QuietObject, PlayerRecords
    <2> QED
      BY <1>1, <2>1, <2>2, SlotSkipped
  <1>3. CASE obj[o].name # NoName
    <2>1. name' = obj[o].name /\ pc' = "team" /\ i' = i
      BY <1>3 DEF readName
    <2>2. /\ WalkInv' /\ ReportOK /\ moves \in Nat /\ moves' = moves /\ walk' = "idle"
          /\ startedAt' = startedAt /\ local_name' = local_name /\ present' = present
          /\ startedAt' \in Nat /\ startedAt' <= moves'
          /\ UNCHANGED playerVars
          /\ i \in Index /\ i \in Nat /\ i < Slots
          /\ InSlots' = InSlots /\ InSlots \subseteq present
      BY <1>1, SlotFacts, Zenon
    <2>3. /\ local_player \in Row /\ rows \in [1 .. 2 -> Seq(Row)] /\ o \in Obj
          /\ \A t \in 1 .. 2 : \A n \in 1 .. Len(rows[t]) : rows[t][n].name # NoName
          /\ obj \in [Obj -> Players \cup {Zeroed}]
      BY <1>1, <2>2 DEF ReportOK
    <2>4. /\ slot' = slot /\ obj' = obj
          /\ \A k : (Occupied(k)' <=> Occupied(k)) /\ Nm(k)' = Nm(k)
      BY <2>2, PlayersStay
    <2>5. obj'[o'].name = name'
      BY <1>1, <2>1, <2>4
    <2>6. ReportOK'
      <3>1. /\ pc' \in Before \cup AtSlot \cup Failed \cup {"flags", "success"}
            /\ pc' \notin Before \cup {"flags", "success"}
            /\ pc' \notin {"gameManager", "playerManager", "localPlayer"}
        BY <2>1 DEF Before, AtSlot, Failed
      <3>2. /\ \A t \in 1 .. 2 : \A n \in 1 .. Len(rows'[t]) : rows'[t][n].name # NoName
            /\ i' \in Nat /\ i' < Slots /\ o' \in Obj
            /\ local_player' \in Row /\ rows' \in [1 .. 2 -> Seq(Row)]
        BY <1>1, <2>1, <2>2, <2>3
      <3>3. name' \in Names \ {NoName}
        BY <1>3, <2>1, <2>3, PlayerRecords
      <3> QED
        BY <2>2, <3>1, <3>2, <3>3, ReportOKStays
    <2>7. Seen'
      <3>1. name' \in present
        BY <1>1, <1>3, <2>1 DEF ReportInv, Seen
      <3>2. NoGhostRows'
        BY <1>1, <2>2 DEF ReportInv, Seen, NoGhostRows
      <3> QED
        BY <2>1, <2>2, <3>1, <3>2 DEF Seen
    <2>8. Snapshot'
      <3> SUFFICES ASSUME moves = startedAt PROVE Snapshot'
        BY <2>2 DEF Snapshot
      <3>1. /\ manager.gameManager /\ manager.playerManager /\ manager.playerList
            /\ \A t \in 1 .. 2 : Lists(rows[t], t, i)
            /\ local_player.at =
                 IF \E k \in Index : k < i /\ Occupied(k) /\ Nm(k) = LocalName
                 THEN LocalName ELSE None
            /\ local_name = LocalName
            /\ local_player.name = IF Named(local) THEN LocalName ELSE None
            /\ o = slot[i]
        BY <1>1, SlotSnapshot
      <3>2. /\ manager' = manager /\ local' = local /\ LocalName' = LocalName
            /\ Named(local)' <=> Named(local)
        BY <2>2, PlayersStay
      <3>3. \A t \in 1 .. 2 : Lists(rows[t], t, i)'
        <4>1. \A t \in 1 .. 2 : Lists(rows'[t], t, i')
          BY <1>1, <2>1, <3>1, Zenon
        <4> QED
          BY <2>2, <4>1, ListsAfter
      <3>4. local_player'.at =
              IF \E k \in Index : k < i' /\ Occupied(k)' /\ Nm(k)' = LocalName'
              THEN LocalName' ELSE None
        BY <1>1, <2>1, <2>4, <3>1, <3>2, Zenon
      <3>5. /\ pc' \notin {"players", "500", "bad client game manager",
                           "bad client player manager", "gameManager", "playerManager"}
            /\ o' = slot'[i']
        BY <1>1, <2>1, <2>4, <3>1
      <3>6. pc' # "500"
        BY <3>5
      <3> QED
        BY <1>1, <2>2, <2>5, <3>1, <3>2, <3>3, <3>4, <3>5, <3>6, Zenon DEF Snapshot
    <2>9. Apart'
      <3> SUFFICES ASSUME moves < startedAt + 2 PROVE Apart'
        BY <2>2 DEF Apart
      <3>1. PICK n : n = obj[o].name
        OBVIOUS
      <3>2. /\ RowsApart /\ ~RowName(n)
            /\ \A k \in Index : Ahead(k) /\ Occupied(k) => ~RowName(Nm(k)) /\ Nm(k) # n
        BY <1>1, <3>1 DEF ReportInv, Apart
      <3>3. RowsApart' /\ \A m : RowName(m)' <=> RowName(m)
        BY <1>1, <3>2, SameRows
      <3>4. \A k \in Index : Ahead(k)' => Ahead(k)
        BY <1>1, <2>1 DEF Ahead
      <3>5. \A k \in Index : Ahead(k)' /\ Occupied(k)' => ~RowName(Nm(k))' /\ Nm(k)' # n
        <4> SUFFICES ASSUME NEW k \in Index, Ahead(k)', Occupied(k)'
                     PROVE  ~RowName(Nm(k))' /\ Nm(k)' # n
          OBVIOUS
        <4>1. PICK m : m = Nm(k)
          OBVIOUS
        <4>2. ~RowName(m) /\ Nm(k)' = m /\ m # n
          BY <2>4, <3>2, <3>4, <4>1
        <4>3. ~RowName(m)'
          BY <3>3, <4>2
        <4> QED
          BY <4>2, <4>3 DEF RowName
      <3>6. ~RowName(name)' /\ name' = n
        <4>1. ~RowName(n)' /\ name' = n
          BY <2>1, <3>1, <3>2, <3>3
        <4> QED
          BY <4>1 DEF RowName
      <3> QED
        BY <2>1, <2>5, <3>3, <3>5, <3>6 DEF Apart
    <2> QED
      BY <2>2, <2>6, <2>7, <2>8, <2>9 DEF ReportInv
  <1> QED
    BY <1>2, <1>3

\* The rows after one was added to a team.
LEMMA RowAdded ==
  ASSUME rows \in [1 .. 2 -> Seq(Row)], NEW t \in 1 .. 2, NEW r \in Row,
         rows' = [rows EXCEPT ![t] = Append(@, r)]
  PROVE  /\ rows' \in [1 .. 2 -> Seq(Row)]
         /\ rows'[t] = Append(rows[t], r)
         /\ \A u \in 1 .. 2 : u # t => rows'[u] = rows[u]
         /\ \A u \in 1 .. 2 : \A j \in 1 .. Len(rows'[u]) :
              \/ j \in 1 .. Len(rows[u]) /\ rows'[u][j] = rows[u][j]
              \/ u = t /\ j = Len(rows[t]) + 1 /\ rows'[u][j] = r
  <1>1. rows[t] \in Seq(Row)
    OBVIOUS
  <1>2. PICK s : s = Append(rows[t], r)
    OBVIOUS
  <1>3. /\ s \in Seq(Row) /\ Len(s) = Len(rows[t]) + 1 /\ s[Len(rows[t]) + 1] = r
        /\ Len(rows[t]) \in Nat
        /\ \A j \in 1 .. Len(rows[t]) : s[j] = rows[t][j]
    BY <1>1, <1>2, AppendProperties
  <1>4. rows' = [rows EXCEPT ![t] = s]
    BY <1>2
  <1>5. /\ rows' \in [1 .. 2 -> Seq(Row)] /\ rows'[t] = s
        /\ \A u \in 1 .. 2 : u # t => rows'[u] = rows[u]
    BY <1>3, <1>4
  <1>6. ASSUME NEW u \in 1 .. 2, NEW j \in 1 .. Len(rows'[u])
        PROVE  \/ j \in 1 .. Len(rows[u]) /\ rows'[u][j] = rows[u][j]
               \/ u = t /\ j = Len(rows[t]) + 1 /\ rows'[u][j] = r
    <2>1. CASE u # t
      BY <1>5, <1>6, <2>1, Zenon
    <2>2. CASE u = t
      <3>1. j \in 1 .. Len(rows[t]) \/ j = Len(rows[t]) + 1
        BY <1>3, <1>5, <1>6, <2>2
      <3> QED
        BY <1>3, <1>5, <2>2, <3>1, Zenon
    <2> QED
      BY <2>1, <2>2
  <1> QED
    BY <1>2, <1>5, <1>6

\* The rest of the constructor, and the row of the player.
LEMMA ReadRestKeeps ==
  ASSUME ReportInv, readRest
  PROVE  ReportInv'
  <1>1. /\ pc = "team" /\ pc \in AtSlot /\ NextSlot
        /\ UNCHANGED <<playerVars, startedAt, local_name, present, vars>>
    BY DEF readRest, AtSlot
  <1>2. /\ ReportOK /\ moves \in Nat /\ present' = present /\ UNCHANGED playerVars
        /\ i \in Index /\ i \in Nat /\ i < Slots
    BY <1>1, SlotFacts, Zenon
  <1>3. /\ local_player \in Row /\ rows \in [1 .. 2 -> Seq(Row)] /\ o \in Obj
        /\ \A t \in 1 .. 2 : \A n \in 1 .. Len(rows[t]) : rows[t][n].name # NoName
        /\ obj \in [Obj -> Players \cup {Zeroed}] /\ name \in Names \ {NoName}
    BY <1>1, <1>2 DEF ReportOK
  <1>4. PICK at, team : at = obj[o].name /\ team = obj[o].team
    OBVIOUS
  <1>5. at \in Names
    BY <1>3, <1>4, PlayerRecords
  <1>6. /\ name \in present /\ NoGhostRows
        /\ moves < startedAt + 2 =>
             /\ RowsApart /\ ~RowName(name) /\ (at = name \/ obj[o] = Zeroed)
             /\ \A k \in Index : Ahead(k) /\ Occupied(k) => ~RowName(Nm(k)) /\ Nm(k) # name
    BY <1>1, <1>4 DEF ReportInv, Seen, Apart
  <1>7. ASSUME moves = startedAt
        PROVE  /\ at = name /\ Nm(i) = name /\ obj[slot[i]].team = team /\ Named(slot[i])
               /\ Occupied(i) /\ local_name = LocalName
               /\ \A t \in 1 .. 2 : Lists(rows[t], t, i)
               /\ local_player.at =
                    IF \E k \in Index : k < i /\ Occupied(k) /\ Nm(k) = LocalName
                    THEN LocalName ELSE None
    BY <1>1, <1>4, <1>7, QuietObject, SlotSnapshot DEF Nm
  <1>8. \A k \in Index : k < i + 1 <=> k < i \/ k = i
    BY <1>2, SlotsAssumption DEF Index
  <1>9. i < i + 1
    BY <1>2
  <1>10. \/ /\ name = local_name /\ rows' = rows
            /\ local_player' = [local_player EXCEPT !.at = at]
         \/ name # local_name /\ team \notin {1, 2} /\ local_player' = local_player /\ rows' = rows
         \/ /\ name # local_name /\ team \in {1, 2} /\ local_player' = local_player
            /\ rows' = [rows EXCEPT ![team] = Append(@, [name |-> name, at |-> at])]
    BY <1>4, Zenon DEF readRest
  <1>11. CASE name = local_name /\ rows' = rows /\ local_player' = [local_player EXCEPT !.at = at]
    <2>1. local_player' \in Row /\ local_player'.at = at /\ local_player'.name = local_player.name
      BY <1>3, <1>5, <1>11 DEF Row
    <2>2. ASSUME moves = startedAt
          PROVE  /\ \A t \in 1 .. 2 : Lists(rows'[t], t, i + 1)
                 /\ local_player'.at =
                      IF \E k \in Index : k < i + 1 /\ Occupied(k) /\ Nm(k) = LocalName
                      THEN LocalName ELSE None
      <3>1. \A t \in 1 .. 2 : ~Shown(i, t)
        BY <1>7, <1>11, <2>2 DEF Shown, Nm
      <3>2. \A t \in 1 .. 2 : Lists(rows'[t], t, i + 1)
        BY <1>2, <1>7, <1>11, <2>2, <3>1, ListsSkip
      <3>3. /\ \E k \in Index : k < i + 1 /\ Occupied(k) /\ Nm(k) = LocalName
            /\ local_player'.at = LocalName
        BY <1>2, <1>7, <1>9, <1>11, <2>1, <2>2, Zenon
      <3> QED
        BY <3>2, <3>3
    <2>3. NoGhostRows'
      BY <1>2, <1>6, <1>11 DEF NoGhostRows
    <2>4. ASSUME moves < startedAt + 2
          PROVE  RowsApart' /\ \A k \in Index : i < k /\ Occupied(k) => ~RowName(Nm(k))'
      BY <1>1, <1>2, <1>11, <2>4, RowsStayApart
    <2>5. /\ rows' \in [1 .. 2 -> Seq(Row)]
          /\ \A t \in 1 .. 2 : \A n \in 1 .. Len(rows'[t]) : rows'[t][n].name # NoName
      BY <1>3, <1>11, Zenon
    <2> QED
      BY <1>1, <2>1, <2>2, <2>3, <2>4, <2>5, EndOfSlot, Zenon
  <1>12. CASE /\ name # local_name /\ team \notin {1, 2}
              /\ local_player' = local_player /\ rows' = rows
    <2>1. ASSUME moves = startedAt
          PROVE  /\ \A t \in 1 .. 2 : ~Shown(i, t)
                 /\ ~(Occupied(i) /\ Nm(i) = LocalName)
      <3>1. obj[slot[i]].team \notin 1 .. 2 /\ Nm(i) # LocalName
        BY <1>7, <1>12, <2>1
      <3> QED
        BY <3>1 DEF Shown
    <2> QED
      BY <1>1, <1>12, <2>1, SlotSkipped
  <1>13. CASE /\ name # local_name /\ team \in {1, 2} /\ local_player' = local_player
              /\ rows' = [rows EXCEPT ![team] = Append(@, [name |-> name, at |-> at])]
    <2>1. PICK r : r = [name |-> name, at |-> at]
      OBVIOUS
    <2>2. r \in Row /\ r.name = name /\ r.at = at /\ team \in 1 .. 2
      BY <1>3, <1>5, <1>13, <2>1 DEF Row
    <2>3. rows' = [rows EXCEPT ![team] = Append(@, r)]
      BY <1>13, <2>1, Zenon
    <2>4. /\ rows' \in [1 .. 2 -> Seq(Row)]
          /\ rows'[team] = Append(rows[team], r)
          /\ \A u \in 1 .. 2 : u # team => rows'[u] = rows[u]
          /\ \A u \in 1 .. 2 : \A j \in 1 .. Len(rows'[u]) :
               \/ j \in 1 .. Len(rows[u]) /\ rows'[u][j] = rows[u][j]
               \/ u = team /\ j = Len(rows[team]) + 1 /\ rows'[u][j] = r
      BY <1>3, <2>2, <2>3, RowAdded
    <2>5. \A t \in 1 .. 2 : \A n \in 1 .. Len(rows'[t]) : rows'[t][n].name # NoName
      BY <1>3, <2>2, <2>4
    <2>6. NoGhostRows'
      <3>1. \A t \in 1 .. 2 : \A n \in 1 .. Len(rows'[t]) : rows'[t][n].name \in present
        BY <1>6, <2>2, <2>4 DEF NoGhostRows
      <3> QED
        BY <1>2, <3>1 DEF NoGhostRows
    <2>7. ASSUME moves = startedAt
          PROVE  /\ \A t \in 1 .. 2 : Lists(rows'[t], t, i + 1)
                 /\ local_player'.name = local_player.name
                 /\ local_player'.at =
                      IF \E k \in Index : k < i + 1 /\ Occupied(k) /\ Nm(k) = LocalName
                      THEN LocalName ELSE None
      <3>1. Nm(i) # LocalName /\ Nm(i) = name /\ obj[slot[i]].team = team
        BY <1>7, <1>13, <2>7
      <3>2. Shown(i, team) /\ \A u \in 1 .. 2 : u # team => ~Shown(i, u)
        BY <1>7, <2>7, <3>1 DEF Shown, Nm
      <3>3. r = [name |-> obj[slot[i]].name, at |-> obj[slot[i]].name]
        BY <1>7, <2>1, <2>7, <3>1 DEF Nm
      <3>4. Lists(rows'[team], team, i + 1)
        <4>1. rows[team] \in Seq(Row) /\ Lists(rows[team], team, i)
          BY <1>3, <1>7, <2>2, <2>7
        <4> QED
          BY <1>2, <2>2, <2>4, <3>2, <3>3, <4>1, ListsAdd
      <3>5. \A u \in 1 .. 2 : u # team => Lists(rows'[u], u, i + 1)
        BY <1>2, <1>7, <2>4, <2>7, <3>2, ListsSkip
      <3>6. (\E k \in Index : k < i + 1 /\ Occupied(k) /\ Nm(k) = LocalName)
              <=> (\E k \in Index : k < i /\ Occupied(k) /\ Nm(k) = LocalName)
        BY <1>8, <3>1, Zenon
      <3> QED
        BY <1>7, <1>13, <2>7, <3>4, <3>5, <3>6, Zenon
    <2>8. ASSUME moves < startedAt + 2
          PROVE  RowsApart' /\ \A k \in Index : i < k /\ Occupied(k) => ~RowName(Nm(k))'
      <3>1. at = name
        <4>1. obj[o] = Zeroed => team = 0
          BY <1>4, PlayerRecords
        <4> QED
          BY <1>6, <1>13, <2>8, <4>1
      <3>2. \A n : RowName(n)' => RowName(n) \/ n = name
        BY <2>2, <2>4 DEF RowName
      <3>3. \A u \in 1 .. 2 : \A j \in 1 .. Len(rows[u]) :
              rows[u][j].name # name /\ rows[u][j].name = rows[u][j].at
        BY <1>6, <2>8, Zenon DEF RowName, RowsApart
      <3>4. RowsApart'
        <4>1. \A u \in 1 .. 2 : \A j \in 1 .. Len(rows'[u]) : rows'[u][j].name = rows'[u][j].at
          BY <2>2, <2>4, <3>1, <3>3
        <4>2. ASSUME NEW t \in 1 .. 2, NEW u \in 1 .. 2, NEW j \in 1 .. Len(rows'[t]),
                     NEW k \in 1 .. Len(rows'[u]), rows'[t][j].name = rows'[u][k].name
              PROVE  t = u /\ j = k
          <5>1. CASE j \in 1 .. Len(rows[t]) /\ rows'[t][j] = rows[t][j]
            <6>1. rows'[u][k].name # name
              BY <3>3, <4>2, <5>1
            <6>2. k \in 1 .. Len(rows[u]) /\ rows'[u][k] = rows[u][k]
              BY <2>2, <2>4, <6>1
            <6> QED
              BY <1>6, <2>8, <4>2, <5>1, <6>2 DEF RowsApart
          <5>2. CASE t = team /\ j = Len(rows[team]) + 1 /\ rows'[t][j] = r
            BY <2>2, <2>4, <3>3, <4>2, <5>2
          <5> QED
            BY <2>4, <5>1, <5>2
        <4> QED
          BY <4>1, <4>2 DEF RowsApart
      <3>5. \A k \in Index : i < k => Ahead(k)
        BY <1>1, <1>2, SlotsAssumption DEF Ahead, Index
      <3>6. ASSUME NEW k \in Index, i < k, Occupied(k)
            PROVE  ~RowName(Nm(k))'
        <4>1. PICK m : m = Nm(k)
          OBVIOUS
        <4>2. ~RowName(m) /\ m # name /\ Nm(k)' = m
          BY <1>2, <1>6, <2>8, <3>5, <3>6, <4>1, PlayersStay
        <4>3. ~RowName(m)'
          BY <3>2, <4>2
        <4> QED
          BY <4>2, <4>3 DEF RowName
      <3> QED
        BY <3>4, <3>6
    <2>9. local_player' \in Row
      BY <1>3, <1>13
    <2> QED
      BY <1>1, <2>4, <2>5, <2>6, <2>7, <2>8, <2>9, EndOfSlot, Zenon
  <1> QED
    BY <1>10, <1>11, <1>12, <1>13, Zenon

-----------------------------------------------------------------------------
(* The flags, and the request as a whole. *)

\* Where only the walk moves, all that is said of the players and their rows
\* stays true.
LEMMA RowsStay ==
  ASSUME ReportInv, UNCHANGED <<playerVars, reqVars, present, moves>>,
         pc' = pc \/ (pc = "flags" /\ pc' \in {"success", "500"}),
         pc' = "500" /\ moves = startedAt => local = NoObj \/ ~manager.playerList
  PROVE  Seen' /\ Snapshot' /\ Apart'
  <1>1. UNCHANGED <<startedAt, i, o, name, local_name, local_player, rows, present, moves>>
    BY DEF reqVars
  <1>2. UNCHANGED playerVars
    OBVIOUS
  <1>3. /\ manager' = manager /\ slot' = slot /\ local' = local /\ obj' = obj
        /\ InSlots' = InSlots /\ LocalName' = LocalName
        /\ Named(local)' <=> Named(local)
        /\ \A k : (Occupied(k)' <=> Occupied(k)) /\ Nm(k)' = Nm(k)
    BY <1>2, PlayersStay
  <1>4. Seen'
    <2>1. NoGhostRows' <=> NoGhostRows
      BY <1>1 DEF NoGhostRows
    <2>2. /\ pc' \in {"name", "team"} => pc' = pc
          /\ pc' # "gameManager" => pc # "gameManager"
      OBVIOUS
    <2> QED
      BY <1>1, <1>3, <2>1, <2>2 DEF ReportInv, Seen
  <1>5. Snapshot'
    <2> SUFFICES ASSUME moves = startedAt PROVE Snapshot'
      BY <1>1 DEF Snapshot
    <2>1. Snapshot
      BY DEF ReportInv
    <2>2. \A t \in 1 .. 2 : Lists(rows[t], t, i) => Lists(rows[t], t, i)'
      <3> TAKE t \in 1 .. 2
      <3>1. rows'[t] = rows[t] /\ i' = i
        BY <1>1
      <3> QED
        BY <1>2, <3>1, ListsAfter, Zenon
    <2> QED
      BY <1>1, <1>3, <2>1, <2>2, Zenon DEF Snapshot, AtSlot
  <1>6. Apart'
    <2> SUFFICES ASSUME moves < startedAt + 2 PROVE Apart'
      BY <1>1 DEF Apart
    <2>1. (RowsApart' <=> RowsApart) /\ \A n : RowName(n)' <=> RowName(n)
      BY <1>1, SameRows
    <2>2. RowsApart
      BY DEF ReportInv, Apart
    <2>3. CASE pc' = pc
      BY <1>1, <1>3, <2>1, <2>3, Zenon DEF ReportInv, Apart, Ahead
    <2>4. CASE pc' \in {"success", "500"}
      BY <2>1, <2>2, <2>4 DEF Apart, Ahead
    <2> QED
      BY <2>3, <2>4
  <1> QED
    BY <1>4, <1>5, <1>6

\* What ReportOK says, while the walk moves and the rest of the request stays.
LEMMA ReportOKWalks ==
  ASSUME ReportOK, UNCHANGED <<playerVars, reqVars, moves>>,
         pc' = pc \/ (pc = "flags" /\ pc' \in {"success", "500"}),
         walk' # "idle" => pc' \in {"flags", "success", "500"} /\ startedAt' <= movedAt',
         pc' = "success" => walk' = "ok"
  PROVE  ReportOK'
  <1>1. UNCHANGED <<startedAt, i, o, name, local_name, local_player, rows, moves>>
    BY DEF reqVars
  <1>2. UNCHANGED playerVars
    OBVIOUS
  <1>3. /\ pc' \in Before \cup AtSlot \cup Failed \cup {"flags", "success"}
        /\ pc' \in AtSlot => pc \in AtSlot
        /\ pc' \in {"flags", "success"} => pc \in {"flags", "success"}
        /\ pc' \in {"name", "team"} => pc \in {"name", "team"}
        /\ pc' = "team" => pc = "team"
        /\ pc' \in Before => pc \in Before
        /\ pc' \in {"gameManager", "playerManager", "localPlayer"}
             => pc \in {"gameManager", "playerManager", "localPlayer"}
    BY DEF ReportOK, Before, AtSlot, Failed
  <1>4. /\ startedAt' \in Nat /\ startedAt' <= moves' /\ i' \in Nat
        /\ pc' \in AtSlot => i' < Slots
        /\ pc' \in {"flags", "success"} => i' = Slots
        /\ pc' \in {"name", "team"} => o' \in Obj
        /\ local_player' \in Row
        /\ rows' \in [1 .. 2 -> Seq(Row)]
        /\ pc' \in Before => rows' = [t \in 1 .. 2 |-> << >>] /\ local_player'.at = None
        /\ pc' \in {"gameManager", "playerManager", "localPlayer"} => local_player'.name = None
        /\ pc' = "team" => name' \in Names \ {NoName}
        /\ \A t \in 1 .. 2 : \A n \in 1 .. Len(rows'[t]) : rows'[t][n].name # NoName
    BY <1>1, <1>3, Zenon DEF ReportOK
  <1> QED
    BY <1>2, <1>3, <1>4, ReportOKStays, Zenon

\* add_flags_to_result: it fails only if the game has moved.
LEMMA AddFlagsKeeps ==
  ASSUME ReportInv, addFlags
  PROVE  ReportInv'
  <1>1. /\ pc = "flags" /\ UNCHANGED <<playerVars, reqVars, present>>
        /\ \/ (begin \/ Walking) /\ pc' = pc
           \/ walk = "ok" /\ pc' = "success" /\ UNCHANGED vars
           \/ walk = "out_of_range" /\ pc' = "500" /\ UNCHANGED vars
    BY DEF addFlags
  <1>2. ReportOK /\ WalkInv
    BY DEF ReportInv
  <1>3. /\ startedAt \in Nat /\ startedAt <= moves /\ startedAt' = startedAt
        /\ walk # "idle" => startedAt <= movedAt
        /\ moves \in Nat /\ movedAt \in Nat /\ movedAt <= moves
    BY <1>1, <1>2 DEF ReportOK, WalkInv, WalkOK, reqVars
  <1>4. /\ WalkInv' /\ moves' = moves
        /\ walk' # "idle" => startedAt' <= movedAt'
    <2>1. CASE begin
      BY <1>2, <1>3, <2>1, BeginKeeps DEF begin
    <2>2. CASE Walking
      <3>1. WalkInv'
        BY <1>2, <2>2, FirstKeeps, HasNextKeeps, RowKeeps, NextKeeps, Zenon DEF Walking
      <3>2. walk # "idle" /\ moves' = moves /\ movedAt' = movedAt
        BY <2>2 DEF Walking, first, hasNext, row, next
      <3> QED
        BY <1>3, <3>1, <3>2
    <2>3. CASE UNCHANGED vars
      <3>1. walk' = walk /\ moves' = moves /\ movedAt' = movedAt
        BY <2>3 DEF vars
      <3> QED
        BY <1>2, <1>3, <2>3, <3>1, IdleWalk
    <2> QED
      BY <1>1, <2>1, <2>2, <2>3
  <1>5. /\ pc' = pc \/ (pc = "flags" /\ pc' \in {"success", "500"})
        /\ pc' \in {"flags", "success", "500"}
        /\ pc' = "success" => walk' = "ok"
    <2>1. pc' = pc \/ (walk = "ok" /\ pc' = "success" /\ walk' = walk) \/ pc' = "500"
      BY <1>1, Zenon DEF vars
    <2> QED
      BY <1>1, <2>1
  <1>6. ~(pc' = "500" /\ moves = startedAt)
    <2> SUFFICES ASSUME pc' = "500", moves = startedAt
                 PROVE  FALSE
      OBVIOUS
    <2>1. walk = "out_of_range"
      BY <1>1
    <2>2. Quiet
      BY <1>3, <2>1 DEF Quiet
    <2> QED
      BY <1>2, <2>1, <2>2 DEF WalkInv, QuietWalk
  <1>7. ReportOK'
    BY <1>1, <1>2, <1>4, <1>5, ReportOKWalks
  <1>8. Seen' /\ Snapshot' /\ Apart'
    BY <1>1, <1>4, <1>5, <1>6, RowsStay
  <1> QED
    BY <1>4, <1>7, <1>8 DEF ReportInv

\* The request is answered, or nothing happens.
LEMMA ReportIdle ==
  ASSUME ReportInv, UNCHANGED reportVars
  PROVE  ReportInv'
  <1>1. /\ UNCHANGED <<playerVars, reqVars, present>> /\ moves' = moves
        /\ pc' = pc /\ walk' = walk /\ movedAt' = movedAt
    BY DEF reportVars, vars
  <1>2. ReportOK /\ WalkInv
    BY DEF ReportInv
  <1>3. startedAt' = startedAt
    BY <1>1 DEF reqVars
  <1>4. ReportOK'
    <2>1. /\ walk' # "idle" => pc' \in {"flags", "success", "500"} /\ startedAt' <= movedAt'
          /\ pc' = "success" => walk' = "ok"
      BY <1>1, <1>2, <1>3 DEF ReportOK
    <2> QED
      BY <1>1, <1>2, <2>1, ReportOKWalks
  <1>5. pc = "500" /\ moves = startedAt => local = NoObj \/ ~manager.playerList
    BY Zenon DEF ReportInv, Snapshot
  <1>6. Seen' /\ Snapshot' /\ Apart'
    BY <1>1, <1>5, RowsStay
  <1> QED
    BY <1>2, <1>4, <1>6, IdleWalk DEF ReportInv, reportVars

\* A request comes in.
LEMMA InitReport == ReportInit => ReportInv
  <1> SUFFICES ASSUME ReportInit PROVE ReportInv
    OBVIOUS
  <1>1. WalkInv /\ walk = "idle" /\ moves = 0
    BY InitWalk DEF ReportInit, Init
  <1>2. pc = "gameManager" /\ startedAt = 0 /\ i = 0 /\ rows = [t \in 1 .. 2 |-> << >>]
    BY DEF ReportInit
  <1>3. /\ rows \in [1 .. 2 -> Seq(Row)] /\ RowsApart /\ NoGhostRows
        /\ \A t \in 1 .. 2 : Len(rows[t]) = 0
    BY <1>2, NoRows
  <1>4. \A k \in Index : Occupied(k) => obj[slot[k]] \in Players
    <2> SUFFICES ASSUME NEW k \in Index, Occupied(k)
                 PROVE  obj[slot[k]] \in Players
      OBVIOUS
    <2>1. slot[k] \in Obj /\ obj \in [Obj -> Players \cup {Zeroed}]
      BY DEF ReportInit, Occupied
    <2>2. obj[slot[k]] # Zeroed
      BY <2>1, Zenon DEF ReportInit
    <2> QED
      BY <2>1, <2>2
  <1>5. local_player \in Row /\ local_player.at = None /\ local_player.name = None
    BY DEF ReportInit, Row, Names
  <1>6. manager \in Pointers
    BY Zenon DEF ReportInit
  <1>7. ReportOK
    <2>1. 0 \in Nat /\ 0 <= 0 /\ \A t \in 1 .. 2 : \A n \in 1 .. Len(rows[t]) : FALSE
      BY <1>3
    <2>2. pc \in Before /\ pc \notin AtSlot \cup {"flags", "success", "name", "team"}
      BY <1>2 DEF Before, AtSlot
    <2>3. /\ local \in Obj \cup {NoObj} /\ slot \in [Index -> Obj \cup {NoObj}]
          /\ obj \in [Obj -> Players \cup {Zeroed}] /\ Distinct(slot, obj)
      BY DEF ReportInit
    <2> QED
      BY <1>1, <1>2, <1>3, <1>4, <1>5, <1>6, <2>1, <2>2, <2>3 DEF ReportOK
  <1>8. Seen
    BY <1>2, <1>3 DEF Seen
  <1>9. Snapshot
    BY <1>2 DEF Snapshot, AtSlot
  <1>10. Apart
    BY <1>2, <1>3, ApartEarly DEF AtSlot
  <1> QED
    BY <1>1, <1>7, <1>8, <1>9, <1>10 DEF ReportInv

\* One step of the handler or of the game.
LEMMA NextReport == ReportInv /\ [ReportNext]_reportVars => ReportInv'
  <1> SUFFICES ASSUME ReportInv, [ReportNext]_reportVars PROVE ReportInv'
    OBVIOUS
  <1>1. CASE Handler
    BY <1>1, GameManagerKeeps, PlayerManagerKeeps, ReadLocalPlayerKeeps, PlayersKeeps,
       ClientPlayerAtKeeps, ReadNameKeeps, ReadRestKeeps, AddFlagsKeeps, Zenon DEF Handler
  <1>2. CASE PlayersMove
    BY <1>2, PlayersMoveKeeps
  <1>3. CASE PointsMove
    BY <1>3, PointsMoveKeeps
  <1>4. CASE Answered \/ UNCHANGED reportVars
    BY <1>4, ReportIdle DEF Answered
  <1> QED
    BY <1>1, <1>2, <1>3, <1>4 DEF ReportNext

\* ReportInv holds whatever the game does while the request is answered.
THEOREM ReportInvariant == ReportSpec => []ReportInv
  <1> QED
    BY InitReport, NextReport, PTL DEF ReportSpec

\* Nobody is listed by read_remote_players who was not in a slot of the
\* PlayerList at some time during the request.
THEOREM RowsAreNoGhosts == ReportSpec => []NoGhostRows
  <1>1. ReportInv => NoGhostRows
    BY DEF ReportInv, Seen
  <1> QED
    BY <1>1, ReportInvariant, PTL

\* If the game does not move during the request, the report is the state of
\* the game, and fails only for the pointer that is missing.
THEOREM QuietSnapshot == ReportSpec => []QuietReportIsSnapshot
  <1>1. ASSUME ReportInv PROVE QuietReportIsSnapshot
    <2> SUFFICES ASSUME moves = startedAt PROVE QuietReportIsSnapshot
      BY DEF QuietReportIsSnapshot
    <2>1. Snapshot /\ ReportOK /\ WalkInv
      BY <1>1 DEF ReportInv
    <2>2. /\ pc = "bad client game manager" => ~manager.gameManager
          /\ pc = "bad client player manager" => ~manager.playerManager
          /\ pc = "500" => local = NoObj \/ ~manager.playerList
      BY <2>1, Zenon DEF Snapshot
    <2>3. ASSUME pc = "success"
          PROVE  /\ \A f \in DOMAIN manager : manager[f]
                 /\ \A t \in 1 .. 2 : Lists(rows[t], t, Slots)
                 /\ local_player.name = IF Named(local) THEN LocalName ELSE None
                 /\ local_player.at = IF LocalName \in InSlots THEN LocalName ELSE None
                 /\ flags = points
      <3>1. i = Slots /\ walk = "ok" /\ startedAt <= movedAt
        BY <2>1, <2>3 DEF ReportOK
      <3>2. /\ pc \notin {"gameManager", "playerManager", "bad client game manager",
                          "bad client player manager"}
            /\ pc \in AtSlot \cup {"flags", "success"}
            /\ pc \in AtSlot \cup {"players", "flags", "success"}
        BY <2>3
      <3>3. /\ manager.gameManager /\ manager.playerManager /\ manager.playerList
            /\ \A t \in 1 .. 2 : Lists(rows[t], t, i)
            /\ local_player.at =
                 IF \E k \in Index : k < i /\ Occupied(k) /\ Nm(k) = LocalName
                 THEN LocalName ELSE None
            /\ local_player.name = IF Named(local) THEN LocalName ELSE None
        BY <2>1, <3>2, Zenon DEF Snapshot
      <3>4. \A f \in DOMAIN manager : manager[f]
        <4>1. DOMAIN manager = {"gameManager", "playerManager", "playerList"}
          BY <2>1 DEF ReportOK, Pointers
        <4> QED
          BY <3>3, <4>1, Zenon
      <3>5. LocalName \in InSlots
              <=> \E k \in Index : k < i /\ Occupied(k) /\ Nm(k) = LocalName
        <4>1. \A k \in Index : k < i
          BY <3>1, SlotsAssumption DEF Index
        <4> QED
          BY <4>1, Zenon DEF InSlots, Occupied, Nm
      <3>6. flags = points
        <4>1. Quiet
          BY <2>1, <3>1 DEF Quiet, WalkInv, WalkOK, ReportOK
        <4>2. flags = before
          BY <2>1, <3>1, <4>1, WalkInvRows DEF StablePointsAreReported
        <4>3. points = before
          BY <2>1, <3>1, <4>1 DEF WalkInv, QuietWalk
        <4> QED
          BY <4>2, <4>3
      <3> QED
        BY <3>1, <3>3, <3>4, <3>5, <3>6, Zenon
    <2> QED
      BY <2>2, <2>3, Zenon DEF QuietReportIsSnapshot
  <1> QED
    BY <1>1, ReportInvariant, PTL

\* A single move of the game during a request never mixes up the rows of
\* read_remote_players: every row has its own player's position, and nobody
\* has two.
THEOREM OneMoveMixesNoRows == ReportSpec => []OneMoveKeepsRowsApart
  <1>1. ASSUME ReportInv PROVE OneMoveKeepsRowsApart
    <2> DEFINE all == {r \in (1 .. 2) \X (1 .. Slots) : r[2] <= Len(rows[r[1]])}
    <2> SUFFICES ASSUME moves < startedAt + 2
                 PROVE  /\ \A r \in all : rows[r[1]][r[2]].name = rows[r[1]][r[2]].at
                        /\ \A r, s \in all :
                             r # s => rows[r[1]][r[2]].name # rows[s[1]][s[2]].name
      BY Zenon DEF OneMoveKeepsRowsApart
    <2>1. RowsApart /\ rows \in [1 .. 2 -> Seq(Row)]
      BY <1>1 DEF ReportInv, Apart, ReportOK
    <2>2. \A r \in all : r[1] \in 1 .. 2 /\ r[2] \in 1 .. Len(rows[r[1]]) /\ r = <<r[1], r[2]>>
      BY <2>1, SlotsAssumption
    <2> HIDE DEF all
    <2>3. \A r \in all : rows[r[1]][r[2]].name = rows[r[1]][r[2]].at
      BY <2>1, <2>2 DEF RowsApart
    <2>4. \A r, s \in all : rows[r[1]][r[2]].name = rows[s[1]][s[2]].name => r = s
      <3> SUFFICES ASSUME NEW r \in all, NEW s \in all,
                          rows[r[1]][r[2]].name = rows[s[1]][s[2]].name
                   PROVE  r = s
        OBVIOUS
      <3>1. PICK t, j, u, k : t = r[1] /\ j = r[2] /\ u = s[1] /\ k = s[2]
        OBVIOUS
      <3>2. /\ t \in 1 .. 2 /\ j \in 1 .. Len(rows[t]) /\ r = <<t, j>>
            /\ u \in 1 .. 2 /\ k \in 1 .. Len(rows[u]) /\ s = <<u, k>>
            /\ rows[t][j].name = rows[u][k].name
        BY <2>2, <3>1, Zenon
      <3>3. t = u /\ j = k
        BY <2>1, <3>2, Zenon DEF RowsApart
      <3> QED
        BY <3>2, <3>3, Zenon
    <2> QED
      BY <2>3, <2>4, Zenon
  <1> QED
    BY <1>1, ReportInvariant, PTL

\* The same holds of the flags within a request, where the players move too:
\* the rows are distinct capture points that existed during the walk, no more
\* than those, and a successful walk leaves out none that existed throughout.
THEOREM FlagsOfTheReport ==
  ReportSpec => [](RowsWereMembers /\ RowsAreFew /\ StablePointsAreReported)
  <1>1. ReportInv => RowsWereMembers /\ RowsAreFew /\ StablePointsAreReported
    BY WalkInvRows, WalkInvFewRows DEF ReportInv
  <1> QED
    BY <1>1, ReportInvariant, PTL

-----------------------------------------------------------------------------
(* Players who stay where they are. *)

Tm(k) == obj[slot[k]].team

\* n is the name of a row of rs.
RowIn(rs, n) == \E t \in 1 .. 2 : \E j \in 1 .. Len(rs[t]) : rs[t][j].name = n

\* Of all rows of rs one has the name n: it is in list t, with n's position.
OnlyRow(rs, n, t) ==
  \E j \in 1 .. Len(rs[t]) :
    /\ rs[t][j].name = n /\ rs[t][j].at = n
    /\ \A u \in 1 .. 2 : \A l \in 1 .. Len(rs[u]) : rs[u][l].name = n => u = t /\ l = j

\* The report says of the player n of team t what it should: me is the local
\* player's name and at the one whose position he was given.
Said(rs, me, at, n, t) ==
  /\ n = me => at = n /\ ~RowIn(rs, n)
  /\ n # me /\ t \in 1 .. 2 => OnlyRow(rs, n, t)
  /\ n # me /\ t \notin 1 .. 2 => ~RowIn(rs, n)

\* Whoever stays in his slot is in the report as soon as the slot was read,
\* and not before; and no other slot's player can be taken for him.
Steady ==
  /\ \A k \in steady : k \in Index /\ Occupied(k)
  /\ pc \in AtSlot \cup {"flags", "success"} =>
       \A k \in steady : IF k < i THEN Said(rows, local_name, local_player.at, Nm(k), Tm(k))
                                  ELSE ~RowIn(rows, Nm(k))
  /\ pc \in {"name", "team"} =>
       \A k \in steady : IF k = i THEN o = slot[k] ELSE o # slot[k] /\ obj[o].name # Nm(k)
  /\ pc = "team" => \A k \in steady : name = Nm(k) <=> k = i

\* A steady player is a player: he has an object and a name.
LEMMA SteadyNamed ==
  ASSUME ReportOK, Steady, NEW k \in steady
  PROVE  /\ k \in Index /\ Occupied(k) /\ slot[k] \in Obj /\ obj[slot[k]] \in Players
         /\ Nm(k) # NoName
  <1>1. k \in Index /\ Occupied(k)
    BY DEF Steady
  <1>2. slot[k] \in Obj /\ obj[slot[k]] \in Players
    BY <1>1 DEF ReportOK, Occupied
  <1> QED
    BY <1>1, <1>2, PlayerRecords DEF Nm

\* What a move of the players does to those who stay: nothing; and no object
\* gets a name that somebody in a slot has.
Undisturbed ==
  /\ steady' \subseteq steady
  /\ \A k \in steady' : slot'[k] = slot[k] /\ obj'[slot[k]] = obj[slot[k]]
  /\ \A x \in Obj : \/ obj'[x].name \in {obj[x].name, NoName}
                    \/ \A k \in Index : Occupied(k) => Nm(k) # obj'[x].name

LEMMA JoinDisturbsNobody ==
  ASSUME ReportOK, Steady, NEW k0 \in Index, NEW x \in Obj, NEW pl \in Players,
         join(k0, x, pl)
  PROVE  Undisturbed
  <1>1. /\ slot[k0] = NoObj /\ \A j \in Index : slot[j] # x
        /\ slot' = [slot EXCEPT ![k0] = x]
        /\ obj' = [obj EXCEPT ![x] = pl]
        /\ Distinct(slot', obj')
        /\ steady' = steady
    BY DEF join
  <1>2. slot \in [Index -> Obj \cup {NoObj}] /\ obj \in [Obj -> Players \cup {Zeroed}]
    BY DEF ReportOK
  <1>3. /\ slot'[k0] = x /\ x # NoObj
        /\ \A k \in Index : k # k0 => slot'[k] = slot[k]
    BY <1>1, <1>2, NoObjAssumption
  <1>4. obj'[x] = pl /\ \A y \in Obj : y # x => obj'[y] = obj[y]
    BY <1>1, <1>2
  <1>5. \A k \in Index : Occupied(k) =>
          /\ k # k0 /\ slot'[k] = slot[k] /\ slot[k] \in Obj /\ slot[k] # x
          /\ obj'[slot[k]] = obj[slot[k]]
    BY <1>1, <1>2, <1>3, <1>4 DEF Occupied
  <1>6. \A k \in Index : Occupied(k) => Nm(k) # pl.name
    <2> SUFFICES ASSUME NEW k \in Index, Occupied(k) PROVE Nm(k) # pl.name
      OBVIOUS
    <2>1. k # k0 /\ slot'[k] # NoObj /\ slot'[k0] # NoObj
      BY <1>3, <1>5 DEF Occupied
    <2>2. obj'[slot'[k]].name # obj'[slot'[k0]].name
      BY <1>1, <2>1, Zenon DEF Distinct
    <2> QED
      BY <1>3, <1>4, <1>5, <2>2 DEF Nm
  <1>7. \A k \in steady : k \in Index /\ Occupied(k)
    BY SteadyNamed
  <1> QED
    BY <1>1, <1>4, <1>5, <1>6, <1>7, Zenon DEF Undisturbed

LEMMA LeaveDisturbsNobody ==
  ASSUME ReportOK, Steady, NEW k0 \in Index, leave(k0)
  PROVE  Undisturbed
  <1>1. /\ slot[k0] # NoObj
        /\ slot' = [slot EXCEPT ![k0] = NoObj]
        /\ obj' = obj \/ obj' = [obj EXCEPT ![slot[k0]] = Zeroed]
        /\ steady' = steady \ {k0}
    BY DEF leave
  <1>2. slot \in [Index -> Obj \cup {NoObj}] /\ obj \in [Obj -> Players \cup {Zeroed}]
    BY DEF ReportOK
  <1>3. /\ \A k \in Index : k # k0 => slot'[k] = slot[k]
        /\ \A y \in Obj : y # slot[k0] => obj'[y] = obj[y]
        /\ \A y \in Obj : obj'[y] \in {obj[y], Zeroed}
    BY <1>1, <1>2
  <1>4. ASSUME NEW k \in steady'
        PROVE  slot'[k] = slot[k] /\ obj'[slot[k]] = obj[slot[k]]
    <2>1. k \in steady /\ k # k0
      BY <1>1, <1>4
    <2>2. k \in Index /\ Occupied(k) /\ slot[k] \in Obj
      BY <2>1, SteadyNamed
    <2>3. slot[k] # slot[k0]
      BY <1>1, <2>1, <2>2, ObjectsDiffer DEF Occupied
    <2> QED
      BY <1>3, <2>1, <2>2, <2>3
  <1>5. \A y \in Obj : obj'[y].name \in {obj[y].name, NoName}
    BY <1>3, PlayerRecords
  <1>6. steady' \subseteq steady
    BY <1>1
  <1> QED
    BY <1>4, <1>5, <1>6, Zenon DEF Undisturbed

LEMMA ChangeTeamDisturbsNobody ==
  ASSUME ReportOK, Steady, NEW k0 \in Index, NEW t, changeTeam(k0, t)
  PROVE  Undisturbed
  <1>1. /\ slot[k0] # NoObj /\ slot' = slot
        /\ obj' = [obj EXCEPT ![slot[k0]] = [obj[slot[k0]] EXCEPT !.team = t]]
        /\ steady' = steady \ {k0}
    BY DEF changeTeam
  <1>2. /\ slot \in [Index -> Obj \cup {NoObj}] /\ obj \in [Obj -> Players \cup {Zeroed}]
        /\ \A k \in Index : Occupied(k) => obj[slot[k]] \in Players
    BY DEF ReportOK
  <1>3. PICK x \in Obj : x = slot[k0]
    BY <1>1, <1>2
  <1>4. PICK pl : pl = [obj[x] EXCEPT !.team = t]
    OBVIOUS
  <1>5. pl.name = obj[x].name
    <2>1. obj[x] \in [name : STRING \ {NoName}, team : Int]
      BY <1>1, <1>2, <1>3, PlayersAssumption DEF Occupied
    <2> QED
      BY <1>4, <2>1
  <1>6. obj' = [obj EXCEPT ![x] = pl]
    BY <1>1, <1>3, <1>4
  <1>7. obj'[x] = pl /\ \A y \in Obj : y # x => obj'[y] = obj[y]
    BY <1>2, <1>6
  <1>8. ASSUME NEW k \in steady'
        PROVE  slot'[k] = slot[k] /\ obj'[slot[k]] = obj[slot[k]]
    <2>1. k \in steady /\ k # k0
      BY <1>1, <1>8
    <2>2. k \in Index /\ Occupied(k) /\ slot[k] \in Obj
      BY <2>1, SteadyNamed
    <2>3. slot[k] # x
      BY <1>1, <1>3, <2>1, <2>2, ObjectsDiffer DEF Occupied
    <2> QED
      BY <1>1, <1>7, <2>2, <2>3
  <1>9. \A y \in Obj : obj'[y].name = obj[y].name
    BY <1>5, <1>7
  <1>10. steady' \subseteq steady
    BY <1>1
  <1> QED
    BY <1>8, <1>9, <1>10, Zenon DEF Undisturbed

\* The players move.
LEMMA PlayersMoveSteady ==
  ASSUME ReportInv, Steady, PlayersMove
  PROVE  Steady'
  <1>1. ReportOK
    BY DEF ReportInv
  <1>2. Undisturbed
    <2>1. ASSUME NEW k \in Index, NEW x \in Obj, NEW pl \in Players, join(k, x, pl)
          PROVE  Undisturbed
      BY <1>1, <2>1, JoinDisturbsNobody
    <2>2. ASSUME NEW k \in Index, leave(k)
          PROVE  Undisturbed
      BY <1>1, <2>2, LeaveDisturbsNobody
    <2>3. ASSUME NEW k \in Index, NEW t, changeTeam(k, t)
          PROVE  Undisturbed
      BY <1>1, <2>3, ChangeTeamDisturbsNobody
    <2>4. ASSUME NEW p, NEW x, setPointers(p, x)
          PROVE  Undisturbed
      <3>1. slot' = slot /\ obj' = obj /\ steady' = steady
        BY <2>4 DEF setPointers
      <3> QED
        BY <3>1 DEF Undisturbed
    <2> QED
      BY <2>1, <2>2, <2>3, <2>4, Zenon DEF PlayersMove
  <1>3. UNCHANGED <<pc, i, o, name, rows, local_name, local_player>>
    <2>1. UNCHANGED <<pc, reqVars>>
      BY Zenon DEF PlayersMove, join, leave, changeTeam, setPointers, Move
    <2> QED
      BY <2>1 DEF reqVars
  <1>4. ASSUME NEW k \in steady'
        PROVE  /\ k \in steady /\ k \in Index /\ Occupied(k)' /\ slot'[k] = slot[k]
               /\ Nm(k)' = Nm(k) /\ Tm(k)' = Tm(k)
    <2>1. k \in steady /\ slot'[k] = slot[k] /\ obj'[slot[k]] = obj[slot[k]]
      BY <1>2 DEF Undisturbed
    <2>2. k \in Index /\ Occupied(k)
      BY <1>1, <2>1, SteadyNamed
    <2> QED
      BY <2>1, <2>2 DEF Occupied, Nm, Tm
  <1>5. ASSUME pc' \in AtSlot \cup {"flags", "success"}, NEW k \in steady'
        PROVE  IF k < i' THEN Said(rows', local_name', local_player'.at, Nm(k)', Tm(k)')
                         ELSE ~RowIn(rows', Nm(k)')
    <2>1. IF k < i THEN Said(rows, local_name, local_player.at, Nm(k), Tm(k))
                   ELSE ~RowIn(rows, Nm(k))
      BY <1>3, <1>4, <1>5, Zenon DEF Steady
    <2> QED
      BY <1>3, <1>4, <2>1, Zenon
  <1>6. ASSUME pc' \in {"name", "team"}, NEW k \in steady'
        PROVE  IF k = i' THEN o' = slot'[k] ELSE o' # slot'[k] /\ obj'[o'].name # Nm(k)'
    <2>1. IF k = i THEN o = slot[k] ELSE o # slot[k] /\ obj[o].name # Nm(k)
      BY <1>3, <1>4, <1>6, Zenon DEF Steady
    <2>2. o \in Obj
      BY <1>1, <1>3, <1>6 DEF ReportOK
    <2>3. Occupied(k) /\ Nm(k) # NoName /\ k \in Index
      BY <1>1, <1>4, SteadyNamed
    <2>4. \/ obj'[o].name \in {obj[o].name, NoName}
          \/ Nm(k) # obj'[o].name
      BY <1>2, <2>2, <2>3, Zenon DEF Undisturbed
    <2> QED
      BY <1>3, <1>4, <2>1, <2>3, <2>4
  <1>7. ASSUME pc' = "team", NEW k \in steady'
        PROVE  name' = Nm(k)' <=> k = i'
    BY <1>3, <1>4, <1>7, Zenon DEF Steady
  <1> QED
    BY <1>4, <1>5, <1>6, <1>7, Zenon DEF Steady

\* Steps that leave the loop over the slots alone.
LEMMA SteadyStays ==
  ASSUME Steady, ReportOK, UNCHANGED <<playerVars, reqVars, steady>>,
         pc' = pc \/ pc' \in Before \cup Failed \/ (pc = "flags" /\ pc' = "success")
  PROVE  Steady'
  <1>1. UNCHANGED <<slot, obj, i, o, name, rows, local_name, local_player, steady>>
    BY DEF playerVars, reqVars
  <1>2. \A k : (Occupied(k)' <=> Occupied(k)) /\ Nm(k)' = Nm(k) /\ Tm(k)' = Tm(k)
    BY <1>1, Zenon DEF Occupied, Nm, Tm
  <1>3. /\ pc' \in AtSlot \cup {"flags", "success"} => pc \in AtSlot \cup {"flags", "success"}
        /\ pc' \in {"name", "team"} => pc' = pc
    BY DEF Before, Failed, AtSlot
  <1> QED
    BY <1>1, <1>2, <1>3, Zenon DEF Steady

\* Steps before the first slot is read.
LEMMA SteadyEarly ==
  ASSUME \A k \in steady' : k \in Index /\ Occupied(k)',
         pc' \in Before \cup Failed
  PROVE  Steady'
  <1>1. pc' \notin AtSlot \cup {"flags", "success", "name", "team"}
    BY DEF Before, Failed, AtSlot
  <1> QED
    BY <1>1 DEF Steady

LEMMA BeforeSlotsSteady ==
  ASSUME ReportInv, Steady, gameManager \/ playerManager \/ read_local_player \/ players
  PROVE  Steady'
  <1>1. ReportOK
    BY DEF ReportInv
  <1>2. slot' = slot /\ \A k : Occupied(k)' <=> Occupied(k)
    BY DEF gameManager, playerManager, read_local_player, players, playerVars, Occupied
  <1>3. CASE gameManager
    <2>1. steady' = {k \in Index : slot[k] # NoObj} /\ pc' \in Before \cup Failed
      BY <1>3 DEF gameManager, Before, Failed
    <2> QED
      BY <1>2, <2>1, SteadyEarly DEF Occupied
  <1>4. CASE playerManager \/ read_local_player
    <2>1. steady' = steady /\ pc' \in Before \cup Failed
      BY <1>4 DEF playerManager, read_local_player, Before, Failed
    <2> QED
      BY <1>2, <2>1, SteadyEarly, Zenon DEF Steady
  <1>5. CASE players
    <2>1. /\ pc = "players" /\ steady' = steady /\ i' = 0 /\ rows' = rows
          /\ pc' \in {"clientPlayerAt", "500"}
      BY <1>5 DEF players
    <2>2. CASE pc' = "500"
      BY <1>2, <2>1, <2>2, SteadyEarly, Zenon DEF Steady, Failed
    <2>3. CASE pc' = "clientPlayerAt"
      <3>1. rows = [t \in 1 .. 2 |-> << >>]
        BY <1>1, <2>1 DEF ReportOK, Before
      <3>2. \A n : ~RowIn(rows', n)
        BY <2>1, <3>1, NoRows DEF RowIn
      <3>3. \A k \in steady' : k \in Index /\ Occupied(k)'
        BY <1>2, <2>1, Zenon DEF Steady
      <3>4. \A k \in steady' : ~(k < i')
        BY <2>1, <3>3, SlotsAssumption DEF Index
      <3>5. pc' \notin {"name", "team"}
        BY <2>3
      <3> QED
        BY <3>2, <3>3, <3>4, <3>5, Zenon DEF Steady
    <2> QED
      BY <2>1, <2>2, <2>3
  <1> QED
    BY <1>3, <1>4, <1>5

\* The end of the loop body.
LEMMA SteadyNext ==
  ASSUME Steady, ReportOK, i \in Nat, NextSlot, UNCHANGED <<playerVars, steady>>,
         \A k \in steady :
           IF k < i \/ k = i
           THEN Said(rows', local_name', local_player'.at, Nm(k), Tm(k))
           ELSE ~RowIn(rows', Nm(k))
  PROVE  Steady'
  <1>1. slot' = slot /\ obj' = obj /\ steady' = steady /\ i' = i + 1
    BY DEF playerVars, NextSlot
  <1>2. \A k : (Occupied(k)' <=> Occupied(k)) /\ Nm(k)' = Nm(k) /\ Tm(k)' = Tm(k)
    BY <1>1, Zenon DEF Occupied, Nm, Tm
  <1>3. \A k \in steady : k \in Index /\ Occupied(k)
    BY DEF Steady
  <1>4. \A k \in steady : k < i' <=> k < i \/ k = i
    BY <1>1, <1>3, SlotsAssumption DEF Index
  <1>5. pc' \notin {"name", "team"}
    BY DEF NextSlot
  <1> QED
    BY <1>1, <1>2, <1>3, <1>4, <1>5, Zenon DEF Steady

\* player_list.clientPlayerAt(i).
LEMMA ClientPlayerAtSteady ==
  ASSUME ReportInv, Steady, clientPlayerAt
  PROVE  Steady'
  <1>1. /\ ReportOK /\ pc = "clientPlayerAt" /\ pc \in AtSlot
        /\ UNCHANGED <<playerVars, steady>>
        /\ UNCHANGED <<rows, local_name, local_player>>
    BY DEF ReportInv, clientPlayerAt, AtSlot
  <1>2. i \in Nat /\ i \in Index
    BY <1>1, SlotsAssumption DEF ReportOK, Index
  <1>3. \A k \in steady : IF k < i THEN Said(rows, local_name, local_player.at, Nm(k), Tm(k))
                                   ELSE ~RowIn(rows, Nm(k))
    BY <1>1, Zenon DEF Steady
  <1>4. CASE slot[i] = NoObj
    <2>1. NextSlot
      BY <1>4 DEF clientPlayerAt
    <2>2. \A k \in steady : k # i
      BY <1>4, <1>1, SteadyNamed DEF Occupied
    <2> QED
      BY <1>1, <1>2, <1>3, <2>1, <2>2, SteadyNext, Zenon
  <1>5. CASE slot[i] # NoObj
    <2>1. o' = slot[i] /\ pc' = "name" /\ i' = i
      BY <1>5 DEF clientPlayerAt
    <2>2. slot' = slot /\ obj' = obj /\ steady' = steady
      BY <1>1 DEF playerVars
    <2>3. \A k : (Occupied(k)' <=> Occupied(k)) /\ Nm(k)' = Nm(k) /\ Tm(k)' = Tm(k)
      BY <2>2, Zenon DEF Occupied, Nm, Tm
    <2>4. \A k \in steady : k # i => slot[i] # slot[k] /\ Nm(i) # Nm(k)
      BY <1>1, <1>2, <1>5, SteadyNamed, ObjectsDiffer DEF Occupied
    <2>5. \A k \in steady : IF k = i THEN o' = slot'[k] ELSE o' # slot'[k] /\ obj'[o'].name # Nm(k)'
      <3>1. obj'[o'].name = Nm(i)
        BY <2>1, <2>2 DEF Nm
      <3> QED
        BY <2>1, <2>2, <2>3, <2>4, <3>1
    <2>6. pc' # "team" /\ \A k \in steady : k \in Index /\ Occupied(k)'
      BY <1>1, <2>1, <2>3, SteadyNamed
    <2> QED
      BY <1>1, <1>3, <2>1, <2>2, <2>3, <2>5, <2>6, Zenon DEF Steady
  <1> QED
    BY <1>4, <1>5

\* p.name(): a steady player has one, so it is not his slot that is skipped.
LEMMA ReadNameSteady ==
  ASSUME ReportInv, Steady, readName
  PROVE  Steady'
  <1>1. /\ ReportOK /\ pc = "name" /\ pc \in AtSlot
        /\ UNCHANGED <<playerVars, steady>>
        /\ UNCHANGED <<rows, local_name, local_player, o>>
    BY DEF ReportInv, readName, AtSlot
  <1>2. i \in Nat /\ i \in Index
    BY <1>1, SlotsAssumption DEF ReportOK, Index
  <1>3. /\ \A k \in steady : IF k < i THEN Said(rows, local_name, local_player.at, Nm(k), Tm(k))
                                      ELSE ~RowIn(rows, Nm(k))
        /\ \A k \in steady : IF k = i THEN o = slot[k] ELSE o # slot[k] /\ obj[o].name # Nm(k)
    BY <1>1, Zenon DEF Steady
  <1>4. \A k \in steady : obj[o].name = Nm(k) <=> k = i
    BY <1>3 DEF Nm
  <1>5. CASE obj[o].name = NoName
    <2>1. NextSlot
      BY <1>5 DEF readName
    <2>2. \A k \in steady : k # i
      BY <1>1, <1>4, <1>5, SteadyNamed
    <2> QED
      BY <1>1, <1>2, <1>3, <2>1, <2>2, SteadyNext, Zenon
  <1>6. CASE obj[o].name # NoName
    <2>1. name' = obj[o].name /\ pc' = "team" /\ i' = i
      BY <1>6 DEF readName
    <2>2. slot' = slot /\ obj' = obj /\ steady' = steady
      BY <1>1 DEF playerVars
    <2>3. \A k : (Occupied(k)' <=> Occupied(k)) /\ Nm(k)' = Nm(k) /\ Tm(k)' = Tm(k)
      BY <2>2, Zenon DEF Occupied, Nm, Tm
    <2>4. \A k \in steady : k \in Index /\ Occupied(k)'
      BY <1>1, <2>3, SteadyNamed
    <2> QED
      BY <1>1, <1>3, <1>4, <2>1, <2>2, <2>3, <2>4, Zenon DEF Steady
  <1> QED
    BY <1>5, <1>6

\* A new row: those with other names are as before.
LEMMA RowOfOneName ==
  ASSUME rows \in [1 .. 2 -> Seq(Row)], NEW t \in 1 .. 2, NEW m \in Names, NEW a \in Names,
         rows' = [rows EXCEPT ![t] = Append(@, [name |-> m, at |-> a])]
  PROVE  /\ \A n : n # m /\ ~RowIn(rows, n) => ~RowIn(rows', n)
         /\ \A n : \A u \in 1 .. 2 : n # m /\ OnlyRow(rows, n, u) => OnlyRow(rows', n, u)
         /\ ~RowIn(rows, m) /\ a = m => OnlyRow(rows', m, t)
  <1>1. PICK r \in Row : r = [name |-> m, at |-> a] /\ r.name = m /\ r.at = a
    BY DEF Row
  <1>2. /\ rows' \in [1 .. 2 -> Seq(Row)]
        /\ rows'[t] = Append(rows[t], r)
        /\ \A u \in 1 .. 2 : u # t => rows'[u] = rows[u]
        /\ \A u \in 1 .. 2 : \A j \in 1 .. Len(rows'[u]) :
             \/ j \in 1 .. Len(rows[u]) /\ rows'[u][j] = rows[u][j]
             \/ u = t /\ j = Len(rows[t]) + 1 /\ rows'[u][j] = r
    BY <1>1, RowAdded
  <1>3. /\ Len(rows[t]) \in Nat /\ Len(rows'[t]) = Len(rows[t]) + 1
        /\ rows'[t][Len(rows[t]) + 1] = r
        /\ \A j \in 1 .. Len(rows[t]) : rows'[t][j] = rows[t][j]
    BY <1>2, AppendProperties
  <1>4. \A u \in 1 .. 2 : \A j \in 1 .. Len(rows[u]) :
          j \in 1 .. Len(rows'[u]) /\ rows'[u][j] = rows[u][j]
    <2> TAKE u \in 1 .. 2
    <2> TAKE j \in 1 .. Len(rows[u])
    <2>1. CASE u = t
      BY <1>3, <2>1
    <2>2. CASE u # t
      BY <1>2, <2>2, Zenon
    <2> QED
      BY <2>1, <2>2
  <1>5. ASSUME NEW n, n # m, NEW u \in 1 .. 2, NEW j \in 1 .. Len(rows'[u]),
               rows'[u][j].name = n
        PROVE  j \in 1 .. Len(rows[u]) /\ rows'[u][j] = rows[u][j]
    <2>1. rows'[u][j] # r
      BY <1>1, <1>5
    <2>2. \/ j \in 1 .. Len(rows[u]) /\ rows'[u][j] = rows[u][j]
          \/ rows'[u][j] = r
      BY <1>2, Zenon
    <2> QED
      BY <2>1, <2>2
  <1>6. \A n : n # m /\ ~RowIn(rows, n) => ~RowIn(rows', n)
    <2> SUFFICES ASSUME NEW n, n # m, RowIn(rows', n) PROVE RowIn(rows, n)
      OBVIOUS
    <2>1. PICK u \in 1 .. 2 : \E j \in 1 .. Len(rows'[u]) : rows'[u][j].name = n
      BY DEF RowIn
    <2>2. PICK j \in 1 .. Len(rows'[u]) : rows'[u][j].name = n
      BY <2>1
    <2>3. j \in 1 .. Len(rows[u]) /\ rows'[u][j] = rows[u][j]
      BY <1>5, <2>2
    <2> QED
      BY <2>2, <2>3, Zenon DEF RowIn
  <1>7. \A n : \A u \in 1 .. 2 : n # m /\ OnlyRow(rows, n, u) => OnlyRow(rows', n, u)
    <2> SUFFICES ASSUME NEW n, NEW u \in 1 .. 2, n # m, OnlyRow(rows, n, u)
                 PROVE  OnlyRow(rows', n, u)
      OBVIOUS
    <2>1. PICK j \in 1 .. Len(rows[u]) :
            /\ rows[u][j].name = n /\ rows[u][j].at = n
            /\ \A v \in 1 .. 2 : \A l \in 1 .. Len(rows[v]) :
                 rows[v][l].name = n => v = u /\ l = j
      BY Zenon DEF OnlyRow
    <2>2. j \in 1 .. Len(rows'[u]) /\ rows'[u][j] = rows[u][j]
      BY <1>4
    <2>3. ASSUME NEW v \in 1 .. 2, NEW l \in 1 .. Len(rows'[v]), rows'[v][l].name = n
          PROVE  v = u /\ l = j
      <3>1. l \in 1 .. Len(rows[v]) /\ rows'[v][l] = rows[v][l]
        BY <1>5, <2>3
      <3> QED
        BY <2>1, <2>3, <3>1, Zenon
    <2>4. rows'[u][j].name = n /\ rows'[u][j].at = n
      BY <2>1, <2>2
    <2> QED
      BY <2>2, <2>3, <2>4, Zenon DEF OnlyRow
  <1>8. ASSUME ~RowIn(rows, m), a = m PROVE OnlyRow(rows', m, t)
    <2>1. PICK j : j = Len(rows[t]) + 1
      OBVIOUS
    <2>2. j \in 1 .. Len(rows'[t]) /\ rows'[t][j] = r
      BY <1>3, <2>1
    <2>3. ASSUME NEW v \in 1 .. 2, NEW l \in 1 .. Len(rows'[v]), rows'[v][l].name = m
          PROVE  v = t /\ l = j
      <3>1. ~(l \in 1 .. Len(rows[v]) /\ rows'[v][l] = rows[v][l])
        BY <1>8, <2>3, Zenon DEF RowIn
      <3> QED
        BY <1>2, <2>1, <3>1, Zenon
    <2>4. rows'[t][j].name = m /\ rows'[t][j].at = m
      BY <1>1, <1>8, <2>2
    <2> QED
      BY <2>2, <2>3, <2>4, Zenon DEF OnlyRow
  <1> QED
    BY <1>6, <1>7, <1>8

\* The rest of the constructor, and the row of the player.
LEMMA ReadRestSteady ==
  ASSUME ReportInv, Steady, readRest
  PROVE  Steady'
  <1>1. /\ ReportOK /\ pc = "team" /\ pc \in AtSlot /\ NextSlot
        /\ UNCHANGED <<playerVars, steady>> /\ local_name' = local_name
    BY DEF ReportInv, readRest, AtSlot
  <1>2. /\ i \in Nat /\ rows \in [1 .. 2 -> Seq(Row)] /\ local_player \in Row
        /\ name \in Names /\ o \in Obj /\ obj[o] \in Players \cup {Zeroed}
    BY <1>1 DEF ReportOK
  <1>3. PICK at, team : at = obj[o].name /\ team = obj[o].team
    OBVIOUS
  <1>4. at \in Names
    BY <1>2, <1>3, PlayerRecords
  <1>5. \/ /\ name = local_name /\ rows' = rows
           /\ local_player' = [local_player EXCEPT !.at = at]
        \/ name # local_name /\ team \notin {1, 2} /\ local_player' = local_player /\ rows' = rows
        \/ /\ name # local_name /\ team \in {1, 2} /\ local_player' = local_player
           /\ rows' = [rows EXCEPT ![team] = Append(@, [name |-> name, at |-> at])]
    BY <1>3, Zenon DEF readRest
  <1>6. \A k \in steady :
          /\ k < i => Said(rows, local_name, local_player.at, Nm(k), Tm(k))
          /\ ~(k < i) => ~RowIn(rows, Nm(k))
          /\ name = Nm(k) <=> k = i
          /\ k = i => at = Nm(k) /\ team = Tm(k)
    <2> TAKE k \in steady
    <2>1. /\ IF k < i THEN Said(rows, local_name, local_player.at, Nm(k), Tm(k))
                      ELSE ~RowIn(rows, Nm(k))
          /\ k = i => o = slot[k]
          /\ name = Nm(k) <=> k = i
      BY <1>1, Zenon DEF Steady
    <2>2. k = i => at = Nm(k) /\ team = Tm(k)
      BY <1>3, <2>1 DEF Nm, Tm
    <2> QED
      BY <2>1, <2>2
  <1>7. ~(i < i)
    BY <1>2
  <1>8. CASE name = local_name /\ rows' = rows /\ local_player' = [local_player EXCEPT !.at = at]
    <2>1. local_player'.at = at
      BY <1>2, <1>8 DEF Row
    <2>2. ASSUME NEW k \in steady
          PROVE  IF k < i \/ k = i
                 THEN Said(rows', local_name', local_player'.at, Nm(k), Tm(k))
                 ELSE ~RowIn(rows', Nm(k))
      <3>1. CASE k = i
        <4>1. Nm(k) = local_name /\ at = Nm(k) /\ ~RowIn(rows, Nm(k))
          BY <1>6, <1>7, <1>8, <3>1, Zenon
        <4> QED
          BY <1>1, <1>8, <2>1, <3>1, <4>1, Zenon DEF Said
      <3>2. CASE k # i
        <4>1. Nm(k) # local_name
          BY <1>6, <1>8, <3>2, Zenon
        <4> QED
          BY <1>1, <1>6, <1>8, <3>2, <4>1, Zenon DEF Said
      <3> QED
        BY <3>1, <3>2
    <2> QED
      BY <1>1, <1>2, <2>2, SteadyNext, Zenon
  <1>9. CASE /\ name # local_name /\ team \notin {1, 2}
             /\ local_player' = local_player /\ rows' = rows
    <2>1. ASSUME NEW k \in steady
          PROVE  IF k < i \/ k = i
                 THEN Said(rows', local_name', local_player'.at, Nm(k), Tm(k))
                 ELSE ~RowIn(rows', Nm(k))
      <3>1. CASE k = i
        <4>1. Nm(k) # local_name /\ ~RowIn(rows, Nm(k)) /\ Tm(k) \notin {1, 2}
          BY <1>6, <1>7, <1>9, <3>1, Zenon
        <4>2. Tm(k) \notin 1 .. 2
          BY <4>1
        <4> QED
          BY <1>1, <1>9, <3>1, <4>1, <4>2, Zenon DEF Said
      <3>2. CASE k # i
        BY <1>1, <1>6, <1>9, <3>2, Zenon
      <3> QED
        BY <3>1, <3>2
    <2> QED
      BY <1>1, <1>2, <2>1, SteadyNext, Zenon
  <1>10. CASE /\ name # local_name /\ team \in {1, 2} /\ local_player' = local_player
              /\ rows' = [rows EXCEPT ![team] = Append(@, [name |-> name, at |-> at])]
    <2>1. team \in 1 .. 2
      BY <1>10
    <2>2. /\ \A n : n # name /\ ~RowIn(rows, n) => ~RowIn(rows', n)
          /\ \A n : \A u \in 1 .. 2 : n # name /\ OnlyRow(rows, n, u) => OnlyRow(rows', n, u)
          /\ ~RowIn(rows, name) /\ at = name => OnlyRow(rows', name, team)
      BY <1>2, <1>4, <1>10, <2>1, RowOfOneName
    <2>3. ASSUME NEW k \in steady
          PROVE  IF k < i \/ k = i
                 THEN Said(rows', local_name', local_player'.at, Nm(k), Tm(k))
                 ELSE ~RowIn(rows', Nm(k))
      <3>1. CASE k = i
        <4>1. /\ Nm(k) = name /\ at = name /\ Tm(k) = team
              /\ ~RowIn(rows, name) /\ name # local_name
          BY <1>6, <1>7, <1>10, <3>1, Zenon
        <4>2. OnlyRow(rows', Nm(k), Tm(k))
          BY <2>2, <4>1, Zenon
        <4> QED
          BY <1>1, <2>1, <3>1, <4>1, <4>2, Zenon DEF Said
      <3>2. CASE k # i /\ k < i
        <4>1. Nm(k) # name /\ Said(rows, local_name, local_player.at, Nm(k), Tm(k))
          BY <1>6, <3>2, Zenon
        <4> QED
          BY <1>1, <1>10, <2>2, <3>2, <4>1, Zenon DEF Said
      <3>3. CASE k # i /\ ~(k < i)
        <4>1. Nm(k) # name /\ ~RowIn(rows, Nm(k))
          BY <1>6, <3>3, Zenon
        <4> QED
          BY <2>2, <3>3, <4>1, Zenon
      <3> QED
        BY <3>1, <3>2, <3>3
    <2> QED
      BY <1>1, <1>2, <2>3, SteadyNext, Zenon
  <1> QED
    BY <1>5, <1>8, <1>9, <1>10, Zenon

\* One step of the handler or of the game.
LEMMA NextSteady == ReportInv /\ Steady /\ [ReportNext]_reportVars => Steady'
  <1> SUFFICES ASSUME ReportInv, Steady, [ReportNext]_reportVars PROVE Steady'
    OBVIOUS
  <1>0. ReportOK
    BY DEF ReportInv
  <1>1. CASE gameManager \/ playerManager \/ read_local_player \/ players
    BY <1>1, BeforeSlotsSteady
  <1>2. CASE clientPlayerAt \/ readName \/ readRest
    BY <1>2, ClientPlayerAtSteady, ReadNameSteady, ReadRestSteady
  <1>3. CASE addFlags
    <2>1. UNCHANGED <<playerVars, reqVars, steady>>
      BY <1>3 DEF addFlags
    <2>2. pc' = pc \/ pc' \in Before \cup Failed \/ (pc = "flags" /\ pc' = "success")
      BY <1>3 DEF addFlags, Failed
    <2> QED
      BY <1>0, <2>1, <2>2, SteadyStays
  <1>4. CASE PlayersMove
    BY <1>4, PlayersMoveSteady
  <1>5. CASE PointsMove
    BY <1>0, <1>5, SteadyStays DEF PointsMove
  <1>6. CASE Answered \/ UNCHANGED reportVars
    BY <1>0, <1>6, SteadyStays DEF Answered, reportVars
  <1> QED
    BY <1>1, <1>2, <1>3, <1>4, <1>5, <1>6, Zenon DEF ReportNext, Handler

\* However much the game moves, a player who keeps his slot and his team
\* during a request is listed once, under his team and with his position, or
\* gives the position to the local player, whose name he has.
THEOREM SteadyPlayersListed == ReportSpec => []SteadyPlayersAreListed
  <1>1. ReportInit => Steady
    <2> SUFFICES ASSUME ReportInit PROVE Steady
      OBVIOUS
    <2>1. steady = {} /\ pc = "gameManager"
      BY DEF ReportInit
    <2> QED
      BY <2>1 DEF Steady
  <1>2. ASSUME ReportInv, Steady PROVE SteadyPlayersAreListed
    <2> SUFFICES ASSUME pc = "success", NEW k \in steady
                 PROVE  LET pl     == obj[slot[k]]
                            his(t) == {j \in 1 .. Len(rows[t]) : rows[t][j].name = pl.name}
                        IN  /\ pl.name = local_name => local_player.at = pl.name
                            /\ \A t \in 1 .. 2 :
                                 IF pl.team = t /\ pl.name # local_name
                                 THEN \E j \in his(t) : his(t) = {j} /\ rows[t][j].at = pl.name
                                 ELSE his(t) = {}
      BY Zenon DEF SteadyPlayersAreListed
    <2> DEFINE n      == obj[slot[k]].name
               team   == obj[slot[k]].team
               his(t) == {j \in 1 .. Len(rows[t]) : rows[t][j].name = n}
    <2>1. ReportOK /\ i = Slots
      BY <1>2 DEF ReportInv, ReportOK
    <2>2. k \in Index /\ k < i
      BY <1>2, <2>1, SteadyNamed, SlotsAssumption DEF Index
    <2>3. Said(rows, local_name, local_player.at, n, team)
      <3>1. Said(rows, local_name, local_player.at, Nm(k), Tm(k))
        BY <1>2, <2>2, Zenon DEF Steady
      <3> QED
        BY <3>1, Zenon DEF Nm, Tm
    <2> HIDE DEF n, team
    <2>4. ASSUME NEW t \in 1 .. 2
          PROVE  IF team = t /\ n # local_name
                 THEN \E j \in his(t) : his(t) = {j} /\ rows[t][j].at = n
                 ELSE his(t) = {}
      <3>1. CASE team = t /\ n # local_name
        <4>1. OnlyRow(rows, n, t)
          BY <2>3, <3>1, Zenon DEF Said
        <4>2. PICK j \in 1 .. Len(rows[t]) :
                /\ rows[t][j].name = n /\ rows[t][j].at = n
                /\ \A u \in 1 .. 2 : \A l \in 1 .. Len(rows[u]) :
                     rows[u][l].name = n => u = t /\ l = j
          BY <4>1, Zenon DEF OnlyRow
        <4>3. his(t) = {j}
          BY <4>2
        <4> QED
          BY <3>1, <4>2, <4>3
      <3>2. CASE ~(team = t /\ n # local_name)
        <4>1. \A j \in 1 .. Len(rows[t]) : rows[t][j].name # n
          <5>1. CASE n # local_name /\ team \in 1 .. 2
            BY <2>3, <3>2, <5>1, Zenon DEF Said, OnlyRow
          <5>2. CASE n = local_name \/ team \notin 1 .. 2
            BY <2>3, <3>2, <5>2, Zenon DEF Said, RowIn
          <5> QED
            BY <5>1, <5>2, Zenon
        <4> QED
          BY <3>2, <4>1
      <3> QED
        BY <3>1, <3>2
    <2>5. n = local_name => local_player.at = n
      BY <2>3, Zenon DEF Said
    <2> QED
      BY <2>4, <2>5 DEF n, team
  <1> QED
    BY <1>1, <1>2, NextSteady, ReportInvariant, PTL DEF ReportSpec
=============================================================================
