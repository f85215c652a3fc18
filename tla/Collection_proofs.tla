-------------------------- MODULE Collection_proofs --------------------------
(***************************************************************************)
(* Theorems about Collection: for any callbacks and rules, any number of   *)
(* sessions that share a collector, any answers in any order.              *)
(*                                                                         *)
(* The first part is about the list that collect makes of the answers, the *)
(* second about the steps of the sessions, the third about what a schema   *)
(* says of a value, and the last puts them together.                       *)
(***************************************************************************)
EXTENDS RuleCollection, FiniteSetTheorems, WellFoundedInduction, NaturalsInduction, TLAPS

(* Induction, as a fact about sets of numbers. *)
LEMMA CountingUp ==
    ASSUME NEW S \in SUBSET Nat, 0 \in S, \A n \in S : n + 1 \in S
    PROVE  S = Nat
PROOF
<1>. DEFINE T == Nat \ S
            R == OpToRel(<, Nat)
<1>. SUFFICES ASSUME T # {} PROVE FALSE
  OBVIOUS
<1>1. IsWellFoundedOn(R, Nat)
  BY NatLessThanWellFounded
<1>2. T \subseteq Nat
  OBVIOUS
<1>. HIDE DEF T, R
<1>3. PICK x \in T : \A y \in T : ~(<<y, x>> \in R)
  BY <1>1, <1>2, WFMin
<1>. USE DEF T
<1>4. x \in Nat /\ x # 0
  BY <1>3
<1>5. x - 1 \in Nat /\ x - 1 \notin S
  BY <1>3, <1>4
<1>6. <<x - 1, x>> \in R
  BY <1>4, <1>5 DEF R, OpToRel
<1>. QED  BY <1>3, <1>5, <1>6

-----------------------------------------------------------------------------
(* The piece made of the i-th result, and the first n results that said
   anything. *)
PieceOf(entries, results, i) == Piece(entries[i].name, entries[i].callback, results[i])

Said(results, n) == {i \in 1..n : results[i] # None}

(* f is what the comprehension of collect goes through. *)
Listing(f, entries, results, n, S) ==
    /\ f \in [0..n -> Seq(S)]
    /\ f[0] = << >>
    /\ \A k \in 1..n : f[k] = IF results[k] = None THEN f[k - 1]
                              ELSE Append(f[k - 1], PieceOf(entries, results, k))

LEMMA ListingExists ==
    ASSUME NEW n \in Nat, NEW entries, NEW results, NEW S,
           \A i \in 1..n : PieceOf(entries, results, i) \in S
    PROVE  \E f : Listing(f, entries, results, n, S)
PROOF
<1>. DEFINE Listed == {m \in Nat : m <= n => \E f : Listing(f, entries, results, m, S)}
            P(i) == PieceOf(entries, results, i)
<1>1. 0 \in Listed
  <2>1. Listing([k \in 0..0 |-> << >>], entries, results, 0, S)
    BY DEF Listing
  <2>. QED  BY <2>1
<1>2. ASSUME NEW m \in Listed
      PROVE  m + 1 \in Listed
  <2>. SUFFICES ASSUME m + 1 <= n PROVE \E f : Listing(f, entries, results, m + 1, S)
    OBVIOUS
  <2>1. PICK f : Listing(f, entries, results, m, S)
    OBVIOUS
  <2>2. m \in Nat /\ m + 1 \in 1..n /\ P(m + 1) \in S
    OBVIOUS
  <2>. HIDE DEF P
  <2>3. /\ f \in [0..m -> Seq(S)] /\ f[0] = << >>
        /\ \A k \in 1..m : f[k] = IF results[k] = None THEN f[k - 1] ELSE Append(f[k - 1], P(k))
    BY <2>1 DEF Listing, P
  <2>. DEFINE last == IF results[m + 1] = None THEN f[m] ELSE Append(f[m], P(m + 1))
              g == [k \in 0..(m + 1) |-> IF k <= m THEN f[k] ELSE last]
  <2>4. last \in Seq(S)
    BY <2>2, <2>3
  <2>5. last = IF results[m + 1] = None THEN f[m] ELSE Append(f[m], P(m + 1))
    OBVIOUS
  <2>. HIDE DEF last
  <2>6. g \in [0..(m + 1) -> Seq(S)]
    BY <2>2, <2>3, <2>4
  <2>7. \A k \in 0..(m + 1) : g[k] = IF k <= m THEN f[k] ELSE last
    OBVIOUS
  <2>. HIDE DEF g
  <2>8. g[0] = << >>
    BY <2>2, <2>3, <2>7
  <2>9. ASSUME NEW k \in 1..(m + 1)
        PROVE  g[k] = IF results[k] = None THEN g[k - 1] ELSE Append(g[k - 1], P(k))
    <3>1. CASE k <= m
      <4>1. k \in 1..m /\ g[k] = f[k] /\ g[k - 1] = f[k - 1]
        BY <2>2, <2>7, <3>1
      <4>. QED  BY <2>3, <4>1
    <3>2. CASE k = m + 1
      <4>1. g[k] = last /\ g[k - 1] = f[m]
        BY <2>2, <2>7, <3>2
      <4>. QED  BY <2>5, <3>2, <4>1
    <3>. QED  BY <2>2, <3>1, <3>2
  <2>10. Listing(g, entries, results, m + 1, S)
    BY <2>6, <2>8, <2>9 DEF Listing, P
  <2>. QED  BY <2>10
<1>3. Listed = Nat
  <2>1. Listed \subseteq Nat
    OBVIOUS
  <2>. HIDE DEF Listed
  <2>. QED  BY <1>1, <1>2, <2>1, CountingUp
<1>. QED
  <2>1. n \in Listed
    <3>. HIDE DEF Listed
    <3>. QED  BY <1>3
  <2>2. n <= n
    OBVIOUS
  <2>. QED  BY <2>1, <2>2

LEMMA PiecesList ==
    ASSUME NEW n \in Nat, NEW entries, NEW results, Len(entries) = n
    PROVE  \E f, S : Listing(f, entries, results, n, S) /\ Pieces(entries, results) = f[n]
PROOF
<1>. DEFINE S == {PieceOf(entries, results, i) : i \in 1..n}
            Unrolled(u) == [k \in 0..n |->
                               IF k = 0 THEN << >>
                               ELSE IF results[k] = None THEN u[k - 1]
                               ELSE Append(u[k - 1], PieceOf(entries, results, k))]
            h == CHOOSE u : u = Unrolled(u)
<1>1. \A i \in 1..n : PieceOf(entries, results, i) \in S
  OBVIOUS
<1>. HIDE DEF S
<1>2. PICK f : Listing(f, entries, results, n, S)
  BY <1>1, ListingExists
<1>3. f = Unrolled(f)
  <2>1. \A k \in 0..n : f[k] = IF k = 0 THEN << >>
                               ELSE IF results[k] = None THEN f[k - 1]
                               ELSE Append(f[k - 1], PieceOf(entries, results, k))
    <3>. SUFFICES ASSUME NEW k \in 0..n, k # 0
                  PROVE  f[k] = IF results[k] = None THEN f[k - 1]
                                ELSE Append(f[k - 1], PieceOf(entries, results, k))
      BY <1>2 DEF Listing
    <3>1. k \in 1..n
      OBVIOUS
    <3>. QED  BY <1>2, <3>1 DEF Listing
  <2>2. f = [k \in 0..n |-> f[k]]
    BY <1>2 DEF Listing
  <2>. QED  BY <2>1, <2>2
<1>4. h = Unrolled(h)
  <2>. HIDE DEF Unrolled
  <2>. QED  BY <1>3, Zenon
<1>5. Pieces(entries, results) = h[n]
  BY DEF Pieces, PieceOf
<1>. HIDE DEF h
<1>6. \A k \in 0..n : h[k] = IF k = 0 THEN << >>
                             ELSE IF results[k] = None THEN h[k - 1]
                             ELSE Append(h[k - 1], PieceOf(entries, results, k))
  BY <1>4
<1>. DEFINE Alike == {k \in Nat : k <= n => h[k] = f[k]}
<1>7. 0 \in Alike /\ Alike \subseteq Nat
  BY <1>2, <1>6 DEF Listing
<1>8. \A k \in Alike : k + 1 \in Alike
  <2>. SUFFICES ASSUME NEW k \in Nat, k + 1 <= n, h[k] = f[k] PROVE h[k + 1] = f[k + 1]
    OBVIOUS
  <2>1. k + 1 \in 1..n /\ k + 1 \in 0..n /\ (k + 1) - 1 = k /\ k + 1 # 0
    OBVIOUS
  <2>2. h[k + 1] = IF results[k + 1] = None THEN h[k]
                   ELSE Append(h[k], PieceOf(entries, results, k + 1))
    BY <1>6, <2>1
  <2>3. f[k + 1] = IF results[k + 1] = None THEN f[k]
                   ELSE Append(f[k], PieceOf(entries, results, k + 1))
    BY <1>2, <2>1 DEF Listing
  <2>. QED  BY <2>2, <2>3
<1>9. Alike = Nat
  <2>. HIDE DEF Alike
  <2>. QED  BY <1>7, <1>8, CountingUp
<1>10. h[n] = f[n]
  BY <1>9
<1>. QED  BY <1>2, <1>5, <1>10

IsList(p) == \E S : p \in Seq(S)

(* The evidence lists what was said, in order, each piece from its own entry. *)
LEMMA PiecesFacts ==
    ASSUME NEW entries, NEW results, Len(entries) \in Nat
    PROVE  LET p == Pieces(entries, results)
               said == Said(results, Len(entries))
           IN  /\ IsList(p) /\ Len(p) = Cardinality(said)
               /\ \A i \in said : p[Cardinality(Said(results, i))] = PieceOf(entries, results, i)
               /\ Range(p) = {PieceOf(entries, results, i) : i \in said}
PROOF
<1>. DEFINE n == Len(entries)
            P(i) == PieceOf(entries, results, i)
            At(i) == Cardinality(Said(results, i))
<1>1. PICK f, S : Listing(f, entries, results, n, S) /\ Pieces(entries, results) = f[n]
  BY PiecesList
<1>2. n \in Nat
  OBVIOUS
<1>3. /\ f \in [0..n -> Seq(S)] /\ f[0] = << >>
      /\ \A k \in 1..n : f[k] = IF results[k] = None THEN f[k - 1] ELSE Append(f[k - 1], P(k))
  BY <1>1 DEF Listing
<1>. HIDE DEF n, P
<1>. DEFINE Placed(k) ==
                /\ IsFiniteSet(Said(results, k))
                /\ Len(f[k]) = At(k)
                /\ \A i \in Said(results, k) : At(i) \in 1..Len(f[k]) /\ f[k][At(i)] = P(i)
                /\ \A j \in 1..Len(f[k]) : \E i \in Said(results, k) : f[k][j] = P(i)
            G == {k \in Nat : k <= n => Placed(k)}
<1>4. Placed(0)
  <2>1. Said(results, 0) = {}
    BY DEF Said
  <2>2. IsFiniteSet({}) /\ Cardinality({}) = 0
    BY FS_EmptySet
  <2>3. Len(f[0]) = 0 /\ 1..0 = {}
    BY <1>3
  <2>. QED  BY <2>1, <2>2, <2>3
<1>5. ASSUME NEW k \in Nat, k + 1 <= n, Placed(k)
      PROVE  Placed(k + 1)
  <2>1. /\ k + 1 \in 1..n /\ (k + 1) - 1 = k /\ k \in 0..n /\ k + 1 \in 0..n
    BY <1>2, <1>5
  <2>2. f[k] \in Seq(S) /\ f[k + 1] \in Seq(S)
    BY <1>3, <2>1
  <2>3. f[k + 1] = IF results[k + 1] = None THEN f[k] ELSE Append(f[k], P(k + 1))
    BY <1>3, <2>1
  <2>4. CASE results[k + 1] = None
    <3>1. Said(results, k + 1) = Said(results, k)
      BY <2>4 DEF Said
    <3>. QED  BY <1>5, <2>3, <2>4, <3>1
  <2>5. CASE results[k + 1] # None
    <3>1. Said(results, k + 1) = Said(results, k) \cup {k + 1} /\ k + 1 \notin Said(results, k)
      BY <2>5 DEF Said
    <3>2. /\ IsFiniteSet(Said(results, k + 1))
          /\ At(k + 1) = At(k) + 1
      BY <1>5, <3>1, FS_AddElement
    <3>3. f[k + 1] = Append(f[k], P(k + 1)) /\ Len(f[k]) \in Nat
      BY <2>2, <2>3, <2>5
    <3>4. /\ Len(f[k + 1]) = Len(f[k]) + 1 /\ f[k + 1][Len(f[k]) + 1] = P(k + 1)
          /\ \A j \in 1..Len(f[k]) : f[k + 1][j] = f[k][j]
      BY <2>2, <3>3
    <3>. HIDE DEF At
    <3>5. ASSUME NEW i \in Said(results, k + 1)
          PROVE  At(i) \in 1..Len(f[k + 1]) /\ f[k + 1][At(i)] = P(i)
      <4>1. CASE i = k + 1
        BY <1>5, <3>2, <3>3, <3>4, <4>1
      <4>2. CASE i \in Said(results, k)
        <5>1. At(i) \in 1..Len(f[k]) /\ f[k][At(i)] = P(i)
          BY <1>5, <4>2
        <5>. QED  BY <3>3, <3>4, <5>1
      <4>. QED  BY <3>1, <4>1, <4>2
    <3>6. ASSUME NEW j \in 1..Len(f[k + 1])
          PROVE  \E i \in Said(results, k + 1) : f[k + 1][j] = P(i)
      <4>1. CASE j = Len(f[k]) + 1
        BY <3>1, <3>4, <4>1
      <4>2. CASE j \in 1..Len(f[k])
        <5>1. f[k + 1][j] = f[k][j] /\ \E i \in Said(results, k) : f[k][j] = P(i)
          BY <1>5, <3>4, <4>2
        <5>. QED  BY <3>1, <5>1
      <4>. QED  BY <3>3, <3>4, <4>1, <4>2
    <3>. QED  BY <1>5, <3>2, <3>4, <3>5, <3>6
  <2>. QED  BY <2>4, <2>5
<1>6. n \in G
  <2>1. G \subseteq Nat /\ 0 \in G
    BY <1>4
  <2>2. \A k \in G : k + 1 \in G
    <3>. SUFFICES ASSUME NEW k \in G, k + 1 <= n PROVE Placed(k + 1)
      OBVIOUS
    <3>1. k \in Nat /\ k <= n /\ (k <= n => Placed(k))
      BY <1>2
    <3>. HIDE DEF G, Placed
    <3>. QED  BY <1>5, <3>1
  <2>3. G = Nat
    <3>. HIDE DEF G
    <3>. QED  BY <2>1, <2>2, CountingUp
  <2>. HIDE DEF G
  <2>. QED  BY <1>2, <2>3
<1>7. Placed(n)
  <2>1. n <= n
    BY <1>2
  <2>. HIDE DEF Placed
  <2>. QED  BY <1>6, <2>1
<1>8. IsList(f[n])
  <2>1. f[n] \in Seq(S)
    BY <1>2, <1>3
  <2>. QED  BY <2>1 DEF IsList
<1>9. /\ Len(f[n]) = Cardinality(Said(results, n))
      /\ \A i \in Said(results, n) : f[n][Cardinality(Said(results, i))] = P(i)
  BY <1>7
<1>10. Range(f[n]) = {P(i) : i \in Said(results, n)}
  <2>1. DOMAIN f[n] = 1..Len(f[n])
    BY <1>8 DEF IsList
  <2>2. /\ \A i \in Said(results, n) : At(i) \in 1..Len(f[n]) /\ f[n][At(i)] = P(i)
        /\ \A j \in 1..Len(f[n]) : \E i \in Said(results, n) : f[n][j] = P(i)
    BY <1>7
  <2>. HIDE DEF At
  <2>. QED  BY <2>1, <2>2 DEF Range
<1>. QED  BY <1>1, <1>8, <1>9, <1>10 DEF n, P

-----------------------------------------------------------------------------
(* A session, by the values of its variables.  Before collect returns there is
   no evidence; what callbacks said is listed as above; what is counted is a
   prefix of it, one piece longer than what has returned only if the last
   submission raised after its effect. *)
Stages == {"idle", "gathering", "lost", "submitting", "returned", "raised"}

Entries == [name : Labels, callback : Callbacks]

CollectedOK(st, as, an, ru, ev) ==
    /\ as \in Seq(Entries)
    /\ st \in {"idle", "gathering"} => ru = None
    /\ st \in {"idle", "gathering", "lost"} => ev = << >>
    /\ st \in {"submitting", "returned", "raised"} /\ ru = None => ev = Pieces(as, an)

CountedOK(st, ev, nx, ct) ==
    /\ nx \in Nat
    /\ \E S : ev \in Seq(S) /\ ct \in Seq(S)
    /\ Len(ct) <= Len(ev) /\ \A i \in 1..Len(ct) : ct[i] = ev[i]
    /\ st # "raised" => Len(ct) = nx
    /\ st = "raised" => Len(ct) = nx \/ Len(ct) = nx + 1
    /\ st = "returned" => Len(ct) = Len(ev)
    /\ st \in {"idle", "gathering", "lost"} => nx = 0

SessionOK(s) ==
    /\ stage[s] \in Stages
    /\ CollectedOK(stage[s], asked[s], answers[s], rules[s], evidence[s])
    /\ CountedOK(stage[s], evidence[s], next[s], counted[s])

VariablesTyped ==
    /\ callbacks \in Seq(Entries)
    /\ DOMAIN stage = Sessions /\ DOMAIN asked = Sessions /\ DOMAIN answers = Sessions
    /\ DOMAIN rules = Sessions /\ DOMAIN evidence = Sessions /\ DOMAIN next = Sessions
    /\ DOMAIN counted = Sessions

CollectionInv == VariablesTyped /\ \A s \in Sessions : SessionOK(s)

LEMMA InitCollection == Init => CollectionInv
PROOF
<1>. SUFFICES ASSUME Init PROVE CollectionInv
  OBVIOUS
<1>1. VariablesTyped
  BY DEF Init, VariablesTyped
<1>2. ASSUME NEW s \in Sessions
      PROVE  SessionOK(s)
  <2>1. /\ stage[s] = "idle" /\ asked[s] = << >> /\ rules[s] = None /\ evidence[s] = << >>
        /\ next[s] = 0 /\ counted[s] = << >>
    BY DEF Init
  <2>2. CollectedOK("idle", << >>, answers[s], None, << >>)
    BY DEF CollectedOK
  <2>3. CountedOK("idle", << >>, 0, << >>)
    <3>1. << >> \in Seq({})
      OBVIOUS
    <3>. QED  BY <3>1 DEF CountedOK
  <2>. QED  BY <2>1, <2>2, <2>3 DEF SessionOK, Stages
<1>. QED  BY <1>1, <1>2 DEF CollectionInv

(* A step is a session's own. *)
OthersWait(s) ==
    \A t \in Sessions \ {s} :
        /\ stage'[t] = stage[t] /\ asked'[t] = asked[t] /\ answers'[t] = answers[t]
        /\ rules'[t] = rules[t] /\ evidence'[t] = evidence[t]
        /\ next'[t] = next[t] /\ counted'[t] = counted[t]

LEMMA OneSession ==
    ASSUME CollectionInv, NEW s \in Sessions, VariablesTyped', OthersWait(s), SessionOK(s)'
    PROVE  CollectionInv'
PROOF
<1>1. ASSUME NEW t \in Sessions
      PROVE  SessionOK(t)'
  <2>1. CASE t = s
    BY <2>1
  <2>2. CASE t # s
    <3>1. SessionOK(t)
      BY DEF CollectionInv
    <3>. QED  BY <2>2, <3>1 DEF SessionOK, OthersWait
  <2>. QED  BY <2>1, <2>2
<1>. QED  BY <1>1 DEF CollectionInv

LEMMA StepAddCallback ==
    ASSUME CollectionInv, NEW name \in Labels, NEW callback \in Callbacks,
           AddCallback(name, callback)
    PROVE  CollectionInv'
PROOF
<1>1. callbacks \in Seq(Entries)
  BY DEF CollectionInv, VariablesTyped
<1>2. [name |-> name, callback |-> callback] \in Entries
  BY DEF Entries
<1>3. callbacks' \in Seq(Entries)
  <2>1. CASE \E i \in DOMAIN callbacks : callbacks[i].name = name
    <3>1. callbacks' = [i \in DOMAIN callbacks |->
                           IF callbacks[i].name = name
                           THEN [callbacks[i] EXCEPT !.callback = callback] ELSE callbacks[i]]
      BY <2>1 DEF AddCallback
    <3>2. DOMAIN callbacks = 1..Len(callbacks) /\ Len(callbacks) \in Nat
      BY <1>1
    <3>3. ASSUME NEW i \in 1..Len(callbacks)
          PROVE  (IF callbacks[i].name = name
                  THEN [callbacks[i] EXCEPT !.callback = callback] ELSE callbacks[i]) \in Entries
      <4>1. callbacks[i] \in Entries
        BY <1>1
      <4>. QED  BY <4>1 DEF Entries
    <3>. QED  BY <3>1, <3>2, <3>3
  <2>2. CASE ~ \E i \in DOMAIN callbacks : callbacks[i].name = name
    <3>1. callbacks' = Append(callbacks, [name |-> name, callback |-> callback])
      BY <2>2 DEF AddCallback
    <3>. QED  BY <1>1, <1>2, <3>1
  <2>. QED  BY <2>1, <2>2
<1>. QED  BY <1>3 DEF AddCallback, session, CollectionInv, VariablesTyped, SessionOK

LEMMA StepStartCallbacks ==
    ASSUME CollectionInv, NEW s \in Sessions, StartCallbacks(s)
    PROVE  CollectionInv'
PROOF
<1>. USE DEF StartCallbacks
<1>1. VariablesTyped' /\ OthersWait(s)
  BY DEF CollectionInv, VariablesTyped, OthersWait
<1>2. SessionOK(s)'
  <2>1. /\ stage[s] = "idle" /\ SessionOK(s) /\ callbacks \in Seq(Entries)
        /\ stage'[s] = "gathering" /\ asked'[s] = callbacks
        /\ rules'[s] = rules[s] /\ evidence'[s] = evidence[s] /\ next'[s] = next[s]
        /\ counted'[s] = counted[s]
    BY DEF CollectionInv, VariablesTyped
  <2>2. CollectedOK("gathering", callbacks, answers'[s], rules[s], evidence[s])
    BY <2>1 DEF SessionOK, CollectedOK
  <2>3. CountedOK("gathering", evidence[s], next[s], counted[s])
    BY <2>1 DEF SessionOK, CountedOK
  <2>. QED  BY <2>1, <2>2, <2>3 DEF SessionOK, Stages
<1>. QED  BY <1>1, <1>2, OneSession

LEMMA StepAnswer ==
    ASSUME CollectionInv, NEW s \in Sessions, NEW i, NEW answer, Answer(s, i, answer)
    PROVE  CollectionInv'
PROOF
<1>. USE DEF Answer
<1>1. VariablesTyped' /\ OthersWait(s)
  BY DEF CollectionInv, VariablesTyped, OthersWait
<1>2. SessionOK(s)'
  <2>1. stage[s] = "gathering" /\ SessionOK(s)
    BY DEF CollectionInv
  <2>2. CollectedOK("gathering", asked[s], answers'[s], rules[s], evidence[s])
    BY <2>1 DEF SessionOK, CollectedOK
  <2>. QED  BY <2>1, <2>2 DEF SessionOK
<1>. QED  BY <1>1, <1>2, OneSession

LEMMA StepAnswerError ==
    ASSUME CollectionInv, NEW s \in Sessions, NEW i, AnswerError(s, i)
    PROVE  CollectionInv'
PROOF
<1>. USE DEF AnswerError
<1>1. VariablesTyped' /\ OthersWait(s)
  BY DEF CollectionInv, VariablesTyped, OthersWait
<1>2. SessionOK(s)'
  <2>1. stage[s] = "gathering" /\ SessionOK(s) /\ stage'[s] = "lost"
    BY DEF CollectionInv, VariablesTyped
  <2>2. CollectedOK("lost", asked[s], answers[s], rules[s], evidence[s])
    BY <2>1 DEF SessionOK, CollectedOK
  <2>3. CountedOK("lost", evidence[s], next[s], counted[s])
    BY <2>1 DEF SessionOK, CountedOK
  <2>. QED  BY <2>1, <2>2, <2>3 DEF SessionOK, Stages
<1>. QED  BY <1>1, <1>2, OneSession

(* No evidence, nothing counted. *)
LEMMA NothingYet ==
    ASSUME NEW st, NEW nx, NEW ct, CountedOK(st, << >>, nx, ct), st # "raised", st # "returned"
    PROVE  nx = 0 /\ ct = << >>
PROOF
<1>1. PICK S : ct \in Seq(S)
  BY DEF CountedOK
<1>2. Len(ct) = 0 /\ nx = 0
  BY <1>1 DEF CountedOK
<1>. QED  BY <1>1, <1>2

LEMMA FreshCount ==
    ASSUME NEW ev, IsList(ev)
    PROVE  CountedOK("submitting", ev, 0, << >>)
PROOF
<1>1. PICK S : ev \in Seq(S)
  BY DEF IsList
<1>2. << >> \in Seq(S)
  OBVIOUS
<1>. QED  BY <1>1, <1>2 DEF CountedOK

LEMMA StepGathered ==
    ASSUME CollectionInv, NEW s \in Sessions, Gathered(s)
    PROVE  CollectionInv'
PROOF
<1>. USE DEF Gathered
<1>1. VariablesTyped' /\ OthersWait(s)
  BY DEF CollectionInv, VariablesTyped, OthersWait
<1>2. SessionOK(s)'
  <2>1. /\ stage[s] = "gathering" /\ SessionOK(s) /\ rules[s] = None /\ evidence[s] = << >>
        /\ asked[s] \in Seq(Entries) /\ CountedOK("gathering", << >>, next[s], counted[s])
    BY DEF CollectionInv, SessionOK, CollectedOK
  <2>2. next[s] = 0 /\ counted[s] = << >>
    BY <2>1, NothingYet
  <2>3. CASE \E i \in DOMAIN answers[s] : Refused(answers[s][i])
    <3>1. stage'[s] = "lost" /\ evidence'[s] = << >>
      BY <2>1, <2>3 DEF CollectionInv, VariablesTyped
    <3>2. CollectedOK("lost", asked[s], answers[s], None, << >>)
      BY <2>1 DEF CollectedOK
    <3>3. CountedOK("lost", << >>, next[s], counted[s])
      BY <2>1 DEF CountedOK
    <3>. QED  BY <2>1, <3>1, <3>2, <3>3 DEF SessionOK, Stages
  <2>4. CASE ~ \E i \in DOMAIN answers[s] : Refused(answers[s][i])
    <3>1. stage'[s] = "submitting" /\ evidence'[s] = Pieces(asked[s], answers[s])
      BY <2>1, <2>4 DEF CollectionInv, VariablesTyped
    <3>2. CollectedOK("submitting", asked[s], answers[s], None, evidence'[s])
      BY <2>1, <3>1 DEF CollectedOK
    <3>3. IsList(evidence'[s])
      <4>1. Len(asked[s]) \in Nat
        BY <2>1
      <4>. QED  BY <3>1, <4>1, PiecesFacts
    <3>4. CountedOK("submitting", evidence'[s], 0, << >>)
      BY <3>3, FreshCount
    <3>. QED  BY <2>1, <2>2, <3>1, <3>2, <3>4 DEF SessionOK, Stages
  <2>. QED  BY <2>3, <2>4
<1>. QED  BY <1>1, <1>2, OneSession

LEMMA StepCollectRules ==
    ASSUME CollectionInv, NEW s \in Sessions, NEW b \in DOMAIN RuleLists,
           NEW c \in DOMAIN Contexts, CollectRules(s, b, c)
    PROVE  CollectionInv'
PROOF
<1>. DEFINE book == RuleLists[b]
            results == EvaluateAll(book, Contexts[c])
            entries == [i \in DOMAIN book |-> [name |-> None, callback |-> book[i].name]]
<1>0. /\ stage[s] = "idle" /\ rules' = [rules EXCEPT ![s] = <<b, c>>]
      /\ \/ /\ Error \in Range(results)
            /\ stage' = [stage EXCEPT ![s] = "lost"] /\ UNCHANGED evidence
         \/ /\ stage' = [stage EXCEPT ![s] = "submitting"]
            /\ evidence' = [evidence EXCEPT ![s] = Pieces(entries, results)]
      /\ UNCHANGED <<callbacks, added, asked, answers, next, counted>>
  BY DEF CollectRules
<1>1. Len(entries) \in Nat
  <2>1. book \in Seq(Range(book))
    BY RuleListsAreLists
  <2>2. DOMAIN book = 1..Len(book) /\ Len(book) \in Nat
    BY <2>1
  <2>3. entries \in Seq({[name |-> None, callback |-> book[i].name] : i \in DOMAIN book})
    BY <2>2
  <2>. QED  BY <2>3
<1>2. IsList(Pieces(entries, results))
  <2>. HIDE DEF entries, results
  <2>. QED  BY <1>1, PiecesFacts
<1>3. <<b, c>> # None
  BY NoneIsNoChoice
<1>. HIDE DEF entries, results
<1>4. VariablesTyped' /\ OthersWait(s)
  BY <1>0 DEF CollectionInv, VariablesTyped, OthersWait
<1>5. SessionOK(s)'
  <2>1. /\ SessionOK(s) /\ evidence[s] = << >> /\ asked[s] \in Seq(Entries)
        /\ CountedOK("idle", << >>, next[s], counted[s])
    BY <1>0 DEF CollectionInv, SessionOK, CollectedOK
  <2>2. next[s] = 0 /\ counted[s] = << >>
    BY <2>1, NothingYet
  <2>3. rules'[s] = <<b, c>>
    BY <1>0 DEF CollectionInv, VariablesTyped
  <2>4. CASE stage' = [stage EXCEPT ![s] = "lost"] /\ UNCHANGED evidence
    <3>1. stage'[s] = "lost" /\ evidence'[s] = << >>
      BY <2>1, <2>4 DEF CollectionInv, VariablesTyped
    <3>2. CollectedOK("lost", asked[s], answers[s], rules'[s], << >>)
      BY <2>1 DEF CollectedOK
    <3>3. CountedOK("lost", << >>, next[s], counted[s])
      BY <2>1 DEF CountedOK
    <3>. QED  BY <1>0, <3>1, <3>2, <3>3 DEF SessionOK, Stages
  <2>5. CASE /\ stage' = [stage EXCEPT ![s] = "submitting"]
             /\ evidence' = [evidence EXCEPT ![s] = Pieces(entries, results)]
    <3>1. stage'[s] = "submitting" /\ evidence'[s] = Pieces(entries, results)
      BY <2>5 DEF CollectionInv, VariablesTyped
    <3>2. CollectedOK("submitting", asked[s], answers[s], rules'[s], evidence'[s])
      BY <1>3, <2>1, <2>3 DEF CollectedOK
    <3>3. CountedOK("submitting", evidence'[s], 0, << >>)
      BY <1>2, <3>1, FreshCount
    <3>. QED  BY <1>0, <2>2, <3>1, <3>2, <3>3 DEF SessionOK, Stages
  <2>. QED  BY <1>0, <2>4, <2>5
<1>. QED  BY <1>4, <1>5, OneSession

(* One more piece is counted. *)
LEMMA PieceCounted ==
    ASSUME NEW ev, NEW nx, NEW ct, CountedOK("submitting", ev, nx, ct), nx < Len(ev)
    PROVE  LET more == Append(ct, ev[nx + 1])
           IN  /\ CountedOK("submitting", ev, nx + 1, more)
               /\ CountedOK("raised", ev, nx, more) /\ CountedOK("raised", ev, nx, ct)
PROOF
<1>. DEFINE more == Append(ct, ev[nx + 1])
<1>1. PICK S : ev \in Seq(S) /\ ct \in Seq(S)
  BY DEF CountedOK
<1>2. /\ nx \in Nat /\ Len(ct) = nx /\ Len(ev) \in Nat /\ ev[nx + 1] \in S
      /\ \A i \in 1..Len(ct) : ct[i] = ev[i]
  BY <1>1 DEF CountedOK
<1>3. /\ more \in Seq(S) /\ Len(more) = nx + 1 /\ more[nx + 1] = ev[nx + 1]
      /\ \A i \in 1..Len(ct) : more[i] = ct[i]
  BY <1>1, <1>2
<1>. HIDE DEF more
<1>4. Len(more) <= Len(ev) /\ \A i \in 1..Len(more) : more[i] = ev[i]
  BY <1>2, <1>3
<1>5. CountedOK("submitting", ev, nx + 1, more) /\ CountedOK("raised", ev, nx, more)
  BY <1>1, <1>2, <1>3, <1>4 DEF CountedOK
<1>6. CountedOK("raised", ev, nx, ct)
  BY DEF CountedOK
<1>. QED  BY <1>5, <1>6 DEF more

LEMMA StepSubmit ==
    ASSUME CollectionInv, NEW s \in Sessions, Submit(s)
    PROVE  CollectionInv'
PROOF
<1>. USE DEF Submit, Count
<1>1. VariablesTyped' /\ OthersWait(s)
  BY DEF CollectionInv, VariablesTyped, OthersWait
<1>2. SessionOK(s)'
  <2>1. /\ stage[s] = "submitting" /\ SessionOK(s) /\ next[s] < Len(evidence[s])
        /\ next'[s] = next[s] + 1
        /\ counted'[s] = Append(counted[s], evidence[s][next[s] + 1])
    BY DEF CollectionInv, VariablesTyped
  <2>2. CountedOK("submitting", evidence[s], next[s], counted[s])
    BY <2>1 DEF SessionOK
  <2>3. CountedOK("submitting", evidence[s], next'[s], counted'[s])
    BY <2>1, <2>2, PieceCounted
  <2>. QED  BY <2>1, <2>3 DEF SessionOK
<1>. QED  BY <1>1, <1>2, OneSession

LEMMA StepSubmitFails ==
    ASSUME CollectionInv, NEW s \in Sessions, NEW effect \in BOOLEAN, SubmitFails(s, effect)
    PROVE  CollectionInv'
PROOF
<1>. USE DEF SubmitFails, AfterFailed, Count
<1>1. VariablesTyped' /\ OthersWait(s)
  BY DEF CollectionInv, VariablesTyped, OthersWait
<1>2. SessionOK(s)'
  <2>1. /\ stage[s] = "submitting" /\ SessionOK(s) /\ next[s] < Len(evidence[s])
        /\ stage'[s] = "raised" /\ next'[s] = next[s]
        /\ \/ counted'[s] = Append(counted[s], evidence[s][next[s] + 1])
           \/ counted'[s] = counted[s]
    BY DEF CollectionInv, VariablesTyped
  <2>2. /\ CollectedOK("submitting", asked[s], answers[s], rules[s], evidence[s])
        /\ CountedOK("submitting", evidence[s], next[s], counted[s])
    BY <2>1 DEF SessionOK
  <2>3. CountedOK("raised", evidence[s], next[s], counted'[s])
    BY <2>1, <2>2, PieceCounted
  <2>4. CollectedOK("raised", asked[s], answers[s], rules[s], evidence[s])
    BY <2>2 DEF CollectedOK
  <2>. QED  BY <2>1, <2>3, <2>4 DEF SessionOK, Stages
<1>. QED  BY <1>1, <1>2, OneSession

LEMMA StepReturn ==
    ASSUME CollectionInv, NEW s \in Sessions, Return(s)
    PROVE  CollectionInv'
PROOF
<1>. USE DEF Return
<1>1. VariablesTyped' /\ OthersWait(s)
  BY DEF CollectionInv, VariablesTyped, OthersWait
<1>2. SessionOK(s)'
  <2>1. /\ stage[s] = "submitting" /\ SessionOK(s) /\ next[s] = Len(evidence[s])
        /\ stage'[s] = "returned"
    BY DEF CollectionInv, VariablesTyped
  <2>2. CollectedOK("returned", asked[s], answers[s], rules[s], evidence[s])
    BY <2>1 DEF SessionOK, CollectedOK
  <2>3. CountedOK("returned", evidence[s], next[s], counted[s])
    BY <2>1 DEF SessionOK, CountedOK
  <2>. QED  BY <2>1, <2>2, <2>3 DEF SessionOK, Stages
<1>. QED  BY <1>1, <1>2, OneSession

LEMMA CollectionInductive == CollectionInv /\ [Next]_vars => CollectionInv'
PROOF
<1>. SUFFICES ASSUME CollectionInv, [Next]_vars PROVE CollectionInv'
  OBVIOUS
<1>1. ASSUME NEW name \in Labels, NEW callback \in Callbacks, AddCallback(name, callback)
      PROVE  CollectionInv'
  BY <1>1, StepAddCallback
<1>2. ASSUME NEW s \in Sessions, StartCallbacks(s) PROVE CollectionInv'
  BY <1>2, StepStartCallbacks
<1>3. ASSUME NEW s \in Sessions, Gathered(s) PROVE CollectionInv'
  BY <1>3, StepGathered
<1>4. ASSUME NEW s \in Sessions, Submit(s) PROVE CollectionInv'
  BY <1>4, StepSubmit
<1>5. ASSUME NEW s \in Sessions, Return(s) PROVE CollectionInv'
  BY <1>5, StepReturn
<1>6. ASSUME NEW s \in Sessions, NEW i \in DOMAIN answers[s], AnswerError(s, i)
      PROVE  CollectionInv'
  BY <1>6, StepAnswerError
<1>7. ASSUME NEW s \in Sessions, NEW i \in DOMAIN answers[s], NEW answer \in Answers,
             Answer(s, i, answer)
      PROVE  CollectionInv'
  BY <1>7, StepAnswer
<1>8. ASSUME NEW s \in Sessions, NEW b \in DOMAIN RuleLists, NEW c \in DOMAIN Contexts,
             CollectRules(s, b, c)
      PROVE  CollectionInv'
  BY <1>8, StepCollectRules
<1>9. ASSUME NEW s \in Sessions, NEW effect \in BOOLEAN, SubmitFails(s, effect)
      PROVE  CollectionInv'
  BY <1>9, StepSubmitFails
<1>10. CASE UNCHANGED vars
  BY <1>10 DEF vars, CollectionInv, VariablesTyped, SessionOK
<1>. QED  BY <1>1, <1>2, <1>3, <1>4, <1>5, <1>6, <1>7, <1>8, <1>9, <1>10 DEF Next, Rest

-----------------------------------------------------------------------------
LEMMA InvNamesSources == CollectionInv => EvidenceNamesItsSource
PROOF
<1>. SUFFICES ASSUME CollectionInv, NEW s \in Sessions,
                     stage[s] \notin {"idle", "gathering", "lost"}, rules[s] = None
              PROVE  LET said == {i \in DOMAIN asked[s] : answers[s][i] # None}
                     IN  /\ Len(evidence[s]) = Cardinality(said)
                         /\ \A i \in said :
                                LET k == Cardinality({j \in said : j <= i})
                                IN  evidence[s][k] =
                                        [name     |-> asked[s][i].name,
                                         by       |-> asked[s][i].callback,
                                         positive |-> answers[s][i].positive,
                                         negative |-> answers[s][i].negative]
  BY DEF EvidenceNamesItsSource
<1>. DEFINE said == {i \in DOMAIN asked[s] : answers[s][i] # None}
            n == Len(asked[s])
<1>1. evidence[s] = Pieces(asked[s], answers[s]) /\ asked[s] \in Seq(Entries)
  BY DEF CollectionInv, SessionOK, CollectedOK, Stages
<1>2. n \in Nat /\ DOMAIN asked[s] = 1..n
  BY <1>1
<1>3. said = Said(answers[s], n)
  BY <1>2 DEF Said
<1>4. /\ Len(evidence[s]) = Cardinality(said)
      /\ \A i \in said :
             evidence[s][Cardinality(Said(answers[s], i))] = PieceOf(asked[s], answers[s], i)
  <2>. DEFINE all == Said(answers[s], n)
  <2>1. /\ Len(evidence[s]) = Cardinality(all)
        /\ \A i \in all :
               evidence[s][Cardinality(Said(answers[s], i))] = PieceOf(asked[s], answers[s], i)
    BY <1>1, <1>2, PiecesFacts
  <2>. HIDE DEF said, all
  <2>2. said = all
    BY <1>3 DEF all
  <2>. QED  BY <2>1, <2>2, Zenon
<1>5. ASSUME NEW i \in said
      PROVE  {j \in said : j <= i} = Said(answers[s], i)
  BY <1>2 DEF Said
<1>. HIDE DEF said
<1>6. ASSUME NEW i \in said
      PROVE  evidence[s][Cardinality({j \in said : j <= i})] =
                 [name     |-> asked[s][i].name,
                  by       |-> asked[s][i].callback,
                  positive |-> answers[s][i].positive,
                  negative |-> answers[s][i].negative]
  <2>1. evidence[s][Cardinality({j \in said : j <= i})] = PieceOf(asked[s], answers[s], i)
    BY <1>4, <1>5, Zenon
  <2>. QED  BY <2>1 DEF PieceOf, Piece
<1>. QED  BY <1>4, <1>6 DEF said

LEMMA SamePrefix ==
    ASSUME NEW S, NEW t \in Seq(S), NEW u \in Seq(S), Len(t) <= Len(u),
           \A i \in 1..Len(t) : t[i] = u[i]
    PROVE  IsPrefix(t, u) /\ (Len(t) = Len(u) => t = u)
PROOF
<1>1. Len(t) \in Nat /\ Len(u) \in Nat /\ 1..Len(t) \subseteq 1..Len(u)
  OBVIOUS
<1>2. SubSeq(t, 1, Len(t)) = SubSeq(u, 1, Len(t))
  BY <1>1
<1>3. Len(t) = Len(u) => t = u
  OBVIOUS
<1>. QED  BY <1>2, <1>3 DEF IsPrefix

LEMMA InvCountsAPrefix == CollectionInv => BatchCountsAPrefix
PROOF
<1>. SUFFICES ASSUME CollectionInv, NEW s \in Sessions
              PROVE  /\ IsPrefix(counted[s], evidence[s])
                     /\ Len(counted[s]) - next[s] \in {0, 1}
                     /\ stage[s] = "returned" => counted[s] = evidence[s]
                     /\ stage[s] = "lost" => counted[s] = << >>
  BY DEF BatchCountsAPrefix
<1>1. SessionOK(s)
  BY DEF CollectionInv
<1>2. CountedOK(stage[s], evidence[s], next[s], counted[s])
  BY <1>1 DEF SessionOK
<1>3. PICK S : evidence[s] \in Seq(S) /\ counted[s] \in Seq(S)
  BY <1>2 DEF CountedOK
<1>4. /\ IsPrefix(counted[s], evidence[s])
      /\ Len(counted[s]) = Len(evidence[s]) => counted[s] = evidence[s]
  <2>1. Len(counted[s]) <= Len(evidence[s])
        /\ \A i \in 1..Len(counted[s]) : counted[s][i] = evidence[s][i]
    BY <1>2 DEF CountedOK
  <2>. QED  BY <1>3, <2>1, SamePrefix
<1>5. Len(counted[s]) - next[s] \in {0, 1}
  BY <1>2, <1>3 DEF CountedOK
<1>6. stage[s] = "returned" => counted[s] = evidence[s]
  BY <1>2, <1>4 DEF CountedOK
<1>7. stage[s] = "lost" => counted[s] = << >>
  <2>1. stage[s] = "lost" => evidence[s] = << >>
    BY <1>1 DEF SessionOK, CollectedOK
  <2>. QED  BY <1>2, <2>1, NothingYet
<1>. QED  BY <1>4, <1>5, <1>6, <1>7

(* The pieces of a collection are the answers of the callbacks there were when
   it began, each once, in their order and under its own name, in whatever
   order they ended and whatever was added meanwhile: any number of tasks,
   callbacks and answers (CallbackCollector.collect). *)
THEOREM PiecesKeepTheirSource == Spec => []EvidenceNamesItsSource
PROOF
<1>1. Spec => []CollectionInv
  BY InitCollection, CollectionInductive, PTL DEF Spec
<1>. QED  BY <1>1, InvNamesSources, PTL

(* Whichever submission of a batch fails, before or after its effect, the
   manager has counted a prefix of the batch: what had returned and at most one
   piece more; and all of it when submit_batch returns (submit_batch, with
   callbacks or with any rules). *)
THEOREM BatchesCountPrefixes == Spec => []BatchCountsAPrefix
PROOF
<1>1. Spec => []CollectionInv
  BY InitCollection, CollectionInductive, PTL DEF Spec
<1>. QED  BY <1>1, InvCountsAPrefix, PTL
-----------------------------------------------------------------------------
(* A definition by recursion defines a function, if what the step makes of a
   point depends only on lower points. *)
Settled(f, D, height, step, n) == \A x \in D : height[x] < n => f[x] = step[f][x]

Descends(D, V, height, step) ==
    /\ height \in [D -> Nat]
    /\ step \in [[D -> V] -> [D -> V]]
    /\ [D -> V] # {}
    /\ \A g \in [D -> V], h \in [D -> V], x \in D :
           (\A y \in D : height[y] < height[x] => g[y] = h[y]) => step[g][x] = step[h][x]

LEMMA RecursionIsDefined ==
    ASSUME NEW D, NEW V, NEW height, NEW step, Descends(D, V, height, step)
    PROVE  \E f \in [D -> V] : f = step[f]
PROOF
<1>. DEFINE F == [D -> V]
            Done(f, n) == Settled(f, D, height, step, n)
            Depths == {n \in Nat : \E f \in F : Done(f, n)}
            Unique == {n \in Nat : \A f \in F, g \in F :
                          Done(f, n) /\ Done(g, n) =>
                              \A x \in D : height[x] < n => f[x] = g[x]}
<1>0. \A x \in D : height[x] \in Nat
  BY DEF Descends
<1>. USE DEF Descends
<1>1. Depths = Nat
  <2>1. 0 \in Depths
    <3>1. PICK f \in F : TRUE
      OBVIOUS
    <3>2. Done(f, 0)
      BY <1>0 DEF Settled
    <3>. QED  BY <3>2
  <2>2. ASSUME NEW n \in Depths
        PROVE  n + 1 \in Depths
    <3>1. PICK f \in F : Done(f, n)
      OBVIOUS
    <3>. DEFINE g == step[f]
    <3>2. g \in F
      OBVIOUS
    <3>3. ASSUME NEW x \in D, height[x] < n + 1
          PROVE  g[x] = step[g][x]
      <4>1. ASSUME NEW y \in D, height[y] < height[x]
            PROVE  f[y] = g[y]
        <5>1. height[y] < n
          BY <1>0, <3>3, <4>1
        <5>. QED  BY <3>1, <5>1 DEF Settled
      <4>. HIDE DEF g
      <4>2. step[f][x] = step[g][x]
        BY <3>2, <4>1
      <4>. QED  BY <4>2 DEF g
    <3>4. Done(g, n + 1)
      BY <3>3 DEF Settled
    <3>. QED  BY <3>2, <3>4
  <2>3. Depths \subseteq Nat
    OBVIOUS
  <2>. HIDE DEF Depths
  <2>. QED  BY <2>1, <2>2, <2>3, CountingUp
<1>2. Unique = Nat
  <2>1. 0 \in Unique
    BY <1>0
  <2>2. ASSUME NEW n \in Unique
        PROVE  n + 1 \in Unique
    <3>. SUFFICES ASSUME NEW f \in F, NEW g \in F, Done(f, n + 1), Done(g, n + 1),
                         NEW x \in D, height[x] < n + 1
                  PROVE  f[x] = g[x]
      OBVIOUS
    <3>1. Done(f, n) /\ Done(g, n)
      BY <1>0 DEF Settled
    <3>2. ASSUME NEW y \in D, height[y] < height[x]
          PROVE  f[y] = g[y]
      <4>1. height[y] < n
        BY <1>0, <3>2
      <4>. QED  BY <3>1, <4>1
    <3>3. step[f][x] = step[g][x]
      BY <3>2
    <3>4. f[x] = step[f][x] /\ g[x] = step[g][x]
      BY DEF Settled
    <3>. QED  BY <3>3, <3>4
  <2>3. Unique \subseteq Nat
    OBVIOUS
  <2>. HIDE DEF Unique
  <2>. QED  BY <2>1, <2>2, <2>3, CountingUp
<1>. DEFINE At(x) == CHOOSE f \in F : Done(f, height[x] + 1)
            fix == [x \in D |-> At(x)[x]]
<1>3. ASSUME NEW x \in D
      PROVE  At(x) \in F /\ Done(At(x), height[x] + 1)
  <2>1. height[x] + 1 \in Depths
    BY <1>0, <1>1
  <2>2. \E f \in F : Done(f, height[x] + 1)
    BY <2>1
  <2>. HIDE DEF Done, F
  <2>. QED  BY <2>2
<1>. HIDE DEF At
<1>4. fix \in F
  BY <1>3
<1>5. ASSUME NEW x \in D
      PROVE  fix[x] = step[fix][x]
  <2>1. At(x) \in F /\ Done(At(x), height[x] + 1) /\ height[x] \in Nat
    BY <1>0, <1>3
  <2>2. fix[x] = At(x)[x] /\ At(x)[x] = step[At(x)][x]
    BY <2>1 DEF Settled
  <2>3. ASSUME NEW y \in D, height[y] < height[x]
        PROVE  At(x)[y] = fix[y]
    <3>1. At(y) \in F /\ Done(At(y), height[y] + 1) /\ height[y] \in Nat
      BY <1>0, <1>3
    <3>2. Done(At(x), height[y] + 1)
      BY <1>0, <2>1, <2>3, <3>1 DEF Settled
    <3>3. height[y] + 1 \in Unique /\ height[y] < height[y] + 1
      BY <1>2, <3>1
    <3>. HIDE DEF Done
    <3>4. At(x)[y] = At(y)[y]
      BY <2>1, <3>1, <3>2, <3>3
    <3>. QED  BY <3>4
  <2>. HIDE DEF fix
  <2>4. step[At(x)][x] = step[fix][x]
    BY <1>4, <2>1, <2>3
  <2>. QED  BY <2>2, <2>4
<1>6. fix = step[fix]
  <2>1. step[fix] \in F
    BY <1>4
  <2>. HIDE DEF fix
  <2>. QED  BY <1>4, <1>5, <2>1
<1>. QED  BY <1>4, <1>6

-----------------------------------------------------------------------------
(* The functions of EvidenceRules are what their definitions say. *)
LEMMA PartsAreLower ==
    ASSUME NEW s \in SchemaParts
    PROVE  /\ Nesting[s] \in Nat
           /\ Has(s, "properties") /\ ~Broken(s, "properties") =>
                  /\ \A p \in Range(s.properties) :
                         p.schema \in SchemaParts /\ Nesting[p.schema] < Nesting[s]
                  /\ \A i \in DOMAIN s.properties : s.properties[i] \in Range(s.properties)
                  /\ s.properties \in Seq(Range(s.properties))
           /\ Has(s, "items") /\ ~Broken(s, "items") =>
                  s.items \in SchemaParts /\ Nesting[s.items] < Nesting[s]
PROOF BY SchemasHaveTheirParts DEF Range, Has

LEMMA KeywordsAreTyped ==
    ASSUME NEW s \in SchemaParts, WellFormed(s)
    PROVE  /\ \A key \in DOMAIN s : ~Broken(s, key)
           /\ Has(s, "type") => ~Broken(s, "type") /\ s.type \in Seq(STRING)
           /\ Has(s, "enum") => ~Broken(s, "enum") /\ \A w \in Range(s.enum) : w \in Json
           /\ \A key \in {"minimum", "maximum", "minLength", "maxLength"} :
                  Has(s, key) => ~Broken(s, key) /\ s[key] \in Int
           /\ \A key \in {"required", "pattern", "properties", "items"} :
                  Has(s, key) => ~Broken(s, key)
PROOF BY SchemasHaveTheirParts DEF WellFormed, Has

LEMMA ShapeIsBoolean ==
    ASSUME NEW s, NEW g
    PROVE  ShapeIsFine(s, g) \in BOOLEAN
PROOF BY DEF ShapeIsFine

LEMMA TypedIsBoolean ==
    ASSUME NEW s, NEW g
    PROVE  TypedAll(s, g) \in BOOLEAN
PROOF BY DEF TypedAll

LEMMA MeetsIsBoolean ==
    ASSUME NEW v, NEW s, NEW g
    PROVE  MeetsAll(v, s, g) \in BOOLEAN
PROOF BY DEF MeetsAll

LEMMA NoWholeFloatIsBoolean ==
    ASSUME NEW v, NEW s, NEW g
    PROVE  NoWholeFloatAll(v, s, g) \in BOOLEAN
PROOF BY DEF NoWholeFloatAll

AllVerdicts == {"ok", "mismatch", "raises"}

LEMMA LeastOfNumbers ==
    ASSUME NEW S \in SUBSET Nat, S # {}
    PROVE  Min(S) \in S
PROOF
<1>. DEFINE R == OpToRel(<, Nat)
<1>1. IsWellFoundedOn(R, Nat)
  BY NatLessThanWellFounded
<1>. HIDE DEF R
<1>2. PICK x \in S : \A y \in S : ~(<<y, x>> \in R)
  BY <1>1, WFMin
<1>3. ASSUME NEW y \in S
      PROVE  x <= y
  <2>1. x \in Nat /\ y \in Nat
    OBVIOUS
  <2>2. y < x => <<y, x>> \in R
    BY <2>1 DEF R, OpToRel
  <2>. QED  BY <1>2, <2>1, <2>2
<1>. QED  BY <1>3 DEF Min

(* The first verdict that is not "ok" is one of them. *)
LEMMA FirstIsOneOf ==
    ASSUME NEW n \in Nat, NEW verdicts, DOMAIN verdicts = 1..n
    PROVE  /\ FirstOf(verdicts) = "ok" <=> \A i \in 1..n : verdicts[i] = "ok"
           /\ FirstOf(verdicts) # "ok" => \E i \in 1..n : FirstOf(verdicts) = verdicts[i]
PROOF
<1>. DEFINE bad == {i \in 1..n : verdicts[i] # "ok"}
<1>1. CASE bad = {}
  BY <1>1 DEF FirstOf
<1>2. CASE bad # {}
  <2>1. bad \subseteq Nat
    OBVIOUS
  <2>. HIDE DEF bad
  <2>2. Min(bad) \in bad
    BY <1>2, <2>1, LeastOfNumbers
  <2>3. FirstOf(verdicts) = verdicts[Min(bad)]
    BY <1>2 DEF FirstOf, bad
  <2>4. Min(bad) \in 1..n /\ verdicts[Min(bad)] # "ok"
    BY <2>2 DEF bad
  <2>. QED  BY <2>3, <2>4
<1>. QED  BY <1>1, <1>2

LEMMA JudgeIsVerdict ==
    ASSUME NEW g \in [Json \X SchemaParts -> AllVerdicts], NEW x \in Json \X SchemaParts
    PROVE  Judge(x[1], x[2], g) \in AllVerdicts
PROOF
<1>. DEFINE v == x[1]
            s == x[2]
            members == MemberVerdicts(v, s, g)
            elements == ElementVerdicts(v, s, g)
            all == <<TypeVerdict(v, s), EnumVerdict(v, s), TextVerdict(v, s),
                     NumberVerdict(v, s), RequiredVerdict(v, s), FirstOf(members),
                     FirstOf(elements)>>
<1>1. v \in Json /\ s \in SchemaParts
  OBVIOUS
<1>. HIDE DEF v, s
<1>2. /\ TypeVerdict(v, s) \in AllVerdicts /\ EnumVerdict(v, s) \in AllVerdicts
      /\ TextVerdict(v, s) \in AllVerdicts /\ NumberVerdict(v, s) \in AllVerdicts
      /\ RequiredVerdict(v, s) \in AllVerdicts
  <2>1. \A key, ok : Checked(s, key, ok) \in AllVerdicts
    BY DEF AllVerdicts, Verdict, Checked
  <2>2. \A x1, x2 : {x1, x2} \subseteq AllVerdicts => FirstOf(<<x1, x2>>) \in AllVerdicts
    <3>. SUFFICES ASSUME NEW x1 \in AllVerdicts, NEW x2 \in AllVerdicts
                  PROVE  FirstOf(<<x1, x2>>) \in AllVerdicts
      OBVIOUS
    <3>. DEFINE two == <<x1, x2>>
    <3>2. DOMAIN two = 1..2 /\ \A i \in 1..2 : two[i] \in AllVerdicts
      OBVIOUS
    <3>. HIDE DEF two
    <3>3. \/ FirstOf(two) = "ok"
          \/ \E i \in 1..2 : FirstOf(two) = two[i]
      BY <3>2, FirstIsOneOf
    <3>4. FirstOf(two) \in AllVerdicts
      BY <3>2, <3>3 DEF AllVerdicts
    <3>. QED  BY <3>4 DEF two
  <2>3. \A x1, x2, x3 : {x1, x2, x3} \subseteq AllVerdicts => FirstOf(<<x1, x2, x3>>) \in AllVerdicts
    <3>. SUFFICES ASSUME NEW x1 \in AllVerdicts, NEW x2 \in AllVerdicts, NEW x3 \in AllVerdicts
                  PROVE  FirstOf(<<x1, x2, x3>>) \in AllVerdicts
      OBVIOUS
    <3>. DEFINE three == <<x1, x2, x3>>
    <3>2. DOMAIN three = 1..3 /\ \A i \in 1..3 : three[i] \in AllVerdicts
      OBVIOUS
    <3>. HIDE DEF three
    <3>3. \/ FirstOf(three) = "ok"
          \/ \E i \in 1..3 : FirstOf(three) = three[i]
      BY <3>2, FirstIsOneOf
    <3>4. FirstOf(three) \in AllVerdicts
      BY <3>2, <3>3 DEF AllVerdicts
    <3>. QED  BY <3>4 DEF three
  <2>4. TypeVerdict(v, s) \in AllVerdicts
    BY <2>1 DEF TypeVerdict, AllVerdicts
  <2>5. EnumVerdict(v, s) \in AllVerdicts
    BY <2>1 DEF EnumVerdict
  <2>6. TextVerdict(v, s) \in AllVerdicts
    BY <2>1, <2>3 DEF TextVerdict, AllVerdicts
  <2>7. NumberVerdict(v, s) \in AllVerdicts
    BY <2>1, <2>2 DEF NumberVerdict, AllVerdicts
  <2>8. RequiredVerdict(v, s) \in AllVerdicts
    BY <2>1 DEF RequiredVerdict, AllVerdicts
  <2>. QED  BY <2>4, <2>5, <2>6, <2>7, <2>8
<1>3. /\ \E n \in Nat : DOMAIN members = 1..n
      /\ \A i \in DOMAIN members : members[i] \in AllVerdicts
  <2>1. CASE v.kind = "dict" /\ Has(s, "properties") /\ ~Broken(s, "properties")
    <3>1. members = [i \in DOMAIN s.properties |->
                        LET p == s.properties[i]
                        IN  IF Has(v.at, p.name) THEN g[<<v.at[p.name], p.schema>>] ELSE "ok"]
      BY <2>1 DEF MemberVerdicts
    <3>2. s.properties \in Seq(Range(s.properties))
      BY <1>1, <2>1, PartsAreLower
    <3>3. DOMAIN s.properties = 1..Len(s.properties) /\ Len(s.properties) \in Nat
      BY <3>2
    <3>4. ASSUME NEW i \in DOMAIN s.properties
          PROVE  members[i] \in AllVerdicts
      <4>1. s.properties[i].schema \in SchemaParts
        BY <1>1, <2>1, PartsAreLower
      <4>2. Has(v.at, s.properties[i].name) => v.at[s.properties[i].name] \in Json
        BY <1>1, <2>1, JsonHasItsParts DEF Has
      <4>. QED  BY <3>1, <4>1, <4>2 DEF AllVerdicts
    <3>. HIDE DEF members
    <3>. QED  BY <3>1, <3>3, <3>4
  <2>2. CASE ~(v.kind = "dict" /\ Has(s, "properties"))
    <3>1. members = << >>
      BY <2>2 DEF MemberVerdicts
    <3>. QED  BY <3>1
  <2>3. CASE v.kind = "dict" /\ Has(s, "properties") /\ Broken(s, "properties")
    <3>1. members = <<"raises">>
      BY <2>3 DEF MemberVerdicts
    <3>2. DOMAIN members = 1..1 /\ members[1] = "raises"
      BY <3>1
    <3>. HIDE DEF members
    <3>. QED  BY <3>2 DEF AllVerdicts
  <2>. QED  BY <2>1, <2>2, <2>3
<1>4. /\ \E n \in Nat : DOMAIN elements = 1..n
      /\ \A i \in DOMAIN elements : elements[i] \in AllVerdicts
  <2>1. CASE v.kind = "list" /\ Has(s, "items")
    <3>1. elements = [i \in DOMAIN v.items |->
                        IF Broken(s, "items") THEN "raises" ELSE g[<<v.items[i], s.items>>]]
      BY <2>1 DEF ElementVerdicts
    <3>2. v.items \in Seq(Json) /\ (~Broken(s, "items") => s.items \in SchemaParts)
      BY <1>1, <2>1, JsonHasItsParts, PartsAreLower
    <3>3. /\ DOMAIN v.items = 1..Len(v.items) /\ Len(v.items) \in Nat
          /\ \A i \in DOMAIN v.items : v.items[i] \in Json
      BY <3>2
    <3>4. ASSUME NEW i \in DOMAIN v.items
          PROVE  elements[i] \in AllVerdicts
      BY <3>1, <3>2, <3>3 DEF AllVerdicts
    <3>. HIDE DEF elements
    <3>. QED  BY <3>1, <3>3, <3>4
  <2>2. CASE ~(v.kind = "list" /\ Has(s, "items"))
    <3>1. elements = << >>
      BY <2>2 DEF ElementVerdicts
    <3>. QED  BY <3>1
  <2>. QED  BY <2>1, <2>2
<1>5. FirstOf(members) \in AllVerdicts
  <2>. HIDE DEF members
  <2>. QED  BY <1>3, FirstIsOneOf DEF AllVerdicts
<1>6. FirstOf(elements) \in AllVerdicts
  <2>. HIDE DEF elements
  <2>. QED  BY <1>4, FirstIsOneOf DEF AllVerdicts
<1>7. DOMAIN all = 1..7 /\ \A i \in 1..7 : all[i] \in AllVerdicts
  <2>. HIDE DEF members, elements
  <2>. QED  BY <1>2, <1>5, <1>6
<1>8. Judge(v, s, g) = FirstOf(all)
  BY DEF Judge
<1>9. FirstOf(all) \in AllVerdicts
  <2>. HIDE DEF all
  <2>. QED  BY <1>7, FirstIsOneOf DEF AllVerdicts
<1>. QED  BY <1>8, <1>9 DEF v, s

LEMMA ShapeAcceptedIs ==
    ASSUME NEW s \in SchemaParts
    PROVE  ShapeAccepted[s] = ShapeIsFine(s, ShapeAccepted)
PROOF
<1>. DEFINE D == SchemaParts
            V == BOOLEAN
            height == [x \in D |-> Nesting[x]]
            step == [g \in [D -> V] |-> [x \in D |-> ShapeIsFine(x, g)]]
<1>1. step \in [[D -> V] -> [D -> V]]
  BY ShapeIsBoolean
<1>2. \A g \in [D -> V], h \in [D -> V], x \in D :
          (\A y \in D : height[y] < height[x] => g[y] = h[y]) => step[g][x] = step[h][x]
  <2>. SUFFICES ASSUME NEW g \in [D -> V], NEW h \in [D -> V], NEW x \in D,
                       \A y \in D : height[y] < height[x] => g[y] = h[y]
                PROVE  step[g][x] = step[h][x]
    OBVIOUS
  <2>1. Has(x, "properties") /\ ~Broken(x, "properties") =>
            \A p \in Range(x.properties) : g[p.schema] = h[p.schema]
    BY PartsAreLower
  <2>2. Has(x, "items") /\ ~Broken(x, "items") => g[x.items] = h[x.items]
    BY PartsAreLower
  <2>9. ShapeIsFine(x, g) = ShapeIsFine(x, h)
    BY <2>1, <2>2 DEF ShapeIsFine
  <2>. QED  BY <2>9
<1>3. [D -> V] # {}
  <2>1. [x \in D |-> TRUE] \in [D -> V]
    OBVIOUS
  <2>. QED  BY <2>1
<1>4. height \in [D -> Nat]
  BY PartsAreLower
<1>5. \A g \in [D -> V] : step[g] = [x \in SchemaParts |-> ShapeIsFine(x, g)]
  OBVIOUS
<1>. HIDE DEF D, V, height, step
<1>6. \E f \in [D -> V] : f = step[f]
  <2>1. Descends(D, V, height, step)
    BY <1>1, <1>2, <1>3, <1>4 DEF Descends
  <2>. QED  BY <2>1, RecursionIsDefined
<1>7. PICK f : f = [x \in SchemaParts |-> ShapeIsFine(x, f)]
  <2>1. PICK f \in [D -> V] : f = step[f]
    BY <1>6
  <2>2. step[f] = [x \in SchemaParts |-> ShapeIsFine(x, f)]
    BY <1>5
  <2>3. f = [x \in SchemaParts |-> ShapeIsFine(x, f)]
    BY <2>1, <2>2, Zenon
  <2>. QED  BY <2>3
<1>. DEFINE Unfolded(u) == [x \in SchemaParts |-> ShapeIsFine(x, u)]
            c == CHOOSE u : u = Unfolded(u)
<1>8. f = Unfolded(f)
  BY <1>7
<1>9. ShapeAccepted = c
  BY DEF ShapeAccepted
<1>10. c = Unfolded(c)
  <2>. HIDE DEF Unfolded
  <2>. QED  BY <1>8, Zenon
<1>. HIDE DEF c
<1>. QED  BY <1>9, <1>10

LEMMA TypedIs ==
    ASSUME NEW s \in SchemaParts
    PROVE  Typed[s] = TypedAll(s, Typed)
PROOF
<1>. DEFINE D == SchemaParts
            V == BOOLEAN
            height == [x \in D |-> Nesting[x]]
            step == [g \in [D -> V] |-> [x \in D |-> TypedAll(x, g)]]
<1>1. step \in [[D -> V] -> [D -> V]]
  BY TypedIsBoolean
<1>2. \A g \in [D -> V], h \in [D -> V], x \in D :
          (\A y \in D : height[y] < height[x] => g[y] = h[y]) => step[g][x] = step[h][x]
  <2>. SUFFICES ASSUME NEW g \in [D -> V], NEW h \in [D -> V], NEW x \in D,
                       \A y \in D : height[y] < height[x] => g[y] = h[y]
                PROVE  step[g][x] = step[h][x]
    OBVIOUS
  <2>1. Has(x, "properties") /\ ~Broken(x, "properties") =>
            \A p \in Range(x.properties) : g[p.schema] = h[p.schema]
    BY PartsAreLower
  <2>2. Has(x, "items") /\ ~Broken(x, "items") => g[x.items] = h[x.items]
    BY PartsAreLower
  <2>9. TypedAll(x, g) = TypedAll(x, h)
    BY <2>1, <2>2 DEF TypedAll, WellFormed, Has
  <2>. QED  BY <2>9
<1>3. [D -> V] # {}
  <2>1. [x \in D |-> TRUE] \in [D -> V]
    OBVIOUS
  <2>. QED  BY <2>1
<1>4. height \in [D -> Nat]
  BY PartsAreLower
<1>5. \A g \in [D -> V] : step[g] = [x \in SchemaParts |-> TypedAll(x, g)]
  OBVIOUS
<1>. HIDE DEF D, V, height, step
<1>6. \E f \in [D -> V] : f = step[f]
  <2>1. Descends(D, V, height, step)
    BY <1>1, <1>2, <1>3, <1>4 DEF Descends
  <2>. QED  BY <2>1, RecursionIsDefined
<1>7. PICK f : f = [x \in SchemaParts |-> TypedAll(x, f)]
  <2>1. PICK f \in [D -> V] : f = step[f]
    BY <1>6
  <2>2. step[f] = [x \in SchemaParts |-> TypedAll(x, f)]
    BY <1>5
  <2>3. f = [x \in SchemaParts |-> TypedAll(x, f)]
    BY <2>1, <2>2, Zenon
  <2>. QED  BY <2>3
<1>. DEFINE Unfolded(u) == [x \in SchemaParts |-> TypedAll(x, u)]
            c == CHOOSE u : u = Unfolded(u)
<1>8. f = Unfolded(f)
  BY <1>7
<1>9. Typed = c
  BY DEF Typed
<1>10. c = Unfolded(c)
  <2>. HIDE DEF Unfolded
  <2>. QED  BY <1>8, Zenon
<1>. HIDE DEF c
<1>. QED  BY <1>9, <1>10

LEMMA MeetsIs ==
    ASSUME NEW z \in Json \X SchemaParts
    PROVE  Meets[z] = MeetsAll(z[1], z[2], Meets)
PROOF
<1>. DEFINE D == Json \X SchemaParts
            V == BOOLEAN
            height == [x \in D |-> Nesting[x[2]]]
            step == [g \in [D -> V] |-> [x \in D |-> MeetsAll(x[1], x[2], g)]]
<1>1. step \in [[D -> V] -> [D -> V]]
  BY MeetsIsBoolean
<1>2. \A g \in [D -> V], h \in [D -> V], x \in D :
          (\A y \in D : height[y] < height[x] => g[y] = h[y]) => step[g][x] = step[h][x]
  <2>. SUFFICES ASSUME NEW g \in [D -> V], NEW h \in [D -> V], NEW x \in D,
                       \A y \in D : height[y] < height[x] => g[y] = h[y]
                PROVE  step[g][x] = step[h][x]
    OBVIOUS
  <2>1. x = <<x[1], x[2]>> /\ x[1] \in Json /\ x[2] \in SchemaParts
    OBVIOUS
  <2>2. ASSUME NEW v \in Json, NEW s \in SchemaParts, Nesting[s] < Nesting[x[2]]
        PROVE  g[<<v, s>>] = h[<<v, s>>]
    BY <2>2
  <2>. HIDE DEF D, V, height, step
  <2>3. ASSUME x[1].kind = "dict", Has(x[2], "properties"), ~Broken(x[2], "properties"),
               NEW p \in Range(x[2].properties), Has(x[1].at, p.name)
        PROVE  g[<<x[1].at[p.name], p.schema>>] = h[<<x[1].at[p.name], p.schema>>]
    <3>1. x[1].at[p.name] \in Json
      BY <2>1, <2>3, JsonHasItsParts DEF Has
    <3>. QED  BY <2>1, <2>2, <2>3, <3>1, PartsAreLower
  <2>4. ASSUME x[1].kind = "list", Has(x[2], "items"), ~Broken(x[2], "items"),
               NEW item \in Range(x[1].items)
        PROVE  g[<<item, x[2].items>>] = h[<<item, x[2].items>>]
    <3>1. item \in Json
      BY <2>1, <2>4, JsonHasItsParts DEF Range
    <3>. QED  BY <2>1, <2>2, <2>4, <3>1, PartsAreLower
  <2>5. MeetsAll(x[1], x[2], g) = MeetsAll(x[1], x[2], h)
    <3>1. CASE WellFormed(x[2])
      <4>1. /\ Has(x[2], "properties") => ~Broken(x[2], "properties")
            /\ Has(x[2], "items") => ~Broken(x[2], "items")
        BY <3>1 DEF WellFormed, Has
      <4>. QED  BY <2>3, <2>4, <4>1, Zenon DEF MeetsAll
    <3>2. CASE ~WellFormed(x[2])
      BY <3>2 DEF MeetsAll
    <3>. QED  BY <3>1, <3>2
  <2>9. step[g][x] = step[h][x]
    BY <2>5 DEF step, D, V
  <2>. QED  BY <2>9
<1>3. [D -> V] # {}
  <2>1. [x \in D |-> TRUE] \in [D -> V]
    OBVIOUS
  <2>. QED  BY <2>1
<1>4. height \in [D -> Nat]
  BY PartsAreLower
<1>5. \A g \in [D -> V] : step[g] = [x \in Json \X SchemaParts |-> MeetsAll(x[1], x[2], g)]
  OBVIOUS
<1>. HIDE DEF D, V, height, step
<1>6. \E f \in [D -> V] : f = step[f]
  <2>1. Descends(D, V, height, step)
    BY <1>1, <1>2, <1>3, <1>4 DEF Descends
  <2>. QED  BY <2>1, RecursionIsDefined
<1>7. PICK f : f = [x \in Json \X SchemaParts |-> MeetsAll(x[1], x[2], f)]
  <2>1. PICK f \in [D -> V] : f = step[f]
    BY <1>6
  <2>2. step[f] = [x \in Json \X SchemaParts |-> MeetsAll(x[1], x[2], f)]
    BY <1>5
  <2>3. f = [x \in Json \X SchemaParts |-> MeetsAll(x[1], x[2], f)]
    BY <2>1, <2>2, Zenon
  <2>. QED  BY <2>3
<1>. DEFINE Unfolded(u) == [x \in Json \X SchemaParts |-> MeetsAll(x[1], x[2], u)]
            c == CHOOSE u : u = Unfolded(u)
<1>8. f = Unfolded(f)
  BY <1>7
<1>9. Meets = c
  BY DEF Meets
<1>10. c = Unfolded(c)
  <2>. HIDE DEF Unfolded
  <2>. QED  BY <1>8, Zenon
<1>. HIDE DEF c
<1>. QED  BY <1>9, <1>10

LEMMA NoWholeFloatIs ==
    ASSUME NEW z \in Json \X SchemaParts
    PROVE  NoWholeFloat[z] = NoWholeFloatAll(z[1], z[2], NoWholeFloat)
PROOF
<1>. DEFINE D == Json \X SchemaParts
            V == BOOLEAN
            height == [x \in D |-> Nesting[x[2]]]
            step == [g \in [D -> V] |-> [x \in D |-> NoWholeFloatAll(x[1], x[2], g)]]
<1>1. step \in [[D -> V] -> [D -> V]]
  BY NoWholeFloatIsBoolean
<1>2. \A g \in [D -> V], h \in [D -> V], x \in D :
          (\A y \in D : height[y] < height[x] => g[y] = h[y]) => step[g][x] = step[h][x]
  <2>. SUFFICES ASSUME NEW g \in [D -> V], NEW h \in [D -> V], NEW x \in D,
                       \A y \in D : height[y] < height[x] => g[y] = h[y]
                PROVE  step[g][x] = step[h][x]
    OBVIOUS
  <2>1. x = <<x[1], x[2]>> /\ x[1] \in Json /\ x[2] \in SchemaParts
    OBVIOUS
  <2>2. ASSUME NEW v \in Json, NEW s \in SchemaParts, Nesting[s] < Nesting[x[2]]
        PROVE  g[<<v, s>>] = h[<<v, s>>]
    BY <2>2
  <2>. HIDE DEF D, V, height, step
  <2>3. ASSUME x[1].kind = "dict", Has(x[2], "properties"), ~Broken(x[2], "properties"),
               NEW p \in Range(x[2].properties), Has(x[1].at, p.name)
        PROVE  g[<<x[1].at[p.name], p.schema>>] = h[<<x[1].at[p.name], p.schema>>]
    <3>1. x[1].at[p.name] \in Json
      BY <2>1, <2>3, JsonHasItsParts DEF Has
    <3>. QED  BY <2>1, <2>2, <2>3, <3>1, PartsAreLower
  <2>4. ASSUME x[1].kind = "list", Has(x[2], "items"), ~Broken(x[2], "items"),
               NEW item \in Range(x[1].items)
        PROVE  g[<<item, x[2].items>>] = h[<<item, x[2].items>>]
    <3>1. item \in Json
      BY <2>1, <2>4, JsonHasItsParts DEF Range
    <3>. QED  BY <2>1, <2>2, <2>4, <3>1, PartsAreLower
  <2>5. NoWholeFloatAll(x[1], x[2], g) = NoWholeFloatAll(x[1], x[2], h)
    BY <2>3, <2>4, Zenon DEF NoWholeFloatAll
  <2>9. step[g][x] = step[h][x]
    BY <2>5 DEF step, D, V
  <2>. QED  BY <2>9
<1>3. [D -> V] # {}
  <2>1. [x \in D |-> TRUE] \in [D -> V]
    OBVIOUS
  <2>. QED  BY <2>1
<1>4. height \in [D -> Nat]
  BY PartsAreLower
<1>5. \A g \in [D -> V] : step[g] = [x \in Json \X SchemaParts |-> NoWholeFloatAll(x[1], x[2], g)]
  OBVIOUS
<1>. HIDE DEF D, V, height, step
<1>6. \E f \in [D -> V] : f = step[f]
  <2>1. Descends(D, V, height, step)
    BY <1>1, <1>2, <1>3, <1>4 DEF Descends
  <2>. QED  BY <2>1, RecursionIsDefined
<1>7. PICK f : f = [x \in Json \X SchemaParts |-> NoWholeFloatAll(x[1], x[2], f)]
  <2>1. PICK f \in [D -> V] : f = step[f]
    BY <1>6
  <2>2. step[f] = [x \in Json \X SchemaParts |-> NoWholeFloatAll(x[1], x[2], f)]
    BY <1>5
  <2>3. f = [x \in Json \X SchemaParts |-> NoWholeFloatAll(x[1], x[2], f)]
    BY <2>1, <2>2, Zenon
  <2>. QED  BY <2>3
<1>. DEFINE Unfolded(u) == [x \in Json \X SchemaParts |-> NoWholeFloatAll(x[1], x[2], u)]
            c == CHOOSE u : u = Unfolded(u)
<1>8. f = Unfolded(f)
  BY <1>7
<1>9. NoWholeFloat = c
  BY DEF NoWholeFloat
<1>10. c = Unfolded(c)
  <2>. HIDE DEF Unfolded
  <2>. QED  BY <1>8, Zenon
<1>. HIDE DEF c
<1>. QED  BY <1>9, <1>10

LEMMA ValidateIs ==
    ASSUME NEW z \in Json \X SchemaParts
    PROVE  Validate[z] = Judge(z[1], z[2], Validate)
PROOF
<1>. DEFINE D == Json \X SchemaParts
            V == AllVerdicts
            height == [x \in D |-> Nesting[x[2]]]
            step == [g \in [D -> V] |-> [x \in D |-> Judge(x[1], x[2], g)]]
<1>1. step \in [[D -> V] -> [D -> V]]
  BY JudgeIsVerdict
<1>2. \A g \in [D -> V], h \in [D -> V], x \in D :
          (\A y \in D : height[y] < height[x] => g[y] = h[y]) => step[g][x] = step[h][x]
  <2>. SUFFICES ASSUME NEW g \in [D -> V], NEW h \in [D -> V], NEW x \in D,
                       \A y \in D : height[y] < height[x] => g[y] = h[y]
                PROVE  step[g][x] = step[h][x]
    OBVIOUS
  <2>1. x = <<x[1], x[2]>> /\ x[1] \in Json /\ x[2] \in SchemaParts
    OBVIOUS
  <2>2. ASSUME NEW v \in Json, NEW s \in SchemaParts, Nesting[s] < Nesting[x[2]]
        PROVE  g[<<v, s>>] = h[<<v, s>>]
    BY <2>2
  <2>. HIDE DEF D, V, height, step
  <2>3. ASSUME x[1].kind = "dict", Has(x[2], "properties"), ~Broken(x[2], "properties"),
               NEW p \in Range(x[2].properties), Has(x[1].at, p.name)
        PROVE  g[<<x[1].at[p.name], p.schema>>] = h[<<x[1].at[p.name], p.schema>>]
    <3>1. x[1].at[p.name] \in Json
      BY <2>1, <2>3, JsonHasItsParts DEF Has
    <3>. QED  BY <2>1, <2>2, <2>3, <3>1, PartsAreLower
  <2>4. ASSUME x[1].kind = "list", Has(x[2], "items"), ~Broken(x[2], "items"),
               NEW item \in Range(x[1].items)
        PROVE  g[<<item, x[2].items>>] = h[<<item, x[2].items>>]
    <3>1. item \in Json
      BY <2>1, <2>4, JsonHasItsParts DEF Range
    <3>. QED  BY <2>1, <2>2, <2>4, <3>1, PartsAreLower
  <2>5. MemberVerdicts(x[1], x[2], g) = MemberVerdicts(x[1], x[2], h)
    BY <2>1, <2>3, PartsAreLower DEF MemberVerdicts
  <2>6. ElementVerdicts(x[1], x[2], g) = ElementVerdicts(x[1], x[2], h)
    BY <2>1, <2>4 DEF ElementVerdicts, Range
  <2>7. Judge(x[1], x[2], g) = Judge(x[1], x[2], h)
    BY <2>5, <2>6, Zenon DEF Judge
  <2>9. step[g][x] = step[h][x]
    BY <2>7 DEF step, D, V
  <2>. QED  BY <2>9
<1>3. [D -> V] # {}
  <2>1. [x \in D |-> "ok"] \in [D -> V]
    BY DEF AllVerdicts
  <2>. QED  BY <2>1
<1>4. height \in [D -> Nat]
  BY PartsAreLower
<1>5. \A g \in [D -> V] : step[g] = [x \in Json \X SchemaParts |-> Judge(x[1], x[2], g)]
  OBVIOUS
<1>. HIDE DEF D, V, height, step
<1>6. \E f \in [D -> V] : f = step[f]
  <2>1. Descends(D, V, height, step)
    BY <1>1, <1>2, <1>3, <1>4 DEF Descends
  <2>. QED  BY <2>1, RecursionIsDefined
<1>7. PICK f : f = [x \in Json \X SchemaParts |-> Judge(x[1], x[2], f)]
  <2>1. PICK f \in [D -> V] : f = step[f]
    BY <1>6
  <2>2. step[f] = [x \in Json \X SchemaParts |-> Judge(x[1], x[2], f)]
    BY <1>5
  <2>3. f = [x \in Json \X SchemaParts |-> Judge(x[1], x[2], f)]
    BY <2>1, <2>2, Zenon
  <2>. QED  BY <2>3
<1>. DEFINE Unfolded(u) == [x \in Json \X SchemaParts |-> Judge(x[1], x[2], u)]
            c == CHOOSE u : u = Unfolded(u)
<1>8. f = Unfolded(f)
  BY <1>7
<1>9. Validate = c
  BY DEF Validate
<1>10. c = Unfolded(c)
  <2>. HIDE DEF Unfolded
  <2>. QED  BY <1>8, Zenon
<1>. HIDE DEF c
<1>. QED  BY <1>9, <1>10

-----------------------------------------------------------------------------
(* What type names admit, and what they mean. *)
LEMMA KindsAreTypes ==
    ASSUME NEW v \in Json, NEW name \in Names, ~(WholeFloat(v) /\ name = "integer")
    PROVE  v.kind \in Kinds(name) <=> OfType(v, name)
PROOF
<1>1. CASE v.kind = "float"
  BY <1>1 DEF Names, Kinds, OfType
<1>2. CASE v.kind # "float"
  BY <1>2, JsonHasItsParts DEF Names, Kinds, OfType
<1>. QED  BY <1>1, <1>2

(* An enum of one type means the same to == as to JSON Schema. *)
LEMMA EnumOfOneType ==
    ASSUME NEW v \in Json, NEW w \in Json, NEW name \in Names, OfType(v, name), OfType(w, name)
    PROVE  v.kind = "bool" <=> w.kind = "bool"
PROOF
<1>1. ASSUME NEW x \in Json, OfType(x, name)
      PROVE  x.kind = "bool" <=> name = "boolean"
  BY <1>1, JsonHasItsParts DEF OfType
<1>. QED  BY <1>1

(* The schema may be judged by, and v is judged rightly by it. *)
Sound(s) == Typed[s] /\ ShapeAccepted[s]

Right(v, s) ==
    /\ Validate[<<v, s>>] \in {"ok", "mismatch"}
    /\ Validate[<<v, s>>] = "ok" <=> Meets[<<v, s>>]

(* The type of a sound schema, and the soundness of its parts. *)
LEMMA SoundParts ==
    ASSUME NEW s \in SchemaParts, Sound(s)
    PROVE  /\ Has(s, "type") /\ s.type[1] \in Names /\ Range(s.type) = {s.type[1]}
           /\ Has(s, "enum") => \A w \in Range(s.enum) : w \in Json /\ OfType(w, s.type[1])
           /\ Has(s, "properties") => \A p \in Range(s.properties) : Sound(p.schema)
           /\ Has(s, "items") => Sound(s.items)
           /\ WellFormed(s)
PROOF
<1>1. TypedAll(s, Typed)
  BY TypedIs DEF Sound
<1>2. ShapeIsFine(s, ShapeAccepted)
  BY ShapeAcceptedIs DEF Sound
<1>3. WellFormed(s) /\ Has(s, "type") /\ s.type \in Seq(STRING) /\ Len(s.type) = 1
  <2>1. WellFormed(s) /\ Has(s, "type") /\ Len(s.type) = 1
    BY <1>1 DEF TypedAll
  <2>. QED  BY <2>1, KeywordsAreTyped
<1>4. Range(s.type) = {s.type[1]}
  BY <1>3 DEF Range
<1>5. s.type[1] \in Names
  BY <1>2, <1>3, <1>4 DEF ShapeIsFine
<1>6. Has(s, "enum") => \A w \in Range(s.enum) : w \in Json /\ OfType(w, s.type[1])
  BY <1>1, <1>3, KeywordsAreTyped DEF TypedAll
<1>7. Has(s, "properties") => \A p \in Range(s.properties) : Sound(p.schema)
  <2>. SUFFICES ASSUME Has(s, "properties"), NEW p \in Range(s.properties)
                PROVE  Sound(p.schema)
    OBVIOUS
  <2>1. s.type = <<"object">> /\ Typed[p.schema]
    BY <1>1 DEF TypedAll
  <2>2. "object" \in Range(s.type)
    BY <2>1 DEF Range
  <2>3. ShapeAccepted[p.schema]
    BY <1>2, <1>3, <2>2 DEF ShapeIsFine
  <2>. QED  BY <2>1, <2>3 DEF Sound
<1>8. Has(s, "items") => Sound(s.items)
  <2>. SUFFICES ASSUME Has(s, "items") PROVE Sound(s.items)
    OBVIOUS
  <2>1. s.type = <<"array">> /\ Typed[s.items]
    BY <1>1 DEF TypedAll
  <2>2. "array" \in Range(s.type)
    BY <2>1 DEF Range
  <2>3. ShapeAccepted[s.items]
    BY <1>2, <1>3, <2>2 DEF ShapeIsFine
  <2>. QED  BY <2>1, <2>3 DEF Sound
<1>. QED  BY <1>3, <1>4, <1>5, <1>6, <1>7, <1>8

(* Sound schemas that nest less deep judge rightly. *)
RightBelow(n) ==
    \A t \in SchemaParts, w \in Json :
        Nesting[t] < n /\ Sound(t) /\ NoWholeFloat[<<w, t>>] => Right(w, t)

(* A sound schema judges v rightly if its parts judge the parts of v rightly. *)
LEMMA RightByParts ==
    ASSUME NEW v \in Json, NEW s \in SchemaParts, Sound(s), NoWholeFloat[<<v, s>>],
           RightBelow(Nesting[s])
    PROVE  Right(v, s)
PROOF
<1>. DEFINE members == MemberVerdicts(v, s, Validate)
            elements == ElementVerdicts(v, s, Validate)
            all == <<TypeVerdict(v, s), EnumVerdict(v, s), TextVerdict(v, s),
                     NumberVerdict(v, s), RequiredVerdict(v, s), FirstOf(members),
                     FirstOf(elements)>>
            Fine == {"ok", "mismatch"}
            type == s.type[1]
<1>1. /\ Has(s, "type") /\ type \in Names /\ Range(s.type) = {type}
      /\ Has(s, "enum") => \A w \in Range(s.enum) : w \in Json /\ OfType(w, type)
      /\ Has(s, "properties") => \A p \in Range(s.properties) : Sound(p.schema)
      /\ Has(s, "items") => Sound(s.items)
      /\ WellFormed(s)
  BY SoundParts
<1>. HIDE DEF type
<1>0. NoWholeFloatAll(v, s, NoWholeFloat)
  <2>1. <<v, s>> \in Json \X SchemaParts /\ <<v, s>>[1] = v /\ <<v, s>>[2] = s
    OBVIOUS
  <2>. QED  BY <2>1, NoWholeFloatIs
<1>. DEFINE Sane(key) == Has(s, key) => ~Broken(s, key)
<1>k. /\ Sane("type") /\ Sane("enum") /\ Sane("minLength") /\ Sane("maxLength")
      /\ Sane("pattern") /\ Sane("minimum") /\ Sane("maximum") /\ Sane("required")
      /\ Sane("properties") /\ Sane("items")
      /\ \A key \in {"minimum", "maximum", "minLength", "maxLength"} :
             Has(s, key) => s[key] \in Int
  BY <1>1, KeywordsAreTyped
<1>c. ASSUME NEW key, NEW ok \in BOOLEAN, Sane(key)
      PROVE  /\ Checked(s, key, ok) \in Fine
             /\ Checked(s, key, ok) = "ok" <=> (Has(s, key) => ok)
  BY <1>c DEF Checked, Verdict
<1>2. Validate[<<v, s>>] = FirstOf(all) /\ Meets[<<v, s>>] = MeetsAll(v, s, Meets)
  <2>1. <<v, s>> \in Json \X SchemaParts /\ <<v, s>>[1] = v /\ <<v, s>>[2] = s
    OBVIOUS
  <2>2. Validate[<<v, s>>] = Judge(v, s, Validate)
    BY <2>1, ValidateIs
  <2>3. Meets[<<v, s>>] = MeetsAll(v, s, Meets)
    BY <2>1, MeetsIs
  <2>. QED  BY <2>2, <2>3 DEF Judge
<1>3. TypeVerdict(v, s) \in Fine /\ (TypeVerdict(v, s) = "ok" <=> OfType(v, type))
  <2>1. v.kind \in Kinds(type) <=> OfType(v, type)
    <3>1. ~(WholeFloat(v) /\ type = "integer")
      BY <1>0, <1>1 DEF NoWholeFloatAll
    <3>. QED  BY <1>1, <3>1, KindsAreTypes
  <2>2. Range(s.type) \subseteq Names
    BY <1>1
  <2>3. (\E name \in Range(s.type) : v.kind \in Kinds(name)) <=> v.kind \in Kinds(type)
    BY <1>1
  <2>4. TypeVerdict(v, s) =
            Checked(s, "type", \E name \in Range(s.type) : v.kind \in Kinds(name))
    BY <2>2 DEF TypeVerdict
  <2>. QED  BY <1>1, <1>k, <1>c, <2>1, <2>3, <2>4
<1>4. EnumVerdict(v, s) \in Fine /\ (EnumVerdict(v, s) = "ok" <=>
          (Has(s, "enum") => \E w \in Range(s.enum) : Equal(v, w)))
  BY <1>k, <1>c DEF EnumVerdict
<1>5. OfType(v, type) =>
          ((Has(s, "enum") => \E w \in Range(s.enum) : Equal(v, w))
            <=> (Has(s, "enum") => \E w \in Range(s.enum) :
                                       Equal(v, w) /\ (v.kind = "bool" <=> w.kind = "bool")))
  BY <1>1, EnumOfOneType
<1>6. TextVerdict(v, s) \in Fine /\ (TextVerdict(v, s) = "ok" <=>
          (v.kind = "str" =>
            /\ Has(s, "minLength") => s.minLength <= v.length
            /\ Has(s, "maxLength") => v.length <= s.maxLength
            /\ Has(s, "pattern") => v.length \in s.pattern))
  <2>1. CASE v.kind # "str"
    BY <2>1 DEF TextVerdict
  <2>2. CASE v.kind = "str"
    <3>1. v.length \in Int
      BY <2>2, JsonHasItsParts
    <3>2. Has(s, "minLength") => s.minLength \in Int
      BY <1>k DEF Has
    <3>. DEFINE min == Checked(s, "minLength", v.length >= s.minLength)
                max == Checked(s, "maxLength", v.length <= s.maxLength)
                pattern == Checked(s, "pattern", v.length \in s.pattern)
    <3>3. /\ min \in Fine /\ max \in Fine /\ pattern \in Fine
          /\ min = "ok" <=> (Has(s, "minLength") => v.length >= s.minLength)
          /\ max = "ok" <=> (Has(s, "maxLength") => v.length <= s.maxLength)
          /\ pattern = "ok" <=> (Has(s, "pattern") => v.length \in s.pattern)
      <4>1. /\ (v.length >= s.minLength) \in BOOLEAN /\ (v.length <= s.maxLength) \in BOOLEAN
            /\ (v.length \in s.pattern) \in BOOLEAN
        OBVIOUS
      <4>2. min \in Fine /\ (min = "ok" <=> (Has(s, "minLength") => v.length >= s.minLength))
        BY <1>k, <1>c, <4>1
      <4>3. max \in Fine /\ (max = "ok" <=> (Has(s, "maxLength") => v.length <= s.maxLength))
        BY <1>k, <1>c, <4>1
      <4>4. pattern \in Fine /\ (pattern = "ok" <=> (Has(s, "pattern") => v.length \in s.pattern))
        BY <1>k, <1>c, <4>1
      <4>. QED  BY <4>2, <4>3, <4>4
    <3>4. TextVerdict(v, s) = FirstOf(<<min, max, pattern>>)
      BY <2>2 DEF TextVerdict
    <3>5. Has(s, "minLength") => (v.length >= s.minLength <=> s.minLength <= v.length)
      BY <3>1, <3>2
    <3>. HIDE DEF min, max, pattern
    <3>. DEFINE three == <<min, max, pattern>>
    <3>6. DOMAIN three = 1..3 /\ three[1] = min /\ three[2] = max /\ three[3] = pattern
      OBVIOUS
    <3>7. \A i \in 1..3 : three[i] \in {min, max, pattern}
      BY <3>6
    <3>. HIDE DEF three
    <3>8. /\ FirstOf(three) = "ok" <=> \A i \in 1..3 : three[i] = "ok"
          /\ FirstOf(three) # "ok" => \E i \in 1..3 : FirstOf(three) = three[i]
      BY <3>6, FirstIsOneOf
    <3>9. FirstOf(three) \in Fine
      BY <3>3, <3>7, <3>8
    <3>10. FirstOf(three) = "ok" <=> min = "ok" /\ max = "ok" /\ pattern = "ok"
      <4>1. 1 \in 1..3 /\ 2 \in 1..3 /\ 3 \in 1..3
        OBVIOUS
      <4>. QED  BY <3>6, <3>7, <3>8, <4>1
    <3>11. TextVerdict(v, s) = FirstOf(three)
      BY <3>4 DEF three
    <3>. QED  BY <2>2, <3>3, <3>5, <3>9, <3>10, <3>11
  <2>. QED  BY <2>1, <2>2
<1>7. NumberVerdict(v, s) \in Fine /\ (NumberVerdict(v, s) = "ok" <=>
          (v.kind \in {"int", "float"} =>
            /\ Has(s, "minimum") => s.minimum <= v.number
            /\ Has(s, "maximum") => v.number <= s.maximum))
  <2>1. CASE v.kind \notin {"int", "float"}
    BY <2>1 DEF NumberVerdict
  <2>2. CASE v.kind \in {"int", "float"}
    <3>1. v.number \in Int
      BY <2>2, JsonHasItsParts
    <3>2. Has(s, "minimum") => s.minimum \in Int
      BY <1>k DEF Has
    <3>. DEFINE min == Checked(s, "minimum", v.number >= s.minimum)
                max == Checked(s, "maximum", v.number <= s.maximum)
    <3>3. /\ min \in Fine /\ max \in Fine
          /\ min = "ok" <=> (Has(s, "minimum") => v.number >= s.minimum)
          /\ max = "ok" <=> (Has(s, "maximum") => v.number <= s.maximum)
      <4>1. (v.number >= s.minimum) \in BOOLEAN /\ (v.number <= s.maximum) \in BOOLEAN
        OBVIOUS
      <4>2. min \in Fine /\ (min = "ok" <=> (Has(s, "minimum") => v.number >= s.minimum))
        BY <1>k, <1>c, <4>1
      <4>3. max \in Fine /\ (max = "ok" <=> (Has(s, "maximum") => v.number <= s.maximum))
        BY <1>k, <1>c, <4>1
      <4>. QED  BY <4>2, <4>3
    <3>4. NumberVerdict(v, s) = FirstOf(<<min, max>>)
      BY <2>2 DEF NumberVerdict
    <3>5. Has(s, "minimum") => (v.number >= s.minimum <=> s.minimum <= v.number)
      BY <3>1, <3>2
    <3>. HIDE DEF min, max
    <3>. DEFINE two == <<min, max>>
    <3>6. DOMAIN two = 1..2 /\ two[1] = min /\ two[2] = max
      OBVIOUS
    <3>7. \A i \in 1..2 : two[i] \in {min, max}
      BY <3>6
    <3>. HIDE DEF two
    <3>8. /\ FirstOf(two) = "ok" <=> \A i \in 1..2 : two[i] = "ok"
          /\ FirstOf(two) # "ok" => \E i \in 1..2 : FirstOf(two) = two[i]
      BY <3>6, FirstIsOneOf
    <3>9. FirstOf(two) \in Fine
      BY <3>3, <3>7, <3>8
    <3>10. FirstOf(two) = "ok" <=> min = "ok" /\ max = "ok"
      <4>1. 1 \in 1..2 /\ 2 \in 1..2
        OBVIOUS
      <4>. QED  BY <3>6, <3>7, <3>8, <4>1
    <3>11. NumberVerdict(v, s) = FirstOf(two)
      BY <3>4 DEF two
    <3>. QED  BY <2>2, <3>3, <3>5, <3>9, <3>10, <3>11
  <2>. QED  BY <2>1, <2>2
<1>8. RequiredVerdict(v, s) \in Fine /\ (RequiredVerdict(v, s) = "ok" <=>
          (v.kind = "dict" => (Has(s, "required") => \A key \in s.required : Has(v.at, key))))
  <2>1. CASE v.kind # "dict"
    BY <2>1 DEF RequiredVerdict
  <2>2. CASE v.kind = "dict"
    <3>1. RequiredVerdict(v, s) = Checked(s, "required", s.required \subseteq DOMAIN v.at)
      BY <2>2 DEF RequiredVerdict
    <3>2. s.required \subseteq DOMAIN v.at <=> \A key \in s.required : Has(v.at, key)
      BY DEF Has
    <3>. QED  BY <1>k, <1>c, <2>2, <3>1, <3>2
  <2>. QED  BY <2>1, <2>2
<1>9. /\ FirstOf(members) \in Fine
      /\ FirstOf(members) = "ok" <=>
            (v.kind = "dict" => (Has(s, "properties") =>
                \A p \in Range(s.properties) :
                    Has(v.at, p.name) => Meets[<<v.at[p.name], p.schema>>]))
  <2>1. CASE v.kind = "dict" /\ Has(s, "properties")
    <3>. DEFINE ps == s.properties
    <3>1. members = [i \in DOMAIN ps |->
                        LET p == ps[i]
                        IN  IF Has(v.at, p.name) THEN Validate[<<v.at[p.name], p.schema>>]
                            ELSE "ok"]
      BY <1>k, <2>1 DEF MemberVerdicts
    <3>2. ps \in Seq(Range(ps))
      BY <1>k, <2>1, PartsAreLower
    <3>3. DOMAIN ps = 1..Len(ps) /\ Len(ps) \in Nat
      BY <3>2
    <3>4. Range(ps) = {ps[i] : i \in DOMAIN ps}
      BY DEF Range
    <3>5. ASSUME NEW i \in DOMAIN ps, Has(v.at, ps[i].name)
          PROVE  Right(v.at[ps[i].name], ps[i].schema)
      <4>1. ps[i].schema \in SchemaParts /\ Nesting[ps[i].schema] < Nesting[s]
        BY <1>k, <2>1, PartsAreLower
      <4>2. v.at[ps[i].name] \in Json
        BY <2>1, <3>5, JsonHasItsParts DEF Has
      <4>3. Sound(ps[i].schema)
        BY <1>1, <2>1, <3>4
      <4>4. NoWholeFloat[<<v.at[ps[i].name], ps[i].schema>>]
        BY <1>0, <1>k, <2>1, <3>4, <3>5 DEF NoWholeFloatAll
      <4>. QED  BY <4>1, <4>2, <4>3, <4>4 DEF RightBelow
    <3>. HIDE DEF members, ps
    <3>6. ASSUME NEW i \in DOMAIN ps
          PROVE  /\ members[i] \in Fine
                 /\ members[i] = "ok" <=>
                        (Has(v.at, ps[i].name) => Meets[<<v.at[ps[i].name], ps[i].schema>>])
      BY <3>1, <3>5 DEF Right
    <3>7. DOMAIN members = 1..Len(ps)
      BY <3>1, <3>3
    <3>8. FirstOf(members) \in Fine
      <4>1. \/ FirstOf(members) = "ok"
            \/ \E i \in 1..Len(ps) : FirstOf(members) = members[i]
        BY <3>3, <3>7, FirstIsOneOf
      <4>2. \A i \in 1..Len(ps) : members[i] \in Fine
        BY <3>3, <3>6
      <4>. QED  BY <4>1, <4>2
    <3>9. FirstOf(members) = "ok" <=>
              \A i \in DOMAIN ps :
                  Has(v.at, ps[i].name) => Meets[<<v.at[ps[i].name], ps[i].schema>>]
      BY <3>3, <3>6, <3>7, FirstIsOneOf
    <3>. QED  BY <2>1, <3>4, <3>8, <3>9 DEF ps
  <2>2. CASE ~(v.kind = "dict" /\ Has(s, "properties"))
    <3>1. members = << >>
      BY <2>2 DEF MemberVerdicts
    <3>2. FirstOf(<< >>) = "ok"
      BY DEF FirstOf
    <3>. QED  BY <2>2, <3>1, <3>2
  <2>. QED  BY <2>1, <2>2
<1>10. /\ FirstOf(elements) \in Fine
       /\ FirstOf(elements) = "ok" <=>
            (v.kind = "list" /\ Has(s, "items") =>
                \A item \in Range(v.items) : Meets[<<item, s.items>>])
  <2>1. CASE v.kind = "list" /\ Has(s, "items")
    <3>1. elements = [i \in DOMAIN v.items |-> Validate[<<v.items[i], s.items>>]]
      BY <1>k, <2>1 DEF ElementVerdicts
    <3>2. /\ v.items \in Seq(Json) /\ s.items \in SchemaParts /\ Nesting[s.items] < Nesting[s]
          /\ Sound(s.items)
      BY <1>1, <1>k, <2>1, JsonHasItsParts, PartsAreLower
    <3>3. /\ DOMAIN v.items = 1..Len(v.items) /\ Len(v.items) \in Nat
          /\ \A i \in DOMAIN v.items : v.items[i] \in Json
      BY <3>2
    <3>4. ASSUME NEW i \in DOMAIN v.items
          PROVE  Right(v.items[i], s.items)
      <4>1. v.items[i] \in Range(v.items)
        BY DEF Range
      <4>2. NoWholeFloat[<<v.items[i], s.items>>]
        BY <1>0, <1>k, <2>1, <4>1 DEF NoWholeFloatAll
      <4>. QED  BY <3>2, <3>3, <4>2 DEF RightBelow
    <3>. HIDE DEF elements
    <3>5. ASSUME NEW i \in DOMAIN v.items
          PROVE  elements[i] \in Fine /\ (elements[i] = "ok" <=> Meets[<<v.items[i], s.items>>])
      BY <3>1, <3>4 DEF Right
    <3>6. DOMAIN elements = 1..Len(v.items)
      BY <3>1, <3>3
    <3>7. FirstOf(elements) \in Fine
      <4>1. \/ FirstOf(elements) = "ok"
            \/ \E i \in 1..Len(v.items) : FirstOf(elements) = elements[i]
        BY <3>3, <3>6, FirstIsOneOf
      <4>2. \A i \in 1..Len(v.items) : elements[i] \in Fine
        BY <3>3, <3>5
      <4>. QED  BY <4>1, <4>2
    <3>8. FirstOf(elements) = "ok" <=> \A i \in DOMAIN v.items : Meets[<<v.items[i], s.items>>]
      BY <3>3, <3>5, <3>6, FirstIsOneOf
    <3>. QED  BY <2>1, <3>7, <3>8 DEF Range
  <2>2. CASE ~(v.kind = "list" /\ Has(s, "items"))
    <3>1. elements = << >>
      BY <2>2 DEF ElementVerdicts
    <3>2. FirstOf(<< >>) = "ok"
      BY DEF FirstOf
    <3>. QED  BY <2>2, <3>1, <3>2
  <2>. QED  BY <2>1, <2>2
<1>. HIDE DEF members, elements
<1>11. /\ FirstOf(all) \in Fine
       /\ FirstOf(all) = "ok" <=>
            /\ TypeVerdict(v, s) = "ok" /\ EnumVerdict(v, s) = "ok" /\ TextVerdict(v, s) = "ok"
            /\ NumberVerdict(v, s) = "ok" /\ RequiredVerdict(v, s) = "ok"
            /\ FirstOf(members) = "ok" /\ FirstOf(elements) = "ok"
  <2>1. DOMAIN all = 1..7 /\ \A i \in 1..7 : all[i] \in Fine
    BY <1>3, <1>4, <1>6, <1>7, <1>8, <1>9, <1>10
  <2>2. (\A i \in 1..7 : all[i] = "ok") <=>
            /\ all[1] = "ok" /\ all[2] = "ok" /\ all[3] = "ok" /\ all[4] = "ok"
            /\ all[5] = "ok" /\ all[6] = "ok" /\ all[7] = "ok"
    <3>1. \A i \in 1..7 : i = 1 \/ i = 2 \/ i = 3 \/ i = 4 \/ i = 5 \/ i = 6 \/ i = 7
      OBVIOUS
    <3>. HIDE DEF all
    <3>. QED  BY <3>1
  <2>3. /\ FirstOf(all) \in Fine
        /\ FirstOf(all) = "ok" <=> \A i \in 1..7 : all[i] = "ok"
    <3>. HIDE DEF all
    <3>. QED  BY <2>1, FirstIsOneOf
  <2>. QED  BY <2>2, <2>3
<1>12. MeetsAll(v, s, Meets) <=>
          /\ OfType(v, type)
          /\ Has(s, "enum") => \E w \in Range(s.enum) :
                                   Equal(v, w) /\ (v.kind = "bool" <=> w.kind = "bool")
          /\ TextVerdict(v, s) = "ok" /\ NumberVerdict(v, s) = "ok"
          /\ RequiredVerdict(v, s) = "ok"
          /\ FirstOf(members) = "ok" /\ FirstOf(elements) = "ok"
  <2>1. (Has(s, "type") => \E name \in Range(s.type) : OfType(v, name)) <=> OfType(v, type)
    BY <1>1
  <2>. QED  BY <1>1, <1>6, <1>7, <1>8, <1>9, <1>10, <2>1, Zenon DEF MeetsAll
<1>13. MeetsAll(v, s, Meets) <=> FirstOf(all) = "ok"
  BY <1>3, <1>4, <1>5, <1>11, <1>12, Zenon
<1>14. MeetsAll(v, s, Meets) \in BOOLEAN
  BY MeetsIsBoolean
<1>. QED  BY <1>2, <1>11, <1>13, <1>14 DEF Right

(* schema_validation.py: a schema that the constructor accepts, whose keywords
   have values of their types and of which every part names one type, judges as
   JSON Schema would every value that has no whole float where the schema wants
   an integer, and raises for none, however deep the two nest. *)
THEOREM ValidatorMeansTheSchema ==
    ASSUME NEW v \in Json, NEW s \in SchemaParts, Typed[s], ShapeAccepted[s],
           NoWholeFloat[<<v, s>>]
    PROVE  Validate[<<v, s>>] = (IF Meets[<<v, s>>] THEN "ok" ELSE "mismatch")
PROOF
<1>. DEFINE Deep == {n \in Nat : RightBelow(n)}
<1>1. \A t \in SchemaParts : Nesting[t] \in Nat
  BY PartsAreLower
<1>2. 0 \in Deep /\ Deep \subseteq Nat
  BY <1>1 DEF RightBelow
<1>3. ASSUME NEW n \in Deep
      PROVE  n + 1 \in Deep
  <2>. SUFFICES ASSUME NEW t \in SchemaParts, NEW w \in Json, Nesting[t] < n + 1, Sound(t),
                       NoWholeFloat[<<w, t>>]
                PROVE  Right(w, t)
    BY DEF RightBelow
  <2>1. RightBelow(n) /\ n \in Nat /\ Nesting[t] \in Nat /\ \A u \in SchemaParts : Nesting[u] \in Nat
    BY <1>1
  <2>2. RightBelow(Nesting[t])
    <3>1. \A u \in SchemaParts : Nesting[u] < Nesting[t] => Nesting[u] < n
      BY <2>1
    <3>. QED  BY <2>1, <3>1 DEF RightBelow
  <2>. QED  BY <2>2, RightByParts
<1>4. Deep = Nat
  <2>. HIDE DEF Deep
  <2>. QED  BY <1>2, <1>3, CountingUp
<1>5. RightBelow(Nesting[s] + 1) /\ Nesting[s] < Nesting[s] + 1
  <2>1. Nesting[s] \in Nat /\ Nesting[s] + 1 \in Nat
    BY <1>1
  <2>. QED  BY <1>4, <2>1
<1>6. Right(v, s)
  BY <1>5 DEF Sound, RightBelow
<1>. QED  BY <1>6 DEF Right

-----------------------------------------------------------------------------
(* What a rule concludes, when it was made of a well-formed schema of which every
   part names one type, and is given no whole float for an integer: None, or one
   unit of evidence. *)
LEMMA RuleConcludes ==
    ASSUME NEW b \in DOMAIN RuleLists, NEW c \in DOMAIN Contexts,
           NEW rule \in Range(RuleLists[b]), Accepted(rule),
           rule.name = "schema_validation" =>
               /\ Typed[rule.schema]
               /\ Has(Contexts[c], "output") => NoWholeFloat[<<Contexts[c].output, rule.schema>>]
    PROVE  LET context == Contexts[c]
               result == Evaluate(rule, context)
           IN  /\ result # Error
               /\ result # None => \E n \in 0..Whole : result = Result(n, Whole - n)
               /\ rule.name = "schema_validation" =>
                    IF Has(context, "output")
                    THEN /\ result # None
                         /\ result.positive =
                                IF Meets[<<context.output, rule.schema>>] THEN Whole ELSE 0
                    ELSE result = None
PROOF
<1>. DEFINE context == Contexts[c]
            result == Evaluate(rule, context)
            Unit(x) == x = None \/ \E n \in 0..Whole : x = Result(n, Whole - n)
<1>1. Whole \in Nat /\ Whole > 0 /\ Error # None
      /\ \A n \in 0..Whole : Result(n, Whole - n) # Error /\ Result(n, Whole - n) # None
  BY WholeIsPositive, RulesAreFedWithJson
<1>2. Good = Result(Whole, Whole - Whole) /\ Bad = Result(0, Whole - 0)
  BY <1>1 DEF Good, Bad
<1>3. Unit(Good) /\ Unit(Bad) /\ Unit(None) /\ Good # None /\ Bad # None
  BY <1>1, <1>2
<1>4. /\ rule.name \in {"task_completion", "latency", "consensus", "response_quality",
                        "schema_validation"}
      /\ rule.name = "schema_validation" => rule.schema \in SchemaParts
      /\ Has(context, "output") => context.output \in Json
      /\ \A key \in {"agreement_ratio", "score", "response_quality"} :
             Lookup(context, key) \in Int \cup {None, NaN}
  BY RulesAreFedWithJson
<1>5. ASSUME NEW x \in Int \cup {None, NaN}
      PROVE  Unit(Graded(x))
  <2>. DEFINE n == IF x = NaN \/ x > Whole THEN Whole ELSE IF x < 0 THEN 0 ELSE x
  <2>1. CASE x = None
    BY <1>3, <2>1 DEF Graded
  <2>2. CASE x # None
    <3>1. n \in 0..Whole
      BY <1>1, <1>5, <2>2
    <3>2. Graded(x) = Result(n, Whole - n)
      BY <2>2 DEF Graded
    <3>. HIDE DEF n
    <3>. QED  BY <3>1, <3>2
  <2>. QED  BY <2>1, <2>2
<1>. HIDE DEF context, Unit
<1>6. CASE rule.name = "task_completion"
  <2>1. Unit(result)
    BY <1>3, <1>6 DEF Evaluate, Judged
  <2>. QED  BY <1>1, <1>6, <2>1 DEF Unit, context
<1>7. CASE rule.name = "latency"
  <2>1. Unit(result)
    BY <1>3, <1>7 DEF Evaluate, Judged
  <2>. QED  BY <1>1, <1>7, <2>1 DEF Unit, context
<1>8. CASE rule.name = "consensus"
  <2>1. Unit(result)
    BY <1>4, <1>5, <1>8 DEF Evaluate
  <2>. QED  BY <1>1, <1>8, <2>1 DEF Unit, context
<1>9. CASE rule.name = "response_quality"
  <2>1. result = Graded(Lookup(context, IF Has(context, "score") THEN "score"
                                        ELSE "response_quality"))
    BY <1>9 DEF Evaluate, Lookup
  <2>2. Unit(result)
    BY <1>4, <1>5, <2>1
  <2>. QED  BY <1>1, <1>9, <2>2 DEF Unit, context
<1>10. CASE rule.name = "schema_validation"
  <2>. DEFINE value == context.output
              schema == rule.schema
  <2>1. result = SchemaVerdict(context, schema)
    BY <1>10 DEF Evaluate
  <2>2. CASE ~Has(context, "output")
    <3>1. result = None
      BY <2>1, <2>2 DEF SchemaVerdict
    <3>. QED  BY <1>1, <2>2, <3>1 DEF context
  <2>3. CASE Has(context, "output")
    <3>1. /\ ShapeAccepted[schema] /\ Typed[schema] /\ schema \in SchemaParts /\ value \in Json
          /\ NoWholeFloat[<<value, schema>>]
      BY <1>4, <1>10, <2>3 DEF Accepted, context
    <3>. HIDE DEF value, schema, result
    <3>2. Validate[<<value, schema>>] = IF Meets[<<value, schema>>] THEN "ok" ELSE "mismatch"
      BY <3>1, ValidatorMeansTheSchema
    <3>3. result = IF Meets[<<value, schema>>] THEN Good ELSE Bad
      BY <2>1, <2>3, <3>2 DEF SchemaVerdict, value
    <3>4. Unit(result) /\ result # None
      BY <1>3, <3>3
    <3>5. result.positive = IF Meets[<<value, schema>>] THEN Whole ELSE 0
      BY <3>3 DEF Good, Bad, Result
    <3>6. result # Error /\ \E n \in 0..Whole : result = Result(n, Whole - n)
      BY <1>1, <3>4 DEF Unit
    <3>. QED  BY <2>3, <3>4, <3>5, <3>6 DEF value, schema, result, context
  <2>. QED  BY <2>2, <2>3
<1>. QED  BY <1>4, <1>6, <1>7, <1>8, <1>9, <1>10

(* The evidence of a session with rules is what they concluded. *)
RuleEntries(book) == [i \in DOMAIN book |-> [name |-> None, callback |-> book[i].name]]

RulesOK(st, ru, ev) ==
    ru # None =>
        \E b \in DOMAIN RuleLists, c \in DOMAIN Contexts :
            LET book == RuleLists[b]
                results == EvaluateAll(book, Contexts[c])
            IN  /\ ru = <<b, c>> /\ \A i \in DOMAIN book : Accepts(book[i])
                /\ IF st = "lost" THEN Error \in Range(results)
                   ELSE Error \notin Range(results) /\ ev = Pieces(RuleEntries(book), results)

RulesInv == \A s \in Sessions : RulesOK(stage[s], rules[s], evidence[s])

LEMMA RulesInductive == CollectionInv /\ RulesInv /\ [Next]_vars => RulesInv'
PROOF
<1>. SUFFICES ASSUME CollectionInv, RulesInv, [Next]_vars, NEW s \in Sessions
              PROVE  RulesOK(stage'[s], rules'[s], evidence'[s])
  BY DEF RulesInv
<1>. DEFINE Steady == \/ rules'[s] = None
                      \/ /\ rules'[s] = rules[s] /\ evidence'[s] = evidence[s]
                         /\ stage'[s] = "lost" <=> stage[s] = "lost"
<1>1. /\ stage[s] \in {"idle", "gathering"} => rules[s] = None
      /\ DOMAIN stage = Sessions /\ DOMAIN rules = Sessions /\ DOMAIN evidence = Sessions
  BY DEF CollectionInv, VariablesTyped, SessionOK, CollectedOK
<1>2. Steady => RulesOK(stage'[s], rules'[s], evidence'[s])
  BY DEF RulesInv, RulesOK
<1>3. ASSUME NEW t \in Sessions, StartCallbacks(t) PROVE Steady
  BY <1>1, <1>3 DEF StartCallbacks
<1>4. ASSUME NEW t \in Sessions, Gathered(t) PROVE Steady
  BY <1>1, <1>4 DEF Gathered
<1>5. ASSUME NEW t \in Sessions, Submit(t) PROVE Steady
  BY <1>5 DEF Submit
<1>6. ASSUME NEW t \in Sessions, Return(t) PROVE Steady
  BY <1>1, <1>6 DEF Return
<1>7. ASSUME NEW t \in Sessions, NEW i, AnswerError(t, i) PROVE Steady
  BY <1>1, <1>7 DEF AnswerError
<1>8. ASSUME NEW t \in Sessions, NEW i, NEW answer, Answer(t, i, answer) PROVE Steady
  BY <1>8 DEF Answer
<1>9. ASSUME NEW t \in Sessions, NEW effect, SubmitFails(t, effect) PROVE Steady
  BY <1>1, <1>9 DEF SubmitFails, AfterFailed
<1>10. ASSUME NEW name, NEW callback, AddCallback(name, callback) PROVE Steady
  BY <1>10 DEF AddCallback, session
<1>11. ASSUME UNCHANGED vars PROVE Steady
  BY <1>11 DEF vars
<1>12. ASSUME NEW t \in Sessions, NEW b \in DOMAIN RuleLists, NEW c \in DOMAIN Contexts,
              CollectRules(t, b, c)
       PROVE  RulesOK(stage'[s], rules'[s], evidence'[s])
  <2>. DEFINE book == RuleLists[b]
              results == EvaluateAll(book, Contexts[c])
  <2>1. CASE t # s
    <3>1. rules'[s] = rules[s]
      BY <1>1, <1>12, <2>1 DEF CollectRules
    <3>2. \/ stage' = [stage EXCEPT ![t] = "lost"] /\ evidence' = evidence
          \/ /\ stage' = [stage EXCEPT ![t] = "submitting"]
             /\ \E ev : evidence' = [evidence EXCEPT ![t] = ev]
      BY <1>12 DEF CollectRules
    <3>3. stage'[s] = stage[s] /\ evidence'[s] = evidence[s]
      BY <1>1, <2>1, <3>2
    <3>4. Steady
      BY <3>1, <3>3
    <3>. QED  BY <1>2, <3>4
  <2>2. CASE t = s
    <3>1. rules'[s] = <<b, c>> /\ \A i \in DOMAIN book : Accepts(book[i])
      BY <1>1, <1>12, <2>2 DEF CollectRules
    <3>2. IF stage'[s] = "lost" THEN Error \in Range(results)
          ELSE Error \notin Range(results) /\ evidence'[s] = Pieces(RuleEntries(book), results)
      <4>1. \/ Error \in Range(results) /\ stage' = [stage EXCEPT ![s] = "lost"]
            \/ /\ Error \notin Range(results) /\ stage' = [stage EXCEPT ![s] = "submitting"]
               /\ evidence' = [evidence EXCEPT ![s] = Pieces(RuleEntries(book), results)]
        BY <1>12, <2>2 DEF CollectRules, RuleEntries
      <4>. HIDE DEF results, book
      <4>. QED  BY <1>1, <4>1
    <3>. QED  BY <3>1, <3>2 DEF RulesOK
  <2>. QED  BY <2>1, <2>2
<1>. HIDE DEF Steady
<1>. QED  BY <1>2, <1>3, <1>4, <1>5, <1>6, <1>7, <1>8, <1>9, <1>10, <1>11, <1>12
          DEF Next, Rest

LEMMA InvJudges == RulesInv => RulesJudgeBySchema
PROOF
<1>. SUFFICES ASSUME RulesInv, NEW s \in Sessions, rules[s] # None,
                     \A schema \in SchemasOf(s) :
                         /\ Typed[schema]
                         /\ Has(Context(s), "output") =>
                                NoWholeFloat[<<Context(s).output, schema>>]
              PROVE  JudgedByItsSchemas(s)
  BY DEF RulesJudgeBySchema
<1>1. PICK b \in DOMAIN RuleLists, c \in DOMAIN Contexts :
          LET book == RuleLists[b]
              results == EvaluateAll(book, Contexts[c])
          IN  /\ rules[s] = <<b, c>> /\ \A i \in DOMAIN book : Accepts(book[i])
              /\ IF stage[s] = "lost" THEN Error \in Range(results)
                 ELSE /\ Error \notin Range(results)
                      /\ evidence[s] = Pieces(RuleEntries(book), results)
  BY DEF RulesInv, RulesOK
<1>. DEFINE book == RuleLists[b]
            context == Contexts[c]
            results == EvaluateAll(book, context)
            entries == RuleEntries(book)
            schemas == {rule.schema : rule \in {r \in Range(book) : r.name = "schema_validation"}}
            pieces == Range(evidence[s])
            Just(p, schema) ==
                p.by = "schema_validation"
                /\ p.positive = IF Meets[<<context.output, schema>>] THEN Whole ELSE 0
<1>2. rules[s][1] = b /\ rules[s][2] = c
  BY <1>1
<1>a. Context(s) = context /\ SchemasOf(s) = schemas
  BY <1>2 DEF Context, SchemasOf
<1>b. \A schema \in schemas :
          Typed[schema] /\ (Has(context, "output") => NoWholeFloat[<<context.output, schema>>])
  BY <1>a
<1>. SUFFICES /\ stage[s] # "lost"
              /\ \A p \in pieces :
                   /\ p.positive >= 0 /\ p.negative >= 0
                   /\ p.positive + p.negative = Whole
                   /\ p.by = "schema_validation" => \E schema \in schemas : Just(p, schema)
              /\ Has(context, "output") =>
                   \A schema \in schemas : \E p \in pieces : Just(p, schema)
  <2>. HIDE DEF context, schemas
  <2>. QED  BY <1>a DEF JudgedByItsSchemas
<1>3. book \in Seq(Range(book))
  BY RuleListsAreLists
<1>4. DOMAIN book = 1..Len(book) /\ Len(book) \in Nat /\ Range(book) = {book[i] : i \in 1..Len(book)}
  BY <1>3 DEF Range
<1>5. ASSUME NEW i \in DOMAIN book
      PROVE  /\ results[i] # Error
             /\ results[i] # None => \E n \in 0..Whole : results[i] = Result(n, Whole - n)
             /\ book[i].name = "schema_validation" =>
                    IF Has(context, "output")
                    THEN /\ results[i] # None
                         /\ results[i].positive =
                                IF Meets[<<context.output, book[i].schema>>] THEN Whole ELSE 0
                    ELSE results[i] = None
  <2>1. book[i] \in Range(book)
    BY DEF Range
  <2>2. book[i].name = "schema_validation" =>
            /\ Typed[book[i].schema]
            /\ Has(context, "output") => NoWholeFloat[<<context.output, book[i].schema>>]
    BY <1>b, <2>1
  <2>3. Accepts(book[i])
    BY <1>1
  <2>4. Accepted(book[i]) /\ results[i] = Evaluate(book[i], context)
    BY <2>3, RulesAreTheBuiltIn DEF EvaluateAll
  <2>. HIDE DEF book, context, results
  <2>. QED  BY <2>1, <2>2, <2>4, RuleConcludes DEF book, context
<1>6. DOMAIN results = DOMAIN book
  BY DEF EvaluateAll
<1>7. stage[s] # "lost"
  <2>1. Error \notin Range(results)
    <3>. HIDE DEF results, book
    <3>. QED  BY <1>5, <1>6 DEF Range
  <2>. QED  BY <1>1, <2>1
<1>8. pieces = {PieceOf(entries, results, i) : i \in Said(results, Len(book))}
  <2>1. evidence[s] = Pieces(entries, results)
    BY <1>1, <1>7
  <2>2. Len(entries) = Len(book)
    <3>1. entries \in Seq({[name |-> None, callback |-> book[i].name] : i \in DOMAIN book})
      BY <1>4 DEF RuleEntries
    <3>. QED  BY <1>4, <3>1 DEF RuleEntries
  <2>. HIDE DEF entries, results, book
  <2>. QED  BY <1>4, <2>1, <2>2, PiecesFacts
<1>9. \A i \in DOMAIN book :
          LET p == PieceOf(entries, results, i)
          IN  /\ p.by = book[i].name
              /\ p.positive = results[i].positive /\ p.negative = results[i].negative
  BY DEF PieceOf, Piece, RuleEntries
<1>10. Said(results, Len(book)) = {i \in DOMAIN book : results[i] # None}
  BY <1>4 DEF Said
<1>. HIDE DEF results, entries, book, context, pieces
<1>11. ASSUME NEW p \in pieces
       PROVE  /\ p.positive >= 0 /\ p.negative >= 0 /\ p.positive + p.negative = Whole
              /\ p.by = "schema_validation" => \E schema \in schemas : Just(p, schema)
  <2>1. PICK i \in DOMAIN book : results[i] # None /\ p = PieceOf(entries, results, i)
    BY <1>8, <1>10
  <2>2. p.by = book[i].name /\ p.positive = results[i].positive /\ p.negative = results[i].negative
    BY <1>9, <2>1
  <2>3. PICK n \in 0..Whole : results[i] = Result(n, Whole - n)
    BY <1>5, <2>1
  <2>4. p.positive = n /\ p.negative = Whole - n
    BY <2>2, <2>3 DEF Result
  <2>5. p.positive >= 0 /\ p.negative >= 0 /\ p.positive + p.negative = Whole
    BY <2>4, WholeIsPositive
  <2>6. ASSUME p.by = "schema_validation"
        PROVE  \E schema \in schemas : Just(p, schema)
    <3>1. book[i].schema \in schemas
      BY <1>4, <2>2, <2>6
    <3>2. Just(p, book[i].schema)
      BY <1>5, <2>1, <2>2, <2>6
    <3>. QED  BY <3>1, <3>2
  <2>. QED  BY <2>5, <2>6
<1>12. ASSUME Has(context, "output"), NEW schema \in schemas
       PROVE  \E p \in pieces : Just(p, schema)
  <2>1. PICK i \in DOMAIN book : book[i].name = "schema_validation" /\ schema = book[i].schema
    BY <1>4
  <2>2. results[i] # None /\ PieceOf(entries, results, i) \in pieces
    BY <1>5, <1>8, <1>10, <1>12, <2>1
  <2>3. Just(PieceOf(entries, results, i), schema)
    BY <1>5, <1>9, <1>12, <2>1
  <2>. QED  BY <2>2, <2>3
<1>. QED  BY <1>7, <1>11, <1>12

(* In a collection with well-formed schemas of which every part names one type,
   given no whole float where an integer is wanted, no rule raises; each of the
   schema rules judges the output as JSON Schema would, and whatever a rule says
   is one unit of evidence: for any rules, schemas and outputs, nested as deep
   as they like (schema_validation.py, response_quality.py,
   RuleBasedCollector.collect). *)
THEOREM RulesFollowTheirSchemas == Spec => []RulesJudgeBySchema
PROOF
<1>1. Spec => []CollectionInv
  BY InitCollection, CollectionInductive, PTL DEF Spec
<1>2. Init => RulesInv
  BY DEF Init, RulesInv, RulesOK
<1>3. Spec => []RulesInv
  BY <1>1, <1>2, RulesInductive, PTL DEF Spec
<1>. QED  BY <1>3, InvJudges, PTL
=============================================================================
