---------------------------- MODULE SwarmProofs ----------------------------
(***************************************************************************)
(* Proofs about Swarm, for any finite set of peers, any torrent, any       *)
(* limits and timeouts, and anything that peers may send; and, after them, *)
(* about SwarmHonest, in which the peers send what they should.  Holds and *)
(* what is assumed of it matter only there.                                *)
(***************************************************************************)
EXTENDS SwarmHonest, PieceManagerProofs

-----------------------------------------------------------------------------
(* Bags *)

\* B is a bag of members of S.
BagOver(B, S) == B \in [DOMAIN B -> Nat \ {0}] /\ DOMAIN B \subseteq S

\* A finite union of finite sets that are told apart by a label.
LEMMA LabelledFinite ==
  ASSUME NEW D, IsFiniteSet(D), NEW f, \A e \in D : IsFiniteSet(f[e])
  PROVE  IsFiniteSet(UNION {{e} \X f[e] : e \in D})
<1> DEFINE parts == {{e} \X f[e] : e \in D}
           g == [e \in D |-> {e} \X f[e]]
<1>1. g \in Surjection(D, parts)
  BY DEF Surjection
<1>2. ASSUME NEW e \in D PROVE IsFiniteSet({e} \X f[e])
  <2>1. IsFiniteSet({e}) /\ IsFiniteSet(f[e])
    BY FS_Singleton
  <2> QED BY <2>1, FS_Product
<1>3. \A s \in parts : IsFiniteSet(s)
  BY <1>2
<1> HIDE DEF parts, g
<1>4. IsFiniteSet(parts)
  BY <1>1, FS_Surjection
<1>5. IsFiniteSet(UNION parts)
  BY <1>3, <1>4, FS_UNION
<1> QED BY <1>5 DEF parts

\* The copies in a bag over a finite set are finitely many.
LEMMA CopiesFinite ==
  ASSUME NEW S, IsFiniteSet(S), NEW B, BagOver(B, S)
  PROVE  IsFiniteSet(Copies(B)) /\ Cardinality(Copies(B)) \in Nat
<1> DEFINE f == [e \in DOMAIN B |-> 1 .. B[e]]
<1>1. IsFiniteSet(DOMAIN B)
  <2>1. DOMAIN B \in SUBSET S
    BY DEF BagOver
  <2> QED BY <2>1, FS_Subset
<1>2. ASSUME NEW e \in DOMAIN B PROVE IsFiniteSet(f[e])
  <2>1. 1 \in Int /\ B[e] \in Int
    BY DEF BagOver
  <2>2. IsFiniteSet(1 .. B[e])
    BY <2>1, FS_Interval
  <2>3. f[e] = 1 .. B[e]
    OBVIOUS
  <2> HIDE DEF f
  <2> QED BY <2>2, <2>3
<1>3. Copies(B) = UNION {{e} \X f[e] : e \in DOMAIN B}
  <2>1. \A e \in DOMAIN B : f[e] = 1 .. B[e]
    OBVIOUS
  <2> HIDE DEF f
  <2>2. {{e} \X f[e] : e \in DOMAIN B} = {{e} \X (1 .. B[e]) : e \in DOMAIN B}
    BY <2>1
  <2> QED BY <2>2 DEF Copies, BagToSet
<1> HIDE DEF f
<1>4. IsFiniteSet(Copies(B))
  BY <1>1, <1>2, <1>3, LabelledFinite
<1> QED BY <1>4, FS_CardinalityType

\* What the copies are.
LEMMA CopyOf ==
  ASSUME NEW B, NEW x
  PROVE  x \in Copies(B) <=> \E e \in DOMAIN B : \E i \in 1 .. B[e] : x = <<e, i>>
BY DEF Copies, BagToSet

\* Fewer copies.
LEMMA FewerCopies ==
  ASSUME NEW S, IsFiniteSet(S), NEW B, BagOver(B, S),
         NEW A, BagOver(A, S), DOMAIN A \subseteq DOMAIN B,
         \A e \in DOMAIN A : A[e] <= B[e]
  PROVE  Cardinality(Copies(A)) <= Cardinality(Copies(B))
<1>1. ASSUME NEW x \in Copies(A) PROVE x \in Copies(B)
  <2>0. PICK e \in DOMAIN A : \E i \in 1 .. A[e] : x = <<e, i>>
    BY CopyOf
  <2>1. PICK i \in 1 .. A[e] : x = <<e, i>>
    BY <2>0
  <2>2. A[e] \in Nat /\ B[e] \in Nat /\ A[e] <= B[e] /\ e \in DOMAIN B
    BY DEF BagOver
  <2>3. i \in 1 .. B[e]
    BY <2>2
  <2> QED BY <2>1, <2>2, <2>3, CopyOf
<1>2. Copies(A) \in SUBSET Copies(B) /\ IsFiniteSet(Copies(B))
  BY <1>1, CopiesFinite
<1> QED BY <1>2, FS_Subset

\* The bag that Tally makes has a copy for each pair at most.
LEMMA TallyFacts ==
  ASSUME NEW S, NEW pairs, IsFiniteSet(pairs), \A d \in pairs : d[1] \in S
  PROVE  /\ BagOver(Tally(pairs), S)
         /\ DOMAIN Tally(pairs) = {d[1] : d \in pairs}
         /\ Cardinality(Copies(Tally(pairs))) \in Nat
         /\ Cardinality(Copies(Tally(pairs))) <= Cardinality(pairs)
<1> DEFINE B == Tally(pairs)
           class(e) == {d \in pairs : d[1] = e}
<1>1. ASSUME NEW e \in {d[1] : d \in pairs}
      PROVE  /\ Cardinality(class(e)) \in Nat \ {0}
             /\ ExistsBijection(1 .. Cardinality(class(e)), class(e))
  <2>1. class(e) \in SUBSET pairs /\ class(e) # {}
    OBVIOUS
  <2> HIDE DEF class
  <2>2. IsFiniteSet(class(e))
    BY <2>1, FS_Subset
  <2> QED BY <2>1, <2>2, FS_CardinalityType, FS_EmptySet
<1>2. /\ DOMAIN B = {d[1] : d \in pairs}
      /\ \A e \in DOMAIN B : B[e] = Cardinality(class(e))
  BY DEF Tally
<1>3. BagOver(B, S)
  <2>1. \A e \in DOMAIN B : B[e] \in Nat \ {0}
    BY <1>1, <1>2
  <2>2. B = [e \in DOMAIN B |-> B[e]]
    BY DEF Tally
  <2>3. DOMAIN B \subseteq S
    BY <1>2
  <2> HIDE DEF B
  <2>4. B \in [DOMAIN B -> Nat \ {0}]
    BY <2>1, <2>2
  <2> QED BY <2>3, <2>4 DEF BagOver
<1> DEFINE bij(e) == CHOOSE b : b \in Bijection(1 .. Cardinality(class(e)), class(e))
           g == [x \in Copies(B) |-> bij(x[1])[x[2]]]
<1>4. ASSUME NEW e \in DOMAIN B
      PROVE  bij(e) \in Bijection(1 .. B[e], class(e))
  BY <1>1, <1>2 DEF ExistsBijection
<1> HIDE DEF B, class, bij
<1>5. ASSUME NEW e \in DOMAIN B, NEW i \in 1 .. B[e]
      PROVE  bij(e)[i] \in pairs /\ bij(e)[i][1] = e
  <2>1. bij(e)[i] \in class(e)
    BY <1>4 DEF Bijection, Injection, IsInjective, Surjection
  <2> QED BY <2>1 DEF class
<1>6. ASSUME NEW e \in DOMAIN B, NEW i \in 1 .. B[e], NEW j \in 1 .. B[e],
             bij(e)[i] = bij(e)[j]
      PROVE  i = j
  BY <1>4, <1>6 DEF Bijection, Injection, IsInjective
<1>7. g \in Injection(Copies(B), pairs)
  <2>1. ASSUME NEW x \in Copies(B)
        PROVE  /\ x[1] \in DOMAIN B /\ x[2] \in 1 .. B[x[1]] /\ x = <<x[1], x[2]>>
               /\ g[x] = bij(x[1])[x[2]]
    BY CopyOf
  <2>2. \A x \in Copies(B) : g[x] \in pairs /\ g[x][1] = x[1]
    BY <1>5, <2>1
  <2>3. ASSUME NEW x \in Copies(B), NEW y \in Copies(B), g[x] = g[y]
        PROVE  x = y
    <3>1. x[1] = y[1]
      BY <2>2, <2>3
    <3>2. x[2] = y[2]
      BY <1>6, <2>1, <2>3, <3>1
    <3> QED BY <2>1, <3>1, <3>2
  <2>4. g \in [Copies(B) -> pairs]
    BY <2>2
  <2> HIDE DEF g
  <2> QED BY <2>3, <2>4 DEF Injection, IsInjective
<1> HIDE DEF g
<1>8. Cardinality(Copies(B)) <= Cardinality(pairs) /\ Cardinality(Copies(B)) \in Nat
  BY <1>7, FS_Injection, FS_CardinalityType
<1> QED BY <1>2, <1>3, <1>8 DEF B

\* The bags of members of S, as a set.
BagsOver(S) == UNION {[D -> Nat \ {0}] : D \in SUBSET S}

LEMMA BagsOverIs ==
  ASSUME NEW S, NEW B
  PROVE  B \in BagsOver(S) <=> BagOver(B, S)
<1>1. ASSUME B \in BagsOver(S) PROVE BagOver(B, S)
  <2>1. PICK D \in SUBSET S : B \in [D -> Nat \ {0}]
    BY <1>1 DEF BagsOver
  <2> QED BY <2>1 DEF BagOver
<1>2. ASSUME BagOver(B, S) PROVE B \in BagsOver(S)
  BY <1>2 DEF BagOver, BagsOver
<1> QED BY <1>1, <1>2

\* The number of elements of a bag, each counted as often as it is in it.
Size(B) == Cardinality(Copies(B))

LEMMA EmptyBagFacts ==
  ASSUME NEW S
  PROVE  EmptyBag \in BagsOver(S) /\ Size(EmptyBag) = 0 /\ DOMAIN EmptyBag = {}
<1>1. DOMAIN EmptyBag = {} /\ EmptyBag = [e \in {} |-> 1]
  BY DEF EmptyBag, SetToBag
<1>2. BagOver(EmptyBag, S)
  BY <1>1 DEF BagOver
<1>3. Copies(EmptyBag) = {}
  BY <1>1 DEF Copies, BagToSet
<1> QED BY <1>1, <1>2, <1>3, BagsOverIs, FS_EmptySet DEF Size

LEMMA SetToBagFacts ==
  ASSUME NEW S, NEW T, T \subseteq S
  PROVE  SetToBag(T) \in BagsOver(S) /\ DOMAIN SetToBag(T) = T
<1>1. BagOver(SetToBag(T), S) /\ DOMAIN SetToBag(T) = T
  BY DEF SetToBag, BagOver
<1> QED BY <1>1, BagsOverIs

LEMMA SizeIsNat ==
  ASSUME NEW S, IsFiniteSet(S), NEW B \in BagsOver(S)
  PROVE  Size(B) \in Nat
BY CopiesFinite, BagsOverIs DEF Size

\* A bag that has nothing another has not is no larger.
LEMMA PartOfBag ==
  ASSUME NEW S, IsFiniteSet(S), NEW B \in BagsOver(S), NEW A,
         A = [e \in DOMAIN A |-> A[e]], DOMAIN A \subseteq DOMAIN B,
         \A e \in DOMAIN A : A[e] \in 1 .. B[e]
  PROVE  A \in BagsOver(S) /\ Size(A) <= Size(B)
<1>1. BagOver(B, S)
  BY BagsOverIs
<1>2. \A e \in DOMAIN A : A[e] \in Nat \ {0} /\ A[e] <= B[e]
  BY <1>1 DEF BagOver
<1>3. A \in [DOMAIN A -> Nat \ {0}] /\ DOMAIN A \subseteq S
  BY <1>1, <1>2 DEF BagOver
<1>4. BagOver(A, S)
  BY <1>3 DEF BagOver
<1> QED BY <1>1, <1>2, <1>4, FewerCopies, BagsOverIs DEF Size

\* One element removed, or as many as are in B.
LEMMA DifferenceFacts ==
  ASSUME NEW S, IsFiniteSet(S), NEW A \in BagsOver(S), NEW T, NEW B \in BagsOver(T)
  PROVE  /\ A (-) B \in BagsOver(S)
         /\ Size(A (-) B) <= Size(A)
         /\ DOMAIN (A (-) B) \subseteq DOMAIN A
<1>1. BagOver(A, S) /\ BagOver(B, T)
  BY BagsOverIs
<1> DEFINE C == A (-) B
           left(e) == IF e \in DOMAIN B THEN A[e] - B[e] ELSE A[e]
<1>2. DOMAIN C \subseteq DOMAIN A /\ C = [e \in DOMAIN C |-> C[e]]
  BY DEF (-)
<1>3. \A e \in DOMAIN C : C[e] = left(e) /\ left(e) > 0
  BY DEF (-)
<1>4. \A e \in DOMAIN A : A[e] \in Nat /\ left(e) \in Int /\ left(e) <= A[e]
  BY <1>1 DEF BagOver
<1> HIDE DEF C, left
<1>5. \A e \in DOMAIN C : C[e] \in 1 .. A[e]
  BY <1>2, <1>3, <1>4
<1>6. C \in BagsOver(S) /\ Size(C) <= Size(A)
  BY <1>2, <1>5, PartOfBag
<1> QED BY <1>2, <1>6 DEF C

\* The elements of a sum are those of both, and no more of them.
LEMMA SumFacts ==
  ASSUME NEW S, IsFiniteSet(S), NEW A \in BagsOver(S), NEW B \in BagsOver(S)
  PROVE  /\ A (+) B \in BagsOver(S)
         /\ Size(A (+) B) <= Size(A) + Size(B)
         /\ DOMAIN (A (+) B) = DOMAIN A \cup DOMAIN B
<1>1. BagOver(A, S) /\ BagOver(B, S)
  BY BagsOverIs
<1> DEFINE C == A (+) B
           a(e) == IF e \in DOMAIN A THEN A[e] ELSE 0
           b(e) == IF e \in DOMAIN B THEN B[e] ELSE 0
<1>2. /\ DOMAIN C = DOMAIN A \cup DOMAIN B
      /\ C = [e \in DOMAIN C |-> C[e]]
      /\ \A e \in DOMAIN C : C[e] = a(e) + b(e)
  BY DEF (+)
<1>3. \A e \in DOMAIN C : a(e) \in Nat /\ b(e) \in Nat /\ a(e) + b(e) # 0
  BY <1>1, <1>2 DEF BagOver
<1>4. (\A e : e \in DOMAIN A => a(e) = A[e]) /\ (\A e : e \in DOMAIN B => b(e) = B[e])
      /\ (\A e : e \notin DOMAIN A => a(e) = 0) /\ (\A e : e \notin DOMAIN B => b(e) = 0)
  OBVIOUS
<1> HIDE DEF C, a, b
<1>5. \A e \in DOMAIN C : C[e] \in Nat \ {0}
  BY <1>2, <1>3
<1>6. C \in [DOMAIN C -> Nat \ {0}] /\ DOMAIN C \subseteq S
  BY <1>1, <1>2, <1>5 DEF BagOver
<1>7. BagOver(C, S)
  BY <1>6 DEF BagOver
<1> DEFINE rest == Copies(C) \ Copies(A)
           g == [x \in rest |-> <<x[1], x[2] - a(x[1])>>]
<1>8. ASSUME NEW x \in rest
      PROVE  /\ x = <<x[1], x[2]>> /\ x[2] \in Int /\ a(x[1]) \in Nat
             /\ <<x[1], x[2] - a(x[1])>> \in Copies(B)
  <2>1. PICK e \in DOMAIN C : \E i \in 1 .. C[e] : x = <<e, i>>
    BY CopyOf
  <2>2. PICK i \in 1 .. C[e] : x = <<e, i>>
    BY <2>1
  <2>3. a(e) \in Nat /\ b(e) \in Nat /\ C[e] = a(e) + b(e)
    BY <1>2, <1>3
  <2>4. i > a(e)
    <3>1. CASE e \in DOMAIN A
      <4>1. i \notin 1 .. A[e]
        BY <2>2, <3>1, CopyOf
      <4> QED BY <1>4, <2>2, <2>3, <3>1, <4>1
    <3>2. CASE e \notin DOMAIN A
      BY <1>4, <2>2, <3>2
    <3> QED BY <3>1, <3>2
  <2>5. i - a(e) \in 1 .. b(e)
    BY <2>2, <2>3, <2>4
  <2>6. e \in DOMAIN B /\ b(e) = B[e]
    BY <1>4, <2>5
  <2>7. <<e, i - a(e)>> \in Copies(B)
    BY <2>5, <2>6, CopyOf
  <2>8. x[1] = e /\ x[2] = i
    BY <2>2
  <2> QED BY <2>2, <2>3, <2>7, <2>8
<1>9. g \in Injection(rest, Copies(B))
  <2>1. g \in [rest -> Copies(B)]
    BY <1>8
  <2>2. ASSUME NEW x \in rest, NEW y \in rest, g[x] = g[y]
        PROVE  x = y
    <3>1. <<x[1], x[2] - a(x[1])>> = <<y[1], y[2] - a(y[1])>>
      BY <2>2
    <3>2. x[1] = y[1] /\ x[2] - a(x[1]) = y[2] - a(y[1])
      BY <3>1
    <3>3. /\ x = <<x[1], x[2]>> /\ x[2] \in Int /\ a(x[1]) \in Nat
          /\ y = <<y[1], y[2]>> /\ y[2] \in Int
      BY <1>8
    <3>4. x[2] = y[2]
      BY <3>2, <3>3
    <3> QED BY <3>2, <3>3, <3>4
  <2> HIDE DEF g
  <2> QED BY <2>1, <2>2 DEF Injection, IsInjective
<1>10. /\ IsFiniteSet(Copies(A)) /\ IsFiniteSet(Copies(B)) /\ IsFiniteSet(Copies(C))
       /\ Cardinality(Copies(A)) \in Nat /\ Cardinality(Copies(B)) \in Nat
  BY <1>1, <1>7, CopiesFinite
<1> HIDE DEF g
<1>11. IsFiniteSet(rest) /\ Cardinality(rest) <= Cardinality(Copies(B)) /\ Cardinality(rest) \in Nat
  <2>1. IsFiniteSet(rest) /\ Cardinality(rest) <= Cardinality(Copies(B))
    BY <1>9, <1>10, FS_Injection
  <2> QED BY <2>1, FS_CardinalityType
<1> HIDE DEF rest
<1>12. Cardinality(Copies(A) \cup rest) <= Cardinality(Copies(A)) + Cardinality(rest)
       /\ IsFiniteSet(Copies(A) \cup rest) /\ Cardinality(Copies(A) \cup rest) \in Nat
  <2>1. /\ IsFiniteSet(Copies(A) \cup rest)
        /\ Cardinality(Copies(A) \cup rest) =
             Cardinality(Copies(A)) + Cardinality(rest) - Cardinality(Copies(A) \cap rest)
    BY <1>10, <1>11, FS_Union
  <2>2. Copies(A) \cap rest \in SUBSET rest
    OBVIOUS
  <2>3. Cardinality(Copies(A) \cap rest) \in Nat
    BY <1>11, <2>2, FS_Subset, FS_CardinalityType
  <2> DEFINE i == Cardinality(Copies(A) \cap rest)
             m == Cardinality(Copies(A))
             n == Cardinality(rest)
             u == Cardinality(Copies(A) \cup rest)
  <2>4. u = m + n - i /\ i \in Nat /\ m \in Nat /\ n \in Nat
    BY <1>10, <1>11, <2>1, <2>3
  <2>5. u \in Nat
    BY <2>1, FS_CardinalityType
  <2> HIDE DEF i, m, n, u
  <2>6. u <= m + n
    BY <2>4
  <2> QED BY <2>1, <2>5, <2>6 DEF m, n, u
<1>13. Copies(C) \in SUBSET (Copies(A) \cup rest)
  BY DEF rest
<1>14. Cardinality(Copies(C)) <= Cardinality(Copies(A) \cup rest) /\ Cardinality(Copies(C)) \in Nat
  BY <1>12, <1>13, FS_Subset, FS_CardinalityType
<1>15. Size(C) <= Size(A) + Size(B)
  BY <1>10, <1>11, <1>12, <1>14 DEF Size
<1> QED BY <1>2, <1>7, <1>15, BagsOverIs DEF C

\* One element more.
LEMMA OneMore ==
  ASSUME NEW S, IsFiniteSet(S), NEW A \in BagsOver(S), NEW e \in S
  PROVE  /\ A (+) SetToBag({e}) \in BagsOver(S)
         /\ Size(A (+) SetToBag({e})) <= Size(A) + 1
         /\ DOMAIN (A (+) SetToBag({e})) = DOMAIN A \cup {e}
<1> DEFINE B == SetToBag({e})
<1>1. B \in BagsOver(S) /\ DOMAIN B = {e} /\ B[e] = 1
  BY SetToBagFacts DEF SetToBag
<1> HIDE DEF B
<1>2. Copies(B) = {<<e, 1>>}
  <2>1. ASSUME NEW x PROVE x \in Copies(B) <=> x = <<e, 1>>
    BY <1>1, CopyOf
  <2> QED BY <2>1
<1>3. Size(B) = 1
  BY <1>2, FS_Singleton DEF Size
<1>4. /\ A (+) B \in BagsOver(S)
      /\ Size(A (+) B) <= Size(A) + Size(B)
      /\ DOMAIN (A (+) B) = DOMAIN A \cup DOMAIN B
  BY <1>1, SumFacts
<1> QED BY <1>1, <1>3, <1>4 DEF B

\* A bag that is made by changing the elements of another: pairs has what each
\* copy in B becomes.
LEMMA ChangedFacts ==
  ASSUME NEW S, IsFiniteSet(S), NEW B \in BagsOver(S), NEW T, NEW pairs,
         \A x \in pairs : x[1] \in T /\ x[2] \in Copies(B),
         \A x, y \in pairs : x[2] = y[2] => x = y
  PROVE  /\ Tally(pairs) \in BagsOver(T)
         /\ Size(Tally(pairs)) <= Size(B)
<1> DEFINE g == [x \in pairs |-> x[2]]
<1>1. IsFiniteSet(Copies(B)) /\ Cardinality(Copies(B)) \in Nat
  BY CopiesFinite, BagsOverIs
<1>2. g \in Injection(pairs, Copies(B))
  BY DEF Injection, IsInjective
<1> HIDE DEF g
<1>3. IsFiniteSet(pairs) /\ Cardinality(pairs) <= Cardinality(Copies(B)) /\ Cardinality(pairs) \in Nat
  BY <1>1, <1>2, FS_Injection, FS_CardinalityType
<1> DEFINE A == Tally(pairs)
<1>4. BagOver(A, T) /\ Cardinality(Copies(A)) <= Cardinality(pairs)
      /\ Cardinality(Copies(A)) \in Nat
  BY <1>3, TallyFacts
<1> HIDE DEF A
<1>5. Size(A) <= Size(B)
  BY <1>1, <1>3, <1>4 DEF Size
<1>6. A \in BagsOver(T)
  BY <1>4, BagsOverIs
<1> QED BY <1>5, <1>6 DEF A
-----------------------------------------------------------------------------
(* Requests *)

\* Tuples that name a block of the torrent, with any size that a request for
\* it may carry.
Infos == UNION {{<<p, get_block_offset(b), size>> : b \in BlocksOf(p), size \in 0 .. BLOCK_SIZE} :
                p \in PieceIds}

\* The entries of pending_requests_.
Entries == Infos \X (0 .. Expired)

LEMMA InfoIs ==
  ASSUME NEW r \in Infos
  PROVE  \E p \in PieceIds : \E b \in BlocksOf(p) : r[1] = p /\ r[2] = get_block_offset(b)
<1>1. PICK p \in PieceIds :
        r \in {<<p, get_block_offset(b), size>> : b \in BlocksOf(p), size \in 0 .. BLOCK_SIZE}
  BY DEF Infos
<1> QED BY <1>1

LEMMA InfosFinite ==
  /\ IsFiniteSet(Infos) /\ IsFiniteSet(Entries)
<1> DEFINE f == [p \in PieceIds |-> BlocksOf(p)]
           cells == UNION {{p} \X f[p] : p \in PieceIds}
           g == [x \in cells \X (0 .. BLOCK_SIZE) |-> <<x[1][1], get_block_offset(x[1][2]), x[2]>>]
<1>1. ASSUME NEW p \in PieceIds PROVE IsFiniteSet(f[p])
  <2>1. cur_piece_size(p) \in Nat \ {0}
    BY Sizes
  <2>2. ceil_div(cur_piece_size(p), BLOCK_SIZE) - 1 \in Int
    BY <2>1, CeilDivPositive, BlockSizeAssumption
  <2>3. IsFiniteSet(0 .. ceil_div(cur_piece_size(p), BLOCK_SIZE) - 1)
    BY <2>2, FS_Interval
  <2>4. f[p] = 0 .. ceil_div(cur_piece_size(p), BLOCK_SIZE) - 1
    BY DEF BlocksOf, BlockRange
  <2> HIDE DEF f
  <2> QED BY <2>3, <2>4
<1>2. \A p \in PieceIds : f[p] = BlocksOf(p)
  OBVIOUS
<1> HIDE DEF f
<1>3. IsFiniteSet(cells)
  BY <1>1, PieceIdsFinite, LabelledFinite
<1>4. IsFiniteSet(0 .. BLOCK_SIZE)
  BY FS_Interval, BlockSizeAssumption
<1>5. IsFiniteSet(cells \X (0 .. BLOCK_SIZE))
  BY <1>3, <1>4, FS_Product
<1>6. g \in Surjection(cells \X (0 .. BLOCK_SIZE), Infos)
  <2>1. ASSUME NEW x \in cells \X (0 .. BLOCK_SIZE)
        PROVE  g[x] \in Infos
    <3>1. PICK p \in PieceIds : x[1] \in {p} \X f[p]
      OBVIOUS
    <3>2. x[1][1] = p /\ x[1][2] \in BlocksOf(p) /\ x[2] \in 0 .. BLOCK_SIZE
      BY <1>2, <3>1
    <3>3. g[x] = <<p, get_block_offset(x[1][2]), x[2]>>
      BY <3>2
    <3> HIDE DEF g, cells
    <3> QED BY <3>2, <3>3 DEF Infos
  <2>2. ASSUME NEW r \in Infos
        PROVE  \E x \in cells \X (0 .. BLOCK_SIZE) : g[x] = r
    <3>1. PICK p \in PieceIds : \E b \in BlocksOf(p), size \in 0 .. BLOCK_SIZE :
                                  r = <<p, get_block_offset(b), size>>
      BY DEF Infos
    <3>2. PICK b \in BlocksOf(p), size \in 0 .. BLOCK_SIZE : r = <<p, get_block_offset(b), size>>
      BY <3>1
    <3>3. <<p, b>> \in cells
      BY <1>2
    <3> DEFINE x == <<<<p, b>>, size>>
    <3>4. x \in cells \X (0 .. BLOCK_SIZE) /\ g[x] = r
      BY <3>2, <3>3
    <3> QED BY <3>4
  <2>3. g \in [cells \X (0 .. BLOCK_SIZE) -> Infos]
    BY <2>1
  <2> HIDE DEF g, cells
  <2> QED BY <2>2, <2>3 DEF Surjection
<1> HIDE DEF g, cells
<1>7. IsFiniteSet(Infos)
  BY <1>5, <1>6, FS_Surjection
<1>8. IsFiniteSet(0 .. Expired)
  BY FS_Interval, TimeoutAssumption DEF Expired
<1> QED BY <1>7, <1>8, FS_Product DEF Entries

\* What request_next_block returns names a block.
LEMMA RequestsAreInfos == Requests \subseteq Infos
<1> SUFFICES ASSUME NEW p \in PieceIds, NEW b \in BlocksOf(p)
             PROVE  BlockInfo(p, NewPiece(cur_piece_size(p)), b) \in Infos
  BY DEF Requests
<1> DEFINE pc == NewPiece(cur_piece_size(p))
<1>1. pc.piece_size_ \in Nat \ {0}
  BY Sizes DEF NewPiece
<1> HIDE DEF pc
<1>2. block_size(pc, b) \in 0 .. BLOCK_SIZE
  BY <1>1, BlockSizeAssumption DEF block_size
<1> QED BY <1>2 DEF BlockInfo, Infos, pc

\* What the endgame lists when it starts names blocks too.
LEMMA RemainingAreInfos ==
  ASSUME PmInv
  PROVE  RemainingBlocks \subseteq Infos
<1> SUFFICES ASSUME NEW p \in requested_ids, NEW b \in get_remaining_blocks(requested_pieces_[p])
             PROVE  <<p, get_block_offset(b), BLOCK_SIZE>> \in Infos
  BY DEF RemainingBlocks
<1>1. p \in PieceIds /\ requested_pieces_[p] \in PieceOfSize(cur_piece_size(p), Payload)
  BY PmFacts
<1> DEFINE pc == requested_pieces_[p]
           n  == ceil_div(cur_piece_size(p), BLOCK_SIZE)
<1>2. n \in Nat \ {0} /\ BlocksOf(p) = 0 .. n - 1
  BY <1>1, Sizes, CeilDivPositive, BlockSizeAssumption DEF BlocksOf, BlockRange
<1>3. pc.blocks_left_ \in 0 .. n /\ pc.remaining_blocks_ \in [0 .. n - 1 -> 0 .. n - 1]
  <2>1. pc \in PieceOfSize(cur_piece_size(p), Payload)
    BY <1>1
  <2> HIDE DEF pc
  <2>2. pc.blocks_left_ \in 0 .. n
    BY <2>1 DEF PieceOfSize
  <2>3. pc.remaining_blocks_ \in [BlockRange(cur_piece_size(p)) -> BlockRange(cur_piece_size(p))]
    BY <2>1 DEF PieceOfSize
  <2> QED BY <2>2, <2>3 DEF BlockRange
<1>4. PICK i \in 0 .. pc.blocks_left_ - 1 : b = pc.remaining_blocks_[i]
  BY DEF get_remaining_blocks
<1> HIDE DEF pc, n
<1>5. b \in BlocksOf(p)
  <2>1. pc.blocks_left_ \in Int /\ pc.blocks_left_ <= n /\ n \in Int
    BY <1>2, <1>3
  <2>2. i \in 0 .. n - 1
    BY <2>1, <1>4
  <2>3. pc.remaining_blocks_[i] \in 0 .. n - 1
    BY <2>2, <1>3
  <2> QED BY <1>2, <1>4, <2>3
<1>6. BLOCK_SIZE \in 0 .. BLOCK_SIZE
  BY BlockSizeAssumption
<1> QED BY <1>1, <1>5, <1>6 DEF Infos
-----------------------------------------------------------------------------
(* The inductive invariant *)

ConnRecords ==
  [state_                    : PeerStates,
   retries_left_             : 0 .. MAX_RETRIES,
   peer_choking_             : BOOLEAN,
   was_connected_            : BOOLEAN,
   bitfield_received_        : BOOLEAN,
   bitfield_                 : SUBSET PieceIds,
   pending_requests_         : BagsOver(Entries),
   endgame_remaining_blocks_ : BagsOver(Infos),
   outbox                    : BagsOver(Infos),
   quota                     : 0 .. MAX_BLOCKS_PER_REQUEST,
   is_reconnecting           : BOOLEAN,
   sender                    : SenderAt,
   receiver                  : ReceiverAt]

\* The places of a connection that run has not reached.
Early == {"idle", "connecting", "connected", "interested"}

\* What is in flight and what load_block_requests may still ask for fit into
\* the array together; a connection that is being made has no bitfield.
GoodConns ==
  {k \in ConnRecords :
     /\ Size(k.pending_requests_) + k.quota <= MAX_BLOCKS_IN_FLIGHT
     /\ k.receiver # "idle" => k.sender \notin Early
     /\ k.quota > 0 => k.sender = "loading"
     /\ k.sender \in Early \ {"idle"} => ~ k.bitfield_received_}

\* The inductive invariant.
SwarmInv ==
  /\ PmInv
  /\ endgame_requests_ \subseteq Infos
  /\ conn \in [Peers -> GoodConns]
  /\ wire \in [Peers -> BagsOver(Infos)]
  /\ AvailabilityCovered

\* Run of this connection will take piece p back.
Owns(k, p) ==
  /\ k.receiver # "idle"
  /\ k.bitfield_received_
  /\ p \in k.bitfield_

\* A new connection is as it should be.
LEMMA NewConnectionGood ==
  NewConnection \in GoodConns /\ \A p : ~ Owns(NewConnection, p)
<1>1. /\ EmptyBag \in BagsOver(Entries) /\ EmptyBag \in BagsOver(Infos)
      /\ Size(EmptyBag) = 0
  BY EmptyBagFacts
<1>2. NewConnection \in ConnRecords
  BY <1>1, LimitsAssumption
     DEF NewConnection, ConnRecords, PeerStates, SenderAt, ReceiverAt
<1>3. /\ NewConnection.pending_requests_ = EmptyBag /\ NewConnection.quota = 0
      /\ NewConnection.receiver = "idle" /\ NewConnection.sender = "idle"
  BY DEF NewConnection
<1> QED BY <1>1, <1>2, <1>3, LimitsAssumption DEF GoodConns, Owns, Early

\* The owners of a piece are among the peers.
LEMMA OwnersFinite ==
  ASSUME NEW p
  PROVE  /\ IsFiniteSet(Owners(p)) /\ Cardinality(Owners(p)) \in Nat
         /\ Owners(p) = {c \in Peers : Owns(conn[c], p)}
<1>1. Owners(p) \in SUBSET Peers
  BY DEF Owners
<1>2. IsFiniteSet(Owners(p))
  BY <1>1, PeersAssumption, FS_Subset
<1> QED BY <1>2, FS_CardinalityType DEF Owners, Owns

\* The constructors establish the invariant.
LEMMA SwarmInvInit == Init => SwarmInv
<1> SUFFICES ASSUME Init PROVE SwarmInv
  OBVIOUS
<1>1. PmInv /\ endgame_requests_ \subseteq Infos
  BY PmInvInit DEF Init, PmInit
<1>2. conn \in [Peers -> GoodConns] /\ \A c \in Peers : conn[c] = NewConnection
  BY NewConnectionGood DEF Init
<1>3. wire \in [Peers -> BagsOver(Infos)]
  BY EmptyBagFacts DEF Init
<1>4. AvailabilityCovered
  <2>1. ASSUME NEW p \in PieceIds
        PROVE  Cardinality(Owners(p)) <= piece_avail_[p]
    <3>1. Owners(p) = {}
      BY <1>2, NewConnectionGood, OwnersFinite
    <3>2. piece_avail_[p] = 0
      BY DEF Init, PmInit
    <3> QED BY <3>1, <3>2, FS_EmptySet
  <2> QED BY <2>1 DEF AvailabilityCovered
<1> QED BY <1>1, <1>2, <1>3, <1>4 DEF SwarmInv

\* What every step of the download keeps.
Kept == SwarmInv' /\ [CallsNext]_pmVars

\* The blocks noted for the endgame name blocks of the torrent.
LEMMA EndgameStep ==
  ASSUME PmInv, endgame_requests_ \subseteq Infos, [CallsNext]_pmVars
  PROVE  endgame_requests_' \subseteq Infos
<1>1. ASSUME NEW bitfield, Request(bitfield)
      PROVE  endgame_requests_' \subseteq Infos
  <2>1. PICK result : RequestNextBlock(bitfield, result)
    BY <1>1 DEF Request
  <2>2. endgame_requests_' \in {endgame_requests_, RemainingBlocks}
    BY <2>1 DEF RequestNextBlock, ReturnBlock, ReturnNothing, endgameVars, pmVars
  <2> QED BY <2>2, RemainingAreInfos
<1>2. ASSUME ~ \E bitfield \in SUBSET PieceIds : Request(bitfield)
      PROVE  endgame_requests_' = endgame_requests_
  BY <1>2 DEF CallsNext, Add, AddPeerBitfield, Remove, RemovePeerBitfield,
              UpdatePiecesAvailability, Have, AddAvailablePiece, Receive,
              PmReceiveBlock, PmTick, endgameVars, pmVars
<1> QED BY <1>1, <1>2

\* A step in which one connection becomes k: a piece it comes to own has been
\* added, and one that is taken back was owned.
LEMMA CallStep ==
  ASSUME SwarmInv, NEW c \in Peers, NEW k \in GoodConns, [CallsNext]_pmVars,
         Becomes(c, k), wire' \in [Peers -> BagsOver(Infos)],
         \A p \in PieceIds :
           \/ /\ piece_avail_'[p] = piece_avail_[p]
              /\ Owns(k, p) => Owns(conn[c], p)
           \/ piece_avail_'[p] = piece_avail_[p] + 1
           \/ /\ piece_avail_'[p] = piece_avail_[p] - 1
              /\ Owns(conn[c], p) /\ ~ Owns(k, p)
  PROVE  Kept
<1>1. PmInv' /\ endgame_requests_' \subseteq Infos
  BY PmInvStep, EndgameStep DEF SwarmInv
<1>2. conn' \in [Peers -> GoodConns]
      /\ \A d \in Peers : conn'[d] = IF d = c THEN k ELSE conn[d]
  BY DEF SwarmInv, Becomes
<1>3. AvailabilityCovered'
  <2>1. ASSUME NEW p \in PieceIds
        PROVE  Cardinality(Owners(p)') <= piece_avail_'[p]
    <3> DEFINE old == Owners(p)
               new == Owners(p)'
    <3>1. new = {d \in Peers : Owns(conn'[d], p)}
      BY DEF Owners, Owns
    <3>2. \A d \in Peers : d # c => (d \in new <=> d \in old)
      BY <1>2, <3>1, OwnersFinite
    <3>3. (c \in new <=> Owns(k, p)) /\ (c \in old <=> Owns(conn[c], p))
      BY <1>2, <3>1, OwnersFinite
    <3>4. old \subseteq Peers /\ new \subseteq Peers
      BY <3>1, OwnersFinite
    <3>5. IsFiniteSet(old) /\ Cardinality(old) \in Nat
      BY OwnersFinite
    <3>6. Cardinality(old) <= piece_avail_[p] /\ piece_avail_[p] \in Nat
      BY SizesAssumption DEF SwarmInv, AvailabilityCovered, PmInv, PmTypeOK
    <3> HIDE DEF old, new
    <3>7. CASE new \subseteq old /\ piece_avail_'[p] >= piece_avail_[p] /\ piece_avail_'[p] \in Int
      <4>1. Cardinality(new) <= Cardinality(old) /\ Cardinality(new) \in Nat
        <5>1. new \in SUBSET old
          BY <3>7
        <5> QED BY <3>5, <5>1, FS_Subset, FS_CardinalityType
      <4> QED BY <3>5, <3>6, <3>7, <4>1 DEF new
    <3>8. CASE piece_avail_'[p] = piece_avail_[p] + 1
      <4>1. new \in SUBSET (old \cup {c})
        BY <3>2, <3>4
      <4>2. IsFiniteSet(old \cup {c}) /\ Cardinality(old \cup {c}) <= Cardinality(old) + 1
            /\ Cardinality(old \cup {c}) \in Nat
        <5>1. /\ IsFiniteSet(old \cup {c})
              /\ Cardinality(old \cup {c}) \in {Cardinality(old), Cardinality(old) + 1}
          BY <3>5, FS_AddElement
        <5> QED BY <3>5, <5>1
      <4>3. Cardinality(new) <= Cardinality(old \cup {c}) /\ Cardinality(new) \in Nat
        BY <4>1, <4>2, FS_Subset, FS_CardinalityType
      <4> QED BY <3>5, <3>6, <3>8, <4>2, <4>3 DEF new
    <3>9. CASE /\ piece_avail_'[p] = piece_avail_[p] - 1
               /\ Owns(conn[c], p) /\ ~ Owns(k, p)
      <4>1. new = old \ {c} /\ c \in old
        BY <3>2, <3>3, <3>4, <3>9
      <4>2. Cardinality(old \ {c}) = Cardinality(old) - 1
        BY <3>5, <4>1, FS_RemoveElement
      <4> QED BY <3>5, <3>6, <3>9, <4>1, <4>2 DEF new
    <3>10. \/ /\ piece_avail_'[p] = piece_avail_[p]
              /\ Owns(k, p) => Owns(conn[c], p)
           \/ piece_avail_'[p] = piece_avail_[p] + 1
           \/ /\ piece_avail_'[p] = piece_avail_[p] - 1
              /\ Owns(conn[c], p) /\ ~ Owns(k, p)
      OBVIOUS
    <3>11. CASE /\ piece_avail_'[p] = piece_avail_[p]
                /\ Owns(k, p) => Owns(conn[c], p)
      <4>1. new \subseteq old
        BY <3>2, <3>3, <3>4, <3>11
      <4> QED BY <3>6, <3>7, <3>11, <4>1
    <3> QED BY <3>8, <3>9, <3>10, <3>11
  <2> QED BY <2>1 DEF AvailabilityCovered
<1> QED BY <1>1, <1>2, <1>3 DEF SwarmInv, Kept

\* A step that leaves PieceManager alone, and after which the connection owns
\* nothing that it did not own before.
LEMMA QuietStep ==
  ASSUME SwarmInv, NEW c \in Peers, NEW k \in GoodConns, UNCHANGED pmVars,
         Becomes(c, k), wire' \in [Peers -> BagsOver(Infos)],
         \A p \in PieceIds : Owns(k, p) => Owns(conn[c], p)
  PROVE  Kept
<1>1. piece_avail_' = piece_avail_ /\ [CallsNext]_pmVars
  BY DEF pmVars
<1> QED BY <1>1, CallStep
-----------------------------------------------------------------------------
(* What the steps make of a connection *)

\* The fields of a connection.
LEMMA ConnFields ==
  ASSUME NEW k \in GoodConns
  PROVE  /\ k \in ConnRecords
         /\ k.pending_requests_ \in BagsOver(Entries)
         /\ k.endgame_remaining_blocks_ \in BagsOver(Infos)
         /\ k.outbox \in BagsOver(Infos)
         /\ k.quota \in 0 .. MAX_BLOCKS_PER_REQUEST
         /\ k.bitfield_ \in SUBSET PieceIds
         /\ k.sender \in SenderAt /\ k.receiver \in ReceiverAt
         /\ in_flight(k) = Size(k.pending_requests_)
         /\ in_flight(k) \in Nat
         /\ in_flight(k) + k.quota <= MAX_BLOCKS_IN_FLIGHT
         /\ k.receiver # "idle" => k.sender \notin Early
         /\ k.quota > 0 => k.sender = "loading"
         /\ k.sender \in Early \ {"idle"} => ~ k.bitfield_received_
<1>1. k \in ConnRecords
  BY DEF GoodConns
<1>2. k.pending_requests_ \in BagsOver(Entries)
  BY <1>1 DEF ConnRecords
<1>3. Size(k.pending_requests_) \in Nat
  BY <1>2, SizeIsNat, InfosFinite
<1> QED BY <1>1, <1>3 DEF GoodConns, ConnRecords, in_flight, Size

\* The sender goes on to another place after run has started.
LEMMA Moved ==
  ASSUME NEW k \in GoodConns, k.quota = 0, NEW at \in SenderAt \ Early
  PROVE  /\ [k EXCEPT !.sender = at] \in GoodConns
         /\ \A p : Owns([k EXCEPT !.sender = at], p) <=> Owns(k, p)
<1> DEFINE m == [k EXCEPT !.sender = at]
<1>1. m \in ConnRecords
  BY ConnFields DEF ConnRecords
<1>2. /\ m.sender = at
      /\ m.pending_requests_ = k.pending_requests_ /\ m.quota = k.quota
      /\ m.receiver = k.receiver /\ m.bitfield_received_ = k.bitfield_received_
      /\ m.bitfield_ = k.bitfield_
  BY ConnFields DEF ConnRecords
<1> HIDE DEF m
<1>3. m \in GoodConns
  BY <1>1, <1>2 DEF GoodConns
<1>4. \A p : Owns(m, p) <=> Owns(k, p)
  BY <1>2 DEF Owns
<1> QED BY <1>3, <1>4 DEF m

\* The heads of the loops, and a co_await.
LEMMA HeadsGood ==
  ASSUME NEW k \in GoodConns, k.quota = 0
  PROVE  /\ LoopHead(k) \in GoodConns
         /\ EndgameHead(k) \in GoodConns
         /\ \A at \in SenderAt \ Early : Await(k, at) \in GoodConns
         /\ \A p : /\ Owns(LoopHead(k), p) <=> Owns(k, p)
                   /\ Owns(EndgameHead(k), p) <=> Owns(k, p)
                   /\ \A at \in SenderAt \ Early : Owns(Await(k, at), p) <=> Owns(k, p)
<1>1. {"wait", "endgame_wait", "done"} \subseteq SenderAt \ Early
  BY DEF SenderAt, Early
<1>2. /\ Continue(k.receiver, "wait") \in SenderAt \ Early
      /\ Continue(k.receiver, "endgame_wait") \in SenderAt \ Early
  BY <1>1 DEF Continue
<1>3. \A at \in SenderAt \ Early :
        (IF k.receiver = "done" THEN "done" ELSE at) \in SenderAt \ Early
  BY <1>1
<1> QED BY <1>2, <1>3, Moved DEF LoopHead, EndgameHead, Await
-----------------------------------------------------------------------------
(* connect, and the start of run *)

\* While no connection loads requests, none has calls left to make.
LEMMA FreeFacts ==
  ASSUME SwarmInv, NEW c \in Peers, ThreadFree
  PROVE  /\ conn[c] \in GoodConns /\ conn[c].quota = 0
         /\ conn[c].sender # "loading"
         /\ wire \in [Peers -> BagsOver(Infos)]
<1>1. conn[c] \in GoodConns /\ conn[c].sender # "loading"
  BY DEF SwarmInv, ThreadFree
<1>2. conn[c].quota = 0
  BY <1>1, ConnFields, LimitsAssumption
<1> QED BY <1>1, <1>2 DEF SwarmInv

\* A connection that run has not reached, before a step and after it.
LEMMA StillEarly ==
  ASSUME NEW k \in GoodConns, k.sender \in Early, NEW m \in ConnRecords,
         m.pending_requests_ \in {k.pending_requests_, EmptyBag},
         m.quota = k.quota, m.receiver = k.receiver, m.sender \in Early,
         m.sender # "idle" => ~ m.bitfield_received_
  PROVE  m \in GoodConns /\ \A p : ~ Owns(m, p)
<1>1. k.receiver = "idle" /\ k.quota = 0
  BY ConnFields, LimitsAssumption DEF Early
<1>2. Size(m.pending_requests_) <= MAX_BLOCKS_IN_FLIGHT /\ Size(m.pending_requests_) \in Nat
  BY <1>1, ConnFields, EmptyBagFacts, LimitsAssumption
<1> QED BY <1>1, <1>2 DEF GoodConns, Owns

LEMMA ConnectKept ==
  ASSUME SwarmInv, NEW c \in Peers, Connect(c)
  PROVE  Kept
<1> DEFINE k == conn[c]
           m == [reset_state(k) EXCEPT !.retries_left_ = @ - 1,
                                       !.state_ = "CONNECTING",
                                       !.sender = "connecting"]
<1>1. /\ k \in GoodConns /\ k.sender = "idle" /\ k.retries_left_ > 0
      /\ Becomes(c, m) /\ UNCHANGED <<pmVars, wire>>
      /\ wire \in [Peers -> BagsOver(Infos)]
  BY FreeFacts DEF Connect
<1>2. EmptyBag \in BagsOver(Entries)
  BY EmptyBagFacts
<1> HIDE DEF k
<1>3. k \in ConnRecords
  BY <1>1, ConnFields
<1>4. m \in ConnRecords
  <2>1. reset_state(k) \in ConnRecords /\ reset_state(k).retries_left_ = k.retries_left_
    BY <1>2, <1>3 DEF ConnRecords, reset_state, PeerStates
  <2>2. reset_state(k).retries_left_ - 1 \in 0 .. MAX_RETRIES
    BY <1>1, <1>3, <2>1, LimitsAssumption DEF ConnRecords
  <2> QED BY <2>1, <2>2 DEF ConnRecords, PeerStates, SenderAt
<1>5. /\ m.pending_requests_ = EmptyBag /\ m.quota = k.quota
      /\ m.receiver = k.receiver /\ m.sender = "connecting"
      /\ ~ m.bitfield_received_
  BY <1>3 DEF ConnRecords, reset_state
<1> HIDE DEF m
<1>6. m \in GoodConns /\ \A p : ~ Owns(m, p)
  BY <1>1, <1>4, <1>5, StillEarly DEF Early
<1> QED BY <1>1, <1>6, QuietStep

\* A connection that run has not reached goes to another such place.
LEMMA EarlyStep ==
  ASSUME SwarmInv, NEW c \in Peers, ThreadFree, conn[c].sender \in Early,
         NEW state \in PeerStates, NEW retries \in 0 .. MAX_RETRIES,
         NEW reached \in BOOLEAN, NEW again \in BOOLEAN,
         NEW at \in Early, at # "idle" => conn[c].sender # "idle",
         Becomes(c, [conn[c] EXCEPT !.state_ = state, !.retries_left_ = retries,
                                    !.was_connected_ = reached,
                                    !.is_reconnecting = again,
                                    !.sender = at]),
         UNCHANGED <<pmVars, wire>>
  PROVE  Kept
<1> DEFINE k == conn[c]
           m == [k EXCEPT !.state_ = state, !.retries_left_ = retries,
                          !.was_connected_ = reached, !.is_reconnecting = again,
                          !.sender = at]
<1>1. /\ k \in GoodConns /\ k.sender \in Early
      /\ wire \in [Peers -> BagsOver(Infos)]
      /\ Becomes(c, m) /\ (at # "idle" => k.sender # "idle")
  BY FreeFacts
<1>2. k \in ConnRecords /\ (at # "idle" => ~ k.bitfield_received_)
  BY <1>1, ConnFields
<1> HIDE DEF k
<1>3. m \in ConnRecords
  BY <1>2 DEF ConnRecords, SenderAt, Early
<1>4. /\ m.pending_requests_ = k.pending_requests_ /\ m.quota = k.quota
      /\ m.receiver = k.receiver /\ m.sender = at
      /\ m.bitfield_received_ = k.bitfield_received_
  BY <1>2 DEF ConnRecords
<1> HIDE DEF m
<1>5. m \in GoodConns /\ \A p : ~ Owns(m, p)
  BY <1>1, <1>2, <1>3, <1>4, StillEarly
<1> QED BY <1>1, <1>5, QuietStep

\* The steps that make a connection, give it up, or fail to make it.
LEMMA EarlyKept ==
  ASSUME SwarmInv, NEW c \in Peers, NEW ec,
         \/ ConnectFails(c, ec) \/ ConnectSucceeds(c) \/ StartReconnection(c)
         \/ GiveUp(c) \/ RunStarts(c) \/ InterestedFails(c, ec)
  PROVE  Kept
<1> DEFINE k == conn[c]
           m(state, retries, reached, again, at) ==
             [k EXCEPT !.state_ = state, !.retries_left_ = retries,
                       !.was_connected_ = reached, !.is_reconnecting = again,
                       !.sender = at]
<1>1. ThreadFree /\ UNCHANGED <<pmVars, wire>>
  BY DEF ConnectFails, ConnectSucceeds, StartReconnection, GiveUp, RunStarts,
         InterestedFails
<1>2. /\ k \in ConnRecords /\ k.retries_left_ \in 0 .. MAX_RETRIES
      /\ k.was_connected_ \in BOOLEAN /\ k.is_reconnecting \in BOOLEAN
      /\ k.state_ \in PeerStates
  BY <1>1, FreeFacts, ConnFields DEF ConnRecords
<1>3. k.sender \in Early
  BY DEF ConnectFails, ConnectSucceeds, StartReconnection, GiveUp, RunStarts,
         InterestedFails, Early
<1>4. \A state \in PeerStates, retries \in 0 .. MAX_RETRIES,
          reached \in BOOLEAN, again \in BOOLEAN, at \in Early :
        (at # "idle" => k.sender # "idle") /\ Becomes(c, m(state, retries, reached, again, at))
          => Kept
  BY <1>1, <1>3, EarlyStep
<1>5. {"idle", "connected", "interested"} \subseteq Early
      /\ {"CONNECTED", "TIMED_OUT", "DISCONNECTED"} \subseteq PeerStates
      /\ MAX_RETRIES \in 0 .. MAX_RETRIES
  BY LimitsAssumption DEF Early, PeerStates
<1> DEFINE failed == IF ec = "timed_out" THEN "TIMED_OUT" ELSE "DISCONNECTED"
<1>6. CASE ConnectFails(c, ec) \/ InterestedFails(c, ec)
  <2>1. Becomes(c, [handle_failure(k, ec) EXCEPT !.sender = "idle"])
    BY <1>6 DEF ConnectFails, InterestedFails
  <2>2. [handle_failure(k, ec) EXCEPT !.sender = "idle"]
          = m(failed, k.retries_left_, k.was_connected_, k.is_reconnecting, "idle")
    BY <1>2 DEF handle_failure, ConnRecords
  <2>3. failed \in PeerStates
    BY <1>5
  <2> HIDE DEF k, m, failed
  <2> QED BY <1>2, <1>4, <1>5, <2>1, <2>2, <2>3
<1>7. CASE ConnectSucceeds(c)
  <2>1. k.sender = "connecting"
        /\ Becomes(c, [k EXCEPT !.state_ = "CONNECTED", !.retries_left_ = MAX_RETRIES,
                                !.was_connected_ = TRUE, !.sender = "connected"])
    BY <1>7 DEF ConnectSucceeds
  <2>2. [k EXCEPT !.state_ = "CONNECTED", !.retries_left_ = MAX_RETRIES,
                  !.was_connected_ = TRUE, !.sender = "connected"]
          = m("CONNECTED", MAX_RETRIES, TRUE, k.is_reconnecting, "connected")
    BY <1>2 DEF ConnRecords
  <2>3. "connected" # "idle" => k.sender # "idle"
    BY <2>1
  <2>4. Becomes(c, m("CONNECTED", MAX_RETRIES, TRUE, k.is_reconnecting, "connected"))
    BY <2>1, <2>2
  <2>5. TRUE \in BOOLEAN /\ FALSE \in BOOLEAN
    OBVIOUS
  <2> HIDE DEF k, m
  <2> QED BY <1>2, <1>4, <1>5, <2>3, <2>4, <2>5, Zenon
<1>8. CASE StartReconnection(c)
  <2>1. k.sender = "idle" /\ Becomes(c, [k EXCEPT !.is_reconnecting = TRUE])
    BY <1>8 DEF StartReconnection
  <2>2. [k EXCEPT !.is_reconnecting = TRUE]
          = m(k.state_, k.retries_left_, k.was_connected_, TRUE, "idle")
    BY <1>2, <2>1 DEF ConnRecords
  <2>3. "idle" # "idle" => k.sender # "idle"
    BY <2>1
  <2>4. Becomes(c, m(k.state_, k.retries_left_, k.was_connected_, TRUE, "idle"))
    BY <2>1, <2>2
  <2>5. TRUE \in BOOLEAN /\ FALSE \in BOOLEAN
    OBVIOUS
  <2> HIDE DEF k, m
  <2> QED BY <1>2, <1>4, <1>5, <2>3, <2>4, <2>5, Zenon
<1>9. CASE GiveUp(c)
  <2>1. Becomes(c, [disconnect(k) EXCEPT !.is_reconnecting = FALSE, !.sender = "idle"])
    BY <1>9 DEF GiveUp
  <2>2. [disconnect(k) EXCEPT !.is_reconnecting = FALSE, !.sender = "idle"]
          = m("DISCONNECTED", k.retries_left_, k.was_connected_, FALSE, "idle")
    BY <1>2 DEF ConnRecords, disconnect
  <2>3. "idle" # "idle" => k.sender # "idle"
    BY <2>1
  <2>4. Becomes(c, m("DISCONNECTED", k.retries_left_, k.was_connected_, FALSE, "idle"))
    BY <2>1, <2>2
  <2>5. TRUE \in BOOLEAN /\ FALSE \in BOOLEAN
    OBVIOUS
  <2> HIDE DEF k, m
  <2> QED BY <1>2, <1>4, <1>5, <2>3, <2>4, <2>5, Zenon
<1>10. CASE RunStarts(c)
  <2>1. k.sender = "connected"
        /\ Becomes(c, [k EXCEPT !.sender = "interested", !.is_reconnecting = FALSE])
    BY <1>10 DEF RunStarts
  <2>2. [k EXCEPT !.sender = "interested", !.is_reconnecting = FALSE]
          = m(k.state_, k.retries_left_, k.was_connected_, FALSE, "interested")
    BY <1>2 DEF ConnRecords
  <2>3. "interested" # "idle" => k.sender # "idle"
    BY <2>1
  <2>4. Becomes(c, m(k.state_, k.retries_left_, k.was_connected_, FALSE, "interested"))
    BY <2>1, <2>2
  <2>5. TRUE \in BOOLEAN /\ FALSE \in BOOLEAN
    OBVIOUS
  <2> HIDE DEF k, m
  <2> QED BY <1>2, <1>4, <1>5, <2>3, <2>4, <2>5, Zenon
<1> QED BY <1>6, <1>7, <1>8, <1>9, <1>10

LEMMA ReplaceKept ==
  ASSUME SwarmInv, NEW c \in Peers, Replace(c)
  PROVE  Kept
<1>1. /\ Becomes(c, NewConnection) /\ UNCHANGED <<pmVars, wire>>
      /\ wire \in [Peers -> BagsOver(Infos)]
  BY FreeFacts DEF Replace
<1> QED BY <1>1, NewConnectionGood, QuietStep

LEMMA InterestedSentKept ==
  ASSUME SwarmInv, NEW c \in Peers, InterestedSent(c)
  PROVE  Kept
<1> DEFINE k == conn[c]
           at == IF completed THEN <<"done", "done">> ELSE <<"wait", "receiving">>
           m == [k EXCEPT !.state_ = "RUNNING", !.sender = at[1], !.receiver = at[2]]
<1>1. /\ k \in GoodConns /\ k.quota = 0 /\ k.sender = "interested"
      /\ Becomes(c, m) /\ UNCHANGED <<pmVars, wire>>
      /\ wire \in [Peers -> BagsOver(Infos)]
  BY FreeFacts DEF InterestedSent
<1>2. /\ at[1] \in SenderAt \ Early /\ at[2] \in ReceiverAt
      /\ at[2] # "idle"
  BY DEF SenderAt, ReceiverAt, Early
<1>3. k \in ConnRecords /\ ~ k.bitfield_received_
  BY <1>1, ConnFields DEF Early
<1> HIDE DEF k, at
<1>4. m \in ConnRecords
  BY <1>2, <1>3 DEF ConnRecords, PeerStates
<1>5. /\ m.pending_requests_ = k.pending_requests_ /\ m.quota = 0
      /\ m.sender \notin Early /\ m.bitfield_received_ = FALSE
  BY <1>1, <1>2, <1>3 DEF ConnRecords
<1> HIDE DEF m
<1>6. m \in GoodConns /\ \A p : ~ Owns(m, p)
  BY <1>1, <1>4, <1>5 DEF GoodConns, Owns
<1> QED BY <1>1, <1>6, QuietStep
-----------------------------------------------------------------------------
(* send_requests *)

\* Some of the elements of a bag, each as often as it is there.
LEMMA RestrictedBag ==
  ASSUME NEW S, IsFiniteSet(S), NEW B \in BagsOver(S), NEW D \in SUBSET BagToSet(B)
  PROVE  /\ [e \in D |-> B[e]] \in BagsOver(S)
         /\ Size([e \in D |-> B[e]]) <= Size(B)
<1> DEFINE A == [e \in D |-> B[e]]
<1>1. /\ A = [e \in DOMAIN A |-> A[e]] /\ DOMAIN A \subseteq DOMAIN B
      /\ \A e \in DOMAIN A : e \in DOMAIN B /\ A[e] = B[e]
  BY DEF BagToSet
<1>2. \A e \in DOMAIN B : B[e] \in Nat \ {0}
  BY BagsOverIs DEF BagOver
<1> HIDE DEF A
<1>3. \A e \in DOMAIN A : A[e] \in 1 .. B[e]
  BY <1>1, <1>2
<1>4. A \in BagsOver(S) /\ Size(A) <= Size(B)
  BY <1>1, <1>3, PartOfBag
<1> QED BY <1>4 DEF A

\* Another bag of blocks to ask for, or to send.
LEMMA Refilled ==
  ASSUME NEW k \in GoodConns, NEW X \in BagsOver(Infos)
  PROVE  /\ [k EXCEPT !.endgame_remaining_blocks_ = X] \in GoodConns
         /\ [k EXCEPT !.outbox = X] \in GoodConns
         /\ [k EXCEPT !.endgame_remaining_blocks_ = X].quota = k.quota
         /\ [k EXCEPT !.outbox = X].quota = k.quota
         /\ \A p : /\ Owns([k EXCEPT !.endgame_remaining_blocks_ = X], p) <=> Owns(k, p)
                   /\ Owns([k EXCEPT !.outbox = X], p) <=> Owns(k, p)
<1> DEFINE m == [k EXCEPT !.endgame_remaining_blocks_ = X]
           n == [k EXCEPT !.outbox = X]
<1>1. m \in ConnRecords /\ n \in ConnRecords
  BY ConnFields DEF ConnRecords
<1>2. /\ m.sender = k.sender
      /\ m.pending_requests_ = k.pending_requests_ /\ m.quota = k.quota
      /\ m.receiver = k.receiver /\ m.bitfield_received_ = k.bitfield_received_
      /\ m.bitfield_ = k.bitfield_
  BY ConnFields DEF ConnRecords
<1>3. /\ n.sender = k.sender
      /\ n.pending_requests_ = k.pending_requests_ /\ n.quota = k.quota
      /\ n.receiver = k.receiver /\ n.bitfield_received_ = k.bitfield_received_
      /\ n.bitfield_ = k.bitfield_
  BY ConnFields DEF ConnRecords
<1> HIDE DEF m, n
<1>4. m \in GoodConns /\ n \in GoodConns
  BY <1>1, <1>2, <1>3 DEF GoodConns
<1>5. \A p : (Owns(m, p) <=> Owns(k, p)) /\ (Owns(n, p) <=> Owns(k, p))
  BY <1>2, <1>3 DEF Owns
<1> QED BY <1>2, <1>3, <1>4, <1>5 DEF m, n

\* Other blocks in flight, no more than there were.
LEMMA Pending ==
  ASSUME NEW k \in GoodConns, NEW X \in BagsOver(Entries),
         Size(X) + k.quota <= MAX_BLOCKS_IN_FLIGHT
  PROVE  /\ [k EXCEPT !.pending_requests_ = X] \in GoodConns
         /\ [k EXCEPT !.pending_requests_ = X].quota = k.quota
         /\ in_flight([k EXCEPT !.pending_requests_ = X]) = Size(X)
         /\ \A p : Owns([k EXCEPT !.pending_requests_ = X], p) <=> Owns(k, p)
<1> DEFINE m == [k EXCEPT !.pending_requests_ = X]
<1>1. m \in ConnRecords
  BY ConnFields DEF ConnRecords
<1>2. /\ m.sender = k.sender
      /\ m.pending_requests_ = X /\ m.quota = k.quota
      /\ m.receiver = k.receiver /\ m.bitfield_received_ = k.bitfield_received_
      /\ m.bitfield_ = k.bitfield_
  BY ConnFields DEF ConnRecords
<1> HIDE DEF m
<1>3. m \in GoodConns
  BY <1>1, <1>2, ConnFields DEF GoodConns
<1>4. \A p : Owns(m, p) <=> Owns(k, p)
  BY <1>2 DEF Owns
<1> QED BY <1>2, <1>3, <1>4 DEF m, in_flight, Size

\* refresh_pending_requests only removes.
LEMMA RefreshGood ==
  ASSUME NEW k \in GoodConns
  PROVE  /\ refresh_pending_requests(k) \in GoodConns
         /\ refresh_pending_requests(k).quota = k.quota
         /\ \A p : Owns(refresh_pending_requests(k), p) <=> Owns(k, p)
<1> DEFINE D == {e \in BagToSet(k.pending_requests_) : ~ Fresh(e)}
           X == [e \in D |-> k.pending_requests_[e]]
<1>1. refresh_pending_requests(k) = [k EXCEPT !.pending_requests_ = X]
  BY DEF refresh_pending_requests, Filter
<1>2. /\ k.pending_requests_ \in BagsOver(Entries) /\ Size(k.pending_requests_) \in Nat
      /\ Size(k.pending_requests_) + k.quota <= MAX_BLOCKS_IN_FLIGHT /\ k.quota \in Nat
  BY ConnFields, LimitsAssumption
<1>3. D \in SUBSET BagToSet(k.pending_requests_)
  OBVIOUS
<1> HIDE DEF D
<1>4. X \in BagsOver(Entries) /\ Size(X) <= Size(k.pending_requests_)
  BY <1>2, <1>3, RestrictedBag, InfosFinite
<1> HIDE DEF X
<1>5. Size(X) + k.quota <= MAX_BLOCKS_IN_FLIGHT
  <2>1. Size(X) \in Nat
    BY <1>4, SizeIsNat, InfosFinite
  <2> QED BY <1>2, <1>4, <2>1, LimitsAssumption
<1> QED BY <1>1, <1>4, <1>5, Pending

\* load_block_requests starts with as many calls as there is room for.
LEMMA LoadStarts ==
  ASSUME NEW k \in GoodConns, k.quota = 0
  PROVE  LET m == [k EXCEPT !.quota = num_blocks(k), !.outbox = EmptyBag,
                            !.sender = "loading"]
         IN  m \in GoodConns /\ \A p : Owns(m, p) <=> Owns(k, p)
<1> DEFINE n == num_blocks(k)
           m == [k EXCEPT !.quota = n, !.outbox = EmptyBag, !.sender = "loading"]
<1>1. /\ n \in 0 .. MAX_BLOCKS_PER_REQUEST
      /\ in_flight(k) \in Nat /\ in_flight(k) + n <= MAX_BLOCKS_IN_FLIGHT
  BY ConnFields, LimitsAssumption DEF num_blocks
<1>2. EmptyBag \in BagsOver(Infos)
  BY EmptyBagFacts
<1> HIDE DEF n
<1>3. m \in ConnRecords
  BY <1>1, <1>2, ConnFields DEF ConnRecords, SenderAt
<1>4. /\ m.sender = "loading"
      /\ m.pending_requests_ = k.pending_requests_ /\ m.quota = n
      /\ m.receiver = k.receiver /\ m.bitfield_received_ = k.bitfield_received_
      /\ m.bitfield_ = k.bitfield_
  BY ConnFields DEF ConnRecords
<1> HIDE DEF m
<1>5. m \in GoodConns
  BY <1>1, <1>3, <1>4, ConnFields DEF GoodConns, Early
<1>6. \A p : Owns(m, p) <=> Owns(k, p)
  BY <1>4 DEF Owns
<1> QED BY <1>5, <1>6 DEF m, n

LEMMA SenderWakesKept ==
  ASSUME SwarmInv, NEW c \in Peers, SenderWakes(c)
  PROVE  Kept
<1> DEFINE k    == conn[c]
           list == endgame_remaining_blocks(k.bitfield_)
           kept == refresh_pending_requests(k)
<1>1. /\ k \in GoodConns /\ k.quota = 0
      /\ UNCHANGED <<pmVars, wire>> /\ wire \in [Peers -> BagsOver(Infos)]
  BY FreeFacts DEF SenderWakes
<1>2. SUFFICES ASSUME NEW m \in GoodConns, Becomes(c, m),
                      \A p : Owns(m, p) <=> Owns(k, p)
               PROVE  Kept
  <2> DEFINE good(m) == m \in GoodConns /\ \A p : Owns(m, p) <=> Owns(k, p)
  <2>1. list \subseteq Infos
    BY DEF endgame_remaining_blocks, SwarmInv
  <2>2. SetToBag(list) \in BagsOver(Infos) /\ EmptyBag \in BagsOver(Infos)
    BY <2>1, SetToBagFacts, EmptyBagFacts
  <2>3. \E m : good(m) /\ Becomes(c, m)
    <3>1. CASE Becomes(c, LoopHead(k))
      BY <1>1, <3>1, HeadsGood
    <3>2. CASE Becomes(c, [k EXCEPT !.sender = "done",
                           !.endgame_remaining_blocks_ =
                             IF k.receiver = "done" THEN @ ELSE EmptyBag])
      <4> DEFINE X == IF k.receiver = "done" THEN k.endgame_remaining_blocks_ ELSE EmptyBag
                 n == [k EXCEPT !.sender = "done"]
                 m == [n EXCEPT !.endgame_remaining_blocks_ = X]
      <4>1. X \in BagsOver(Infos)
        BY <1>1, <2>2, ConnFields
      <4>2. "done" \in SenderAt \ Early
        BY DEF SenderAt, Early
      <4>3. n \in GoodConns /\ \A p : Owns(n, p) <=> Owns(k, p)
        BY <1>1, <4>2, Moved
      <4>4. Becomes(c, m)
        BY <1>1, <3>2, ConnFields DEF ConnRecords
      <4> HIDE DEF n, X
      <4>5. m \in GoodConns /\ \A p : Owns(m, p) <=> Owns(n, p)
        BY <4>1, <4>3, Refilled
      <4> QED BY <4>3, <4>4, <4>5
    <3>3. CASE Becomes(c, EndgameHead([k EXCEPT !.endgame_remaining_blocks_ = SetToBag(list)]))
      <4> DEFINE m == [k EXCEPT !.endgame_remaining_blocks_ = SetToBag(list)]
      <4>1. m \in GoodConns /\ m.quota = 0 /\ \A p : Owns(m, p) <=> Owns(k, p)
        BY <1>1, <2>2, Refilled
      <4>2. Becomes(c, EndgameHead(m))
        BY <3>3
      <4> HIDE DEF m
      <4>3. EndgameHead(m) \in GoodConns /\ \A p : Owns(EndgameHead(m), p) <=> Owns(m, p)
        BY <4>1, HeadsGood
      <4> QED BY <4>1, <4>2, <4>3
    <3>4. CASE Becomes(c, [kept EXCEPT !.quota = num_blocks(kept), !.outbox = EmptyBag,
                                       !.sender = "loading"])
      <4>1. kept \in GoodConns /\ kept.quota = 0 /\ \A p : Owns(kept, p) <=> Owns(k, p)
        BY <1>1, RefreshGood
      <4> HIDE DEF kept
      <4> DEFINE m == [kept EXCEPT !.quota = num_blocks(kept), !.outbox = EmptyBag,
                                   !.sender = "loading"]
      <4>2. m \in GoodConns /\ \A p : Owns(m, p) <=> Owns(kept, p)
        BY <4>1, LoadStarts
      <4>3. Becomes(c, m)
        BY <3>4 DEF kept
      <4> HIDE DEF m
      <4> QED BY <4>1, <4>2, <4>3
    <3> QED BY <3>1, <3>2, <3>3, <3>4 DEF SenderWakes
  <2> QED BY <1>2, <2>3
<1> QED BY <1>1, <1>2, QuietStep

\* Whatever request_next_block returns, the availability stays.
LEMMA RequestCall ==
  ASSUME SwarmInv, NEW bitfield \in SUBSET PieceIds,
         NEW result \in Requests \cup {NoBlock}, RequestNextBlock(bitfield, result)
  PROVE  CallsNext /\ piece_avail_' = piece_avail_
BY DEF CallsNext, Request, RequestNextBlock, pmVars

\* One block more is in flight, and one call less is left.
LEMMA RequestedGood ==
  ASSUME NEW k \in GoodConns, k.quota > 0, NEW info \in Infos
  PROVE  LET m == [Requested(k, info) EXCEPT !.quota = @ - 1]
         IN  m \in GoodConns /\ \A p : Owns(m, p) <=> Owns(k, p)
<1> DEFINE X == k.pending_requests_ (+) SetToBag({<<info, 0>>})
           Y == k.outbox (+) SetToBag({info})
           m == [Requested(k, info) EXCEPT !.quota = @ - 1]
<1>1. /\ k.pending_requests_ \in BagsOver(Entries) /\ k.outbox \in BagsOver(Infos)
      /\ Size(k.pending_requests_) \in Nat /\ k.quota \in Nat
      /\ k.quota \in 0 .. MAX_BLOCKS_PER_REQUEST
      /\ Size(k.pending_requests_) + k.quota <= MAX_BLOCKS_IN_FLIGHT
      /\ k \in ConnRecords /\ k.sender = "loading"
  BY ConnFields, LimitsAssumption
<1>2. <<info, 0>> \in Entries
  BY TimeoutAssumption DEF Entries, Expired
<1>3. X \in BagsOver(Entries) /\ Size(X) <= Size(k.pending_requests_) + 1
  BY <1>1, <1>2, OneMore, InfosFinite
<1>4. Y \in BagsOver(Infos)
  BY <1>1, OneMore, InfosFinite
<1>5. m = [k EXCEPT !.pending_requests_ = X, !.outbox = Y, !.quota = k.quota - 1]
  BY <1>1 DEF Requested, ConnRecords
<1>6. Size(X) \in Nat
  BY <1>3, SizeIsNat, InfosFinite
<1> HIDE DEF X, Y, m
<1>7. k.quota - 1 \in 0 .. MAX_BLOCKS_PER_REQUEST
  BY <1>1, LimitsAssumption
<1>8. m \in ConnRecords
  BY <1>1, <1>3, <1>4, <1>5, <1>7 DEF ConnRecords
<1>9. /\ m.sender = "loading"
      /\ m.pending_requests_ = X /\ m.quota = k.quota - 1
      /\ m.receiver = k.receiver /\ m.bitfield_received_ = k.bitfield_received_
      /\ m.bitfield_ = k.bitfield_
  BY <1>1, <1>5 DEF ConnRecords
<1>10. Size(X) + (k.quota - 1) <= MAX_BLOCKS_IN_FLIGHT
  BY <1>1, <1>3, <1>6, LimitsAssumption
<1>11. m \in GoodConns
  BY <1>8, <1>9, <1>10 DEF GoodConns, Early
<1>12. \A p : Owns(m, p) <=> Owns(k, p)
  BY <1>9 DEF Owns
<1> QED BY <1>11, <1>12 DEF m

\* request_next_block has nothing: no call is left.
LEMMA NoCallLeft ==
  ASSUME NEW k \in GoodConns
  PROVE  /\ [k EXCEPT !.quota = 0] \in GoodConns
         /\ \A p : Owns([k EXCEPT !.quota = 0], p) <=> Owns(k, p)
<1> DEFINE m == [k EXCEPT !.quota = 0]
<1>1. m \in ConnRecords
  BY ConnFields, LimitsAssumption DEF ConnRecords
<1>2. /\ m.sender = k.sender
      /\ m.pending_requests_ = k.pending_requests_ /\ m.quota = 0
      /\ m.receiver = k.receiver /\ m.bitfield_received_ = k.bitfield_received_
      /\ m.bitfield_ = k.bitfield_
  BY ConnFields DEF ConnRecords
<1>3. Size(k.pending_requests_) + 0 <= MAX_BLOCKS_IN_FLIGHT
  BY ConnFields, LimitsAssumption
<1> HIDE DEF m
<1>4. m \in GoodConns
  BY <1>1, <1>2, <1>3, ConnFields DEF GoodConns
<1>5. \A p : Owns(m, p) <=> Owns(k, p)
  BY <1>2 DEF Owns
<1> QED BY <1>4, <1>5 DEF m

LEMMA LoadBlockKept ==
  ASSUME SwarmInv, NEW c \in Peers, LoadBlock(c)
  PROVE  Kept
<1> DEFINE k == conn[c]
<1>1. /\ k \in GoodConns /\ k.quota > 0
      /\ wire' \in [Peers -> BagsOver(Infos)]
  BY DEF SwarmInv, LoadBlock
<1>2. PICK result \in Requests \cup {NoBlock} :
        /\ RequestNextBlock(k.bitfield_, result)
        /\ Becomes(c, IF result = NoBlock THEN [k EXCEPT !.quota = 0]
                      ELSE [Requested(k, result) EXCEPT !.quota = @ - 1])
  BY DEF LoadBlock
<1>3. CallsNext /\ piece_avail_' = piece_avail_
  BY <1>1, <1>2, ConnFields, RequestCall
<1>4. PICK m \in GoodConns : Becomes(c, m) /\ \A p : Owns(m, p) <=> Owns(k, p)
  <2>1. CASE result = NoBlock
    <3>1. Becomes(c, [k EXCEPT !.quota = 0])
      BY <1>2, <2>1
    <3> HIDE DEF k
    <3> QED BY <1>1, <3>1, NoCallLeft
  <2>2. CASE result # NoBlock
    <3>1. result \in Infos
      BY <2>2, RequestsAreInfos
    <3>2. Becomes(c, [Requested(k, result) EXCEPT !.quota = @ - 1])
      BY <1>2, <2>2
    <3> HIDE DEF k
    <3> QED BY <1>1, <3>1, <3>2, RequestedGood
  <2> QED BY <2>1, <2>2
<1> QED BY <1>1, <1>3, <1>4, CallStep

LEMMA LoadReturnsKept ==
  ASSUME SwarmInv, NEW c \in Peers, LoadReturns(c)
  PROVE  Kept
<1> DEFINE k == conn[c]
<1>1. /\ k \in GoodConns /\ k.quota = 0
      /\ UNCHANGED <<pmVars, wire>> /\ wire \in [Peers -> BagsOver(Infos)]
      /\ Becomes(c, LoopHead(k)) \/ Becomes(c, Await(k, "sending"))
  BY DEF SwarmInv, LoadReturns
<1>2. "sending" \in SenderAt \ Early
  BY DEF SenderAt, Early
<1>3. PICK m \in GoodConns : Becomes(c, m) /\ \A p : Owns(m, p) <=> Owns(k, p)
  <2> HIDE DEF k
  <2> QED BY <1>1, <1>2, HeadsGood
<1> QED BY <1>1, <1>3, QuietStep

\* What is sent is added to what the peer owes.
LEMMA SentWire ==
  ASSUME SwarmInv, NEW c \in Peers,
         wire' = [wire EXCEPT ![c] = @ (+) conn[c].outbox]
  PROVE  wire' \in [Peers -> BagsOver(Infos)]
<1> DEFINE B == wire[c] (+) conn[c].outbox
<1>1. conn[c].outbox \in BagsOver(Infos) /\ wire[c] \in BagsOver(Infos)
  BY ConnFields DEF SwarmInv
<1>2. B \in BagsOver(Infos)
  BY <1>1, SumFacts, InfosFinite
<1>3. wire' = [wire EXCEPT ![c] = B]
  OBVIOUS
<1> HIDE DEF B
<1> QED BY <1>2, <1>3 DEF SwarmInv

LEMMA SentKept ==
  ASSUME SwarmInv, NEW c \in Peers, RequestsSent(c) \/ EndgameRequestsSent(c)
  PROVE  Kept
<1> DEFINE k == conn[c]
           n == [k EXCEPT !.outbox = EmptyBag]
<1>1. /\ k \in GoodConns /\ k.quota = 0
      /\ UNCHANGED pmVars
      /\ Becomes(c, LoopHead(n)) \/ Becomes(c, EndgameHead(n))
      /\ wire' = [wire EXCEPT ![c] = @ (+) k.outbox]
  BY FreeFacts DEF RequestsSent, EndgameRequestsSent
<1>2. wire' \in [Peers -> BagsOver(Infos)]
  BY <1>1, SentWire
<1>3. n \in GoodConns /\ n.quota = 0 /\ \A p : Owns(n, p) <=> Owns(k, p)
  BY <1>1, EmptyBagFacts, Refilled
<1>4. PICK m \in GoodConns : Becomes(c, m) /\ \A p : Owns(m, p) <=> Owns(k, p)
  <2> HIDE DEF k, n
  <2> QED BY <1>1, <1>3, HeadsGood
<1> QED BY <1>1, <1>2, <1>4, QuietStep

\* A connection that fails keeps what it holds.
LEMMA FailureGood ==
  ASSUME NEW k \in GoodConns, NEW ec
  PROVE  /\ handle_failure(k, ec) \in GoodConns
         /\ handle_failure(k, ec).quota = k.quota
         /\ handle_failure(k, ec).sender = k.sender
         /\ \A p : Owns(handle_failure(k, ec), p) <=> Owns(k, p)
<1> DEFINE m == handle_failure(k, ec)
<1>1. m \in ConnRecords
  BY ConnFields DEF ConnRecords, handle_failure, PeerStates
<1>2. /\ m.sender = k.sender
      /\ m.pending_requests_ = k.pending_requests_ /\ m.quota = k.quota
      /\ m.receiver = k.receiver /\ m.bitfield_received_ = k.bitfield_received_
      /\ m.bitfield_ = k.bitfield_
  BY ConnFields DEF ConnRecords, handle_failure
<1> HIDE DEF m
<1>3. m \in GoodConns
  BY <1>1, <1>2 DEF GoodConns
<1>4. \A p : Owns(m, p) <=> Owns(k, p)
  BY <1>2 DEF Owns
<1> QED BY <1>2, <1>3, <1>4 DEF m

LEMMA SendFailsKept ==
  ASSUME SwarmInv, NEW c \in Peers, NEW ec, SendFails(c, ec)
  PROVE  Kept
<1> DEFINE k == conn[c]
           n == handle_failure(k, ec)
<1>1. /\ k \in GoodConns /\ k.quota = 0
      /\ UNCHANGED <<pmVars, wire>> /\ wire \in [Peers -> BagsOver(Infos)]
      /\ Becomes(c, [n EXCEPT !.sender = "done"])
  BY FreeFacts DEF SendFails
<1>2. "done" \in SenderAt \ Early
  BY DEF SenderAt, Early
<1>3. PICK m \in GoodConns : Becomes(c, m) /\ \A p : Owns(m, p) <=> Owns(k, p)
  <2>1. n \in GoodConns /\ n.quota = 0 /\ \A p : Owns(n, p) <=> Owns(k, p)
    BY <1>1, FailureGood
  <2> HIDE DEF k, n
  <2>2. [n EXCEPT !.sender = "done"] \in GoodConns
        /\ \A p : Owns([n EXCEPT !.sender = "done"], p) <=> Owns(n, p)
    BY <1>2, <2>1, Moved
  <2> QED BY <1>1, <2>1, <2>2
<1> QED BY <1>1, <1>3, QuietStep
-----------------------------------------------------------------------------
(* endgame_send_requests *)

\* What a copy is a copy of.
LEMMA CopyIn ==
  ASSUME NEW S, NEW B \in BagsOver(S), NEW d \in Copies(B)
  PROVE  d[1] \in S /\ d[1] \in DOMAIN B
<1>1. PICK e \in DOMAIN B : \E i \in 1 .. B[e] : d = <<e, i>>
  BY CopyOf
<1>2. e \in S /\ d[1] = e
  BY <1>1, BagsOverIs DEF BagOver
<1> QED BY <1>2

\* The blocks that entries are for, one for each entry; and an entry for each
\* block that is asked for.
Firsts(B) == Tally({<<d[1][1], d>> : d \in Copies(B)})
Stamped(B) == Tally({<<<<d[1], 0>>, d>> : d \in Copies(B)})

LEMMA FirstsFacts ==
  ASSUME NEW B \in BagsOver(Entries)
  PROVE  Firsts(B) \in BagsOver(Infos)
<1> DEFINE pairs == {<<d[1][1], d>> : d \in Copies(B)}
<1>1. \A d \in Copies(B) : d[1][1] \in Infos
  BY CopyIn DEF Entries
<1>2. /\ \A x \in pairs : x[1] \in Infos /\ x[2] \in Copies(B)
      /\ \A x, y \in pairs : x[2] = y[2] => x = y
  BY <1>1
<1> HIDE DEF pairs
<1>3. Tally(pairs) \in BagsOver(Infos)
  BY <1>2, InfosFinite, ChangedFacts
<1> QED BY <1>3 DEF Firsts, pairs

LEMMA StampedFacts ==
  ASSUME NEW B \in BagsOver(Infos)
  PROVE  Stamped(B) \in BagsOver(Entries) /\ Size(Stamped(B)) <= Size(B)
<1> DEFINE pairs == {<<<<d[1], 0>>, d>> : d \in Copies(B)}
<1>1. \A d \in Copies(B) : <<d[1], 0>> \in Entries
  BY CopyIn, TimeoutAssumption DEF Entries, Expired
<1>2. /\ \A x \in pairs : x[1] \in Entries /\ x[2] \in Copies(B)
      /\ \A x, y \in pairs : x[2] = y[2] => x = y
  BY <1>1
<1> HIDE DEF pairs
<1>3. Tally(pairs) \in BagsOver(Entries) /\ Size(Tally(pairs)) <= Size(B)
  BY <1>2, InfosFinite, ChangedFacts
<1> QED BY <1>3 DEF Stamped, pairs

\* New bags in all three places, with room for what is in flight.
WithBags(k, left, flying, sent) ==
  [k EXCEPT !.endgame_remaining_blocks_ = left, !.pending_requests_ = flying,
            !.outbox = sent]

LEMMA BagsReplaced ==
  ASSUME NEW k \in GoodConns, k.quota = 0,
         NEW left \in BagsOver(Infos), NEW sent \in BagsOver(Infos),
         NEW flying \in BagsOver(Entries), Size(flying) <= MAX_BLOCKS_IN_FLIGHT,
         NEW m, m = WithBags(k, left, flying, sent)
  PROVE  m \in GoodConns /\ m.quota = 0 /\ \A p : Owns(m, p) <=> Owns(k, p)
<1>1. Size(flying) + k.quota <= MAX_BLOCKS_IN_FLIGHT
  BY SizeIsNat, InfosFinite, LimitsAssumption
<1>2. m \in ConnRecords
  BY ConnFields DEF ConnRecords, WithBags
<1>3. /\ m.sender = k.sender
      /\ m.pending_requests_ = flying /\ m.quota = k.quota
      /\ m.receiver = k.receiver /\ m.bitfield_received_ = k.bitfield_received_
      /\ m.bitfield_ = k.bitfield_
  BY ConnFields DEF ConnRecords, WithBags
<1>4. m \in GoodConns
  BY <1>1, <1>2, <1>3, ConnFields DEF GoodConns
<1>5. \A p : Owns(m, p) <=> Owns(k, p)
  BY <1>3 DEF Owns
<1> QED BY <1>3, <1>4, <1>5

\* endgame_refresh_pending_requests puts no more in flight than there was.
LEMMA EndgameRefreshGood ==
  ASSUME NEW k \in GoodConns, k.quota = 0,
         NEW m, m = endgame_refresh_pending_requests(k)
  PROVE  m \in GoodConns /\ m.quota = 0 /\ \A p : Owns(m, p) <=> Owns(k, p)
<1> DEFINE E == k.endgame_remaining_blocks_
           P == k.pending_requests_
           missing == {r \in BagToSet(E) : ~ IsBlockReceived(r[1], r[2])}
           answered == {e \in BagToSet(P) : IsBlockReceived(e[1][1], e[1][2])}
           stale == {e \in BagToSet(P) :
                       ~ IsBlockReceived(e[1][1], e[1][2]) /\ ~ Fresh(e)}
           again == {e \in BagToSet(P) :
                       ~ IsBlockReceived(e[1][1], e[1][2]) /\ Fresh(e)}
           part(B, D) == [e \in D |-> B[e]]
<1>1. m = WithBags(k, part(E, missing) (+) Firsts(part(P, again)),
                   part(P, stale), Firsts(part(P, answered)))
  BY DEF endgame_refresh_pending_requests, Filter, Image, Firsts, WithBags
<1>2. /\ E \in BagsOver(Infos) /\ P \in BagsOver(Entries)
      /\ Size(P) \in Nat /\ Size(P) <= MAX_BLOCKS_IN_FLIGHT
  BY ConnFields
<1>3. /\ missing \in SUBSET BagToSet(E) /\ answered \in SUBSET BagToSet(P)
      /\ stale \in SUBSET BagToSet(P) /\ again \in SUBSET BagToSet(P)
  OBVIOUS
<1> HIDE DEF E, P, missing, answered, stale, again
<1>4. /\ part(E, missing) \in BagsOver(Infos)
      /\ part(P, answered) \in BagsOver(Entries)
      /\ part(P, again) \in BagsOver(Entries)
      /\ part(P, stale) \in BagsOver(Entries)
      /\ Size(part(P, stale)) <= Size(P)
  BY <1>2, <1>3, InfosFinite, RestrictedBag
<1> HIDE DEF part
<1>5. /\ Firsts(part(P, again)) \in BagsOver(Infos)
      /\ Firsts(part(P, answered)) \in BagsOver(Infos)
  BY <1>4, FirstsFacts
<1>6. part(E, missing) (+) Firsts(part(P, again)) \in BagsOver(Infos)
  BY <1>4, <1>5, InfosFinite, SumFacts
<1>7. Size(part(P, stale)) <= MAX_BLOCKS_IN_FLIGHT
  <2>1. Size(part(P, stale)) \in Nat
    BY <1>4, SizeIsNat, InfosFinite
  <2> QED BY <1>2, <1>4, <2>1, LimitsAssumption
<1> QED BY <1>1, <1>4, <1>5, <1>6, <1>7, BagsReplaced

\* endgame_load_block_requests takes no more blocks than there is room for.
LEMMA EndgameLoadedGood ==
  ASSUME NEW k \in GoodConns, k.quota = 0, NEW m \in EndgameLoaded(k)
  PROVE  m \in GoodConns /\ m.quota = 0 /\ \A p : Owns(m, p) <=> Owns(k, p)
<1> DEFINE E == k.endgame_remaining_blocks_
           P == k.pending_requests_
           room == MAX_BLOCKS_IN_FLIGHT - in_flight(k)
           limits == {room, MAX_BLOCKS_PER_REQUEST, Cardinality(Copies(E))}
           n == CHOOSE l \in limits : \A j \in limits : l <= j
<1>1. /\ E \in BagsOver(Infos) /\ P \in BagsOver(Entries)
      /\ Size(P) \in Nat /\ in_flight(k) = Size(P) /\ Size(P) <= MAX_BLOCKS_IN_FLIGHT
  BY ConnFields
<1>2. IsFiniteSet(Copies(E)) /\ Cardinality(Copies(E)) \in Nat
  BY <1>1, CopiesFinite, BagsOverIs, InfosFinite
<1>3. PICK chosen \in SUBSET Copies(E) :
        /\ Cardinality(chosen) = n
        /\ m = WithBags(k, E (-) Tally(chosen),
                        P (+) Stamped(Tally(chosen)), Tally(chosen))
  BY DEF EndgameLoaded, Image, Stamped, WithBags
<1>4. n <= room /\ room \in Nat
  <2>1. room \in Nat /\ MAX_BLOCKS_PER_REQUEST \in Nat
    BY <1>1, LimitsAssumption
  <2>2. \E l \in limits : \A j \in limits : l <= j
    <3> DEFINE a == MAX_BLOCKS_PER_REQUEST
               b == Cardinality(Copies(E))
    <3>1. a \in Nat /\ b \in Nat
      BY <1>2, <2>1
    <3>2. limits = {room, a, b}
      OBVIOUS
    <3> HIDE DEF room, a, b, limits
    <3>3. CASE room <= a /\ room <= b
      BY <2>1, <3>1, <3>2, <3>3
    <3>4. CASE a <= room /\ a <= b
      BY <2>1, <3>1, <3>2, <3>4
    <3>5. CASE b <= room /\ b <= a
      BY <2>1, <3>1, <3>2, <3>5
    <3> QED BY <2>1, <3>1, <3>3, <3>4, <3>5
  <2>3. room \in limits
    OBVIOUS
  <2> HIDE DEF limits, room
  <2> QED BY <2>1, <2>2, <2>3
<1> HIDE DEF E, P, n, room
<1> DEFINE T == Tally(chosen)
<1>5. /\ T \in BagsOver(Infos) /\ Size(T) \in Nat /\ Size(T) <= n /\ n \in Nat
  <2>1. IsFiniteSet(chosen) /\ Cardinality(chosen) \in Nat
    BY <1>2, FS_Subset, FS_CardinalityType
  <2>2. \A d \in chosen : d[1] \in Infos
    BY <1>1, CopyIn
  <2> QED BY <1>3, <2>1, <2>2, TallyFacts, BagsOverIs DEF Size
<1> HIDE DEF T
<1>6. E (-) T \in BagsOver(Infos)
  BY <1>1, <1>5, InfosFinite, DifferenceFacts
<1>7. Stamped(T) \in BagsOver(Entries) /\ Size(Stamped(T)) <= Size(T)
      /\ Size(Stamped(T)) \in Nat
  BY <1>5, StampedFacts, SizeIsNat, InfosFinite
<1>8. P (+) Stamped(T) \in BagsOver(Entries)
      /\ Size(P (+) Stamped(T)) <= Size(P) + Size(Stamped(T))
      /\ Size(P (+) Stamped(T)) \in Nat
  BY <1>1, <1>7, InfosFinite, SumFacts, SizeIsNat
<1>9. Size(P (+) Stamped(T)) <= MAX_BLOCKS_IN_FLIGHT
  BY <1>1, <1>4, <1>5, <1>7, <1>8, LimitsAssumption DEF room
<1> QED BY <1>3, <1>5, <1>6, <1>8, <1>9, BagsReplaced DEF T

\* endgame_load_block_requests, and where the sender goes then.
LEMMA LoadEndgameGood ==
  ASSUME NEW c \in Peers, NEW k \in GoodConns, k.quota = 0, LoadEndgame(c, k)
  PROVE  \E m \in GoodConns : Becomes(c, m) /\ \A p : Owns(m, p) <=> Owns(k, p)
<1>1. PICK loaded \in EndgameLoaded(k) :
        Becomes(c, EndgameHead(loaded)) \/ Becomes(c, Await(loaded, "endgame_sending"))
  BY DEF LoadEndgame
<1>2. loaded \in GoodConns /\ loaded.quota = 0 /\ \A p : Owns(loaded, p) <=> Owns(k, p)
  BY EndgameLoadedGood
<1>3. "endgame_sending" \in SenderAt \ Early
  BY DEF SenderAt, Early
<1> QED BY <1>1, <1>2, <1>3, HeadsGood

LEMMA EndgameWakesKept ==
  ASSUME SwarmInv, NEW c \in Peers, EndgameWakes(c)
  PROVE  Kept
<1> DEFINE k    == conn[c]
           kept == endgame_refresh_pending_requests(k)
<1>1. /\ k \in GoodConns /\ k.quota = 0
      /\ UNCHANGED <<pmVars, wire>> /\ wire \in [Peers -> BagsOver(Infos)]
      /\ \/ Becomes(c, EndgameHead(k))
         \/ Becomes(c, Await(kept, "cancelling"))
         \/ LoadEndgame(c, kept)
  BY FreeFacts DEF EndgameWakes
<1>2. kept \in GoodConns /\ kept.quota = 0 /\ \A p : Owns(kept, p) <=> Owns(k, p)
  BY <1>1, EndgameRefreshGood
<1>3. "cancelling" \in SenderAt \ Early
  BY DEF SenderAt, Early
<1>4. PICK m \in GoodConns : Becomes(c, m) /\ \A p : Owns(m, p) <=> Owns(k, p)
  <2> HIDE DEF k, kept
  <2>1. CASE Becomes(c, EndgameHead(k))
    BY <1>1, <2>1, HeadsGood
  <2>2. CASE Becomes(c, Await(kept, "cancelling"))
    BY <1>2, <1>3, <2>2, HeadsGood
  <2>3. CASE LoadEndgame(c, kept)
    BY <1>2, <2>3, LoadEndgameGood
  <2> QED BY <1>1, <2>1, <2>2, <2>3
<1> QED BY <1>1, <1>4, QuietStep

LEMMA CancelsSentKept ==
  ASSUME SwarmInv, NEW c \in Peers, CancelsSent(c)
  PROVE  Kept
<1> PICK crossing \in SUBSET BagToSet(conn[c].outbox) :
           LET kept(request) == request \in crossing \/ ~ BagIn(request, conn[c].outbox)
           IN wire' = [wire EXCEPT ![c] = Filter(@, kept)]
  BY DEF CancelsSent
<1> DEFINE k == conn[c]
           D == {r \in BagToSet(wire[c]) : r \in crossing \/ ~ BagIn(r, k.outbox)}
           B == [r \in D |-> wire[c][r]]
<1>1. /\ k \in GoodConns /\ k.quota = 0 /\ UNCHANGED pmVars
      /\ LoadEndgame(c, k)
      /\ wire' = [wire EXCEPT ![c] = B]
      /\ wire \in [Peers -> BagsOver(Infos)]
  BY FreeFacts DEF CancelsSent, Filter
<1>2. D \in SUBSET BagToSet(wire[c])
  OBVIOUS
<1> HIDE DEF D
<1>3. B \in BagsOver(Infos)
  BY <1>1, <1>2, RestrictedBag, InfosFinite
<1> HIDE DEF B
<1>4. wire' \in [Peers -> BagsOver(Infos)]
  BY <1>1, <1>3
<1>5. PICK m \in GoodConns : Becomes(c, m) /\ \A p : Owns(m, p) <=> Owns(k, p)
  <2> HIDE DEF k
  <2> QED BY <1>1, LoadEndgameGood
<1> QED BY <1>1, <1>4, <1>5, QuietStep
-----------------------------------------------------------------------------
(* receive_messages *)

\* After a message the receiver waits for the next one, or returns.
LEMMA HandledGood ==
  ASSUME NEW c \in Peers, NEW k \in GoodConns, k.receiver # "idle", Handled(c, k)
  PROVE  \E m \in GoodConns : Becomes(c, m) /\ \A p : Owns(m, p) <=> Owns(k, p)
<1> DEFINE at == IF completed' \/ k.sender = "done" THEN "done" ELSE "receiving"
           m  == [k EXCEPT !.receiver = at]
<1>1. at \in ReceiverAt /\ at # "idle" /\ Becomes(c, m)
  BY DEF ReceiverAt, Handled
<1> HIDE DEF at
<1>2. m \in ConnRecords
  BY <1>1, ConnFields DEF ConnRecords
<1>3. /\ m.sender = k.sender
      /\ m.pending_requests_ = k.pending_requests_ /\ m.quota = k.quota
      /\ m.receiver = at /\ m.bitfield_received_ = k.bitfield_received_
      /\ m.bitfield_ = k.bitfield_
  BY ConnFields DEF ConnRecords
<1> HIDE DEF m
<1>4. m \in GoodConns
  BY <1>2, <1>3 DEF GoodConns
<1>5. \A p : Owns(m, p) <=> Owns(k, p)
  BY <1>1, <1>3 DEF Owns
<1> QED BY <1>1, <1>4, <1>5

\* A message sets other fields than those that say where the coroutines are
\* and what is in flight.
LEMMA SamePlace ==
  ASSUME NEW k \in GoodConns, k.receiver # "idle", NEW m \in ConnRecords,
         m.sender = k.sender, m.receiver = k.receiver, m.quota = k.quota,
         m.pending_requests_ = k.pending_requests_
  PROVE  m \in GoodConns
BY ConnFields DEF GoodConns

\* A connection that receives.
LEMMA ReceivingFacts ==
  ASSUME SwarmInv, NEW c \in Peers, Receiving(c)
  PROVE  /\ conn[c] \in GoodConns /\ conn[c] \in ConnRecords
         /\ conn[c].quota = 0 /\ conn[c].receiver = "receiving"
         /\ wire \in [Peers -> BagsOver(Infos)]
<1>1. /\ conn[c] \in GoodConns /\ conn[c].quota = 0
      /\ conn[c].receiver = "receiving"
      /\ wire \in [Peers -> BagsOver(Infos)]
  BY FreeFacts DEF Receiving
<1> QED BY <1>1, ConnFields

LEMMA ReceiveChokeKept ==
  ASSUME SwarmInv, NEW c \in Peers, NEW choking \in BOOLEAN, ReceiveChoke(c, choking)
  PROVE  Kept
<1> DEFINE k == conn[c]
           n == [k EXCEPT !.peer_choking_ = choking]
<1>1. Receiving(c) /\ UNCHANGED <<pmVars, wire>> /\ Handled(c, n)
  BY DEF ReceiveChoke
<1>2. k \in GoodConns /\ k.receiver = "receiving" /\ k \in ConnRecords
  BY <1>1, ReceivingFacts
<1>3. choking \in BOOLEAN
  OBVIOUS
<1>4. n \in GoodConns /\ n.receiver # "idle" /\ \A p : Owns(n, p) <=> Owns(k, p)
  <2> HIDE DEF k
  <2>1. n \in ConnRecords
    BY <1>2, <1>3 DEF ConnRecords
  <2>2. /\ n.sender = k.sender
        /\ n.pending_requests_ = k.pending_requests_ /\ n.quota = k.quota
        /\ n.receiver = k.receiver /\ n.bitfield_received_ = k.bitfield_received_
        /\ n.bitfield_ = k.bitfield_
    BY <1>2 DEF ConnRecords
  <2> HIDE DEF n
  <2>3. n \in GoodConns
    BY <1>2, <2>1, <2>2, SamePlace
  <2> QED BY <1>2, <2>2, <2>3 DEF Owns
<1> HIDE DEF n
<1>5. PICK m \in GoodConns : Becomes(c, m) /\ \A p : Owns(m, p) <=> Owns(n, p)
  BY <1>1, <1>4, HandledGood
<1> QED BY <1>1, <1>4, <1>5, ReceivingFacts, QuietStep

LEMMA ReceiveIgnoredKept ==
  ASSUME SwarmInv, NEW c \in Peers, ReceiveIgnored(c)
  PROVE  Kept
<1>1. Receiving(c) /\ UNCHANGED <<pmVars, wire>> /\ Handled(c, conn[c])
  BY DEF ReceiveIgnored
<1>2. PICK m \in GoodConns : Becomes(c, m) /\ \A p : Owns(m, p) <=> Owns(conn[c], p)
  BY <1>1, ReceivingFacts, HandledGood
<1> QED BY <1>1, <1>2, ReceivingFacts, QuietStep

\* One connection more has a piece, and the availability says so.
LEMMA MoreAvailable ==
  ASSUME SwarmInv, NEW p \in PieceIds, piece_avail_[p] < MaxAvail
  PROVE  /\ piece_avail_[p] \in Nat
         /\ (piece_avail_[p] + 1) % UINT16 = piece_avail_[p] + 1
<1>1. piece_avail_[p] \in 0 .. UINT16 - 1
  BY DEF SwarmInv, PmInv, PmTypeOK
<1> QED BY <1>1, SizesAssumption, MaxAvailAssumption

LEMMA ReceiveHaveKept ==
  ASSUME SwarmInv, NEW c \in Peers, NEW p \in Haves, ReceiveHave(c, p)
  PROVE  Kept
<1> DEFINE k == conn[c]
           n == [k EXCEPT !.bitfield_ = @ \cup {p}]
<1>1. /\ Receiving(c) /\ piece_avail_[p] < MaxAvail /\ AddAvailablePiece(p)
      /\ UNCHANGED wire /\ Handled(c, n)
  BY DEF ReceiveHave
<1>2. p \in PieceIds
  BY PeersAssumption
<1>3. k \in GoodConns /\ k.receiver = "receiving" /\ k \in ConnRecords
  BY <1>1, ReceivingFacts
<1>4. /\ n \in GoodConns /\ n.receiver # "idle"
      /\ \A q : q # p => (Owns(n, q) => Owns(k, q))
  <2> HIDE DEF k
  <2>1. n \in ConnRecords
    BY <1>2, <1>3 DEF ConnRecords
  <2>2. /\ n.sender = k.sender
        /\ n.pending_requests_ = k.pending_requests_ /\ n.quota = k.quota
        /\ n.receiver = k.receiver /\ n.bitfield_received_ = k.bitfield_received_
        /\ n.bitfield_ = k.bitfield_ \cup {p}
    BY <1>3 DEF ConnRecords
  <2> HIDE DEF n
  <2>3. n \in GoodConns
    BY <1>3, <2>1, <2>2, SamePlace
  <2> QED BY <1>3, <2>2, <2>3 DEF Owns
<1>5. Handled(c, n)
  BY <1>1
<1> HIDE DEF n
<1>6. PICK m \in GoodConns : Becomes(c, m) /\ \A q : Owns(m, q) <=> Owns(n, q)
  BY <1>4, <1>5, HandledGood
<1>7. CallsNext
  BY <1>1, <1>2 DEF CallsNext, Have
<1>8. \A q \in PieceIds : piece_avail_'[q] = IF q = p THEN piece_avail_[q] + 1 ELSE piece_avail_[q]
  <2>1. piece_avail_ \in [PieceIds -> 0 .. UINT16 - 1]
        /\ piece_avail_' = [piece_avail_ EXCEPT ![p] = (@ + 1) % UINT16]
    BY <1>1 DEF SwarmInv, PmInv, PmTypeOK, AddAvailablePiece
  <2>2. (piece_avail_[p] + 1) % UINT16 = piece_avail_[p] + 1
    BY <1>1, <1>2, MoreAvailable
  <2> QED BY <1>2, <2>1, <2>2
<1>9. \A q \in PieceIds : q # p => (Owns(m, q) => Owns(k, q))
  BY <1>4, <1>6
<1>10. wire' \in [Peers -> BagsOver(Infos)]
  BY <1>1, ReceivingFacts
<1>11. \A q \in PieceIds :
         \/ piece_avail_'[q] = piece_avail_[q] /\ (Owns(m, q) => Owns(k, q))
         \/ piece_avail_'[q] = piece_avail_[q] + 1
  BY <1>8, <1>9
<1> QED BY <1>6, <1>7, <1>10, <1>11, CallStep

LEMMA ReceiveBitfieldKept ==
  ASSUME SwarmInv, NEW c \in Peers, NEW bitfield \in SUBSET PieceIds, ReceiveBitfield(c, bitfield)
  PROVE  Kept
<1> DEFINE k == conn[c]
           n == [k EXCEPT !.bitfield_ = bitfield, !.bitfield_received_ = TRUE]
<1>1. /\ Receiving(c) /\ AddPeerBitfield(bitfield)
      /\ \A p \in bitfield : piece_avail_[p] < MaxAvail
      /\ UNCHANGED wire /\ Handled(c, n)
  BY DEF ReceiveBitfield
<1>2. bitfield \in SUBSET PieceIds
  OBVIOUS
<1>3. k \in GoodConns /\ k.receiver = "receiving" /\ k \in ConnRecords
  BY <1>1, ReceivingFacts
<1>4. /\ n \in GoodConns /\ n.receiver # "idle"
      /\ \A q : Owns(n, q) => q \in bitfield
  <2> HIDE DEF k
  <2>1. n \in ConnRecords
    BY <1>2, <1>3 DEF ConnRecords
  <2>2. /\ n.sender = k.sender
        /\ n.pending_requests_ = k.pending_requests_ /\ n.quota = k.quota
        /\ n.receiver = k.receiver /\ n.bitfield_ = bitfield
    BY <1>3 DEF ConnRecords
  <2> HIDE DEF n
  <2>3. n \in GoodConns
    BY <1>3, <2>1, <2>2, SamePlace
  <2> QED BY <1>3, <2>2, <2>3 DEF Owns
<1>5. Handled(c, n)
  BY <1>1
<1> HIDE DEF n
<1>6. PICK m \in GoodConns : Becomes(c, m) /\ \A q : Owns(m, q) <=> Owns(n, q)
  BY <1>4, <1>5, HandledGood
<1>7. CallsNext
  BY <1>1, <1>2 DEF CallsNext, Add
<1>8. \A q \in PieceIds :
        piece_avail_'[q] = IF q \in bitfield THEN piece_avail_[q] + 1 ELSE piece_avail_[q]
  <2>1. \A q \in bitfield : (piece_avail_[q] + 1) % UINT16 = piece_avail_[q] + 1
    BY <1>1, <1>2, MoreAvailable
  <2> QED BY <1>1, <2>1 DEF AddPeerBitfield, UpdatePiecesAvailability
<1>9. \A q \in PieceIds : q \notin bitfield => ~ Owns(m, q)
  BY <1>4, <1>6
<1>10. wire' \in [Peers -> BagsOver(Infos)]
  BY <1>1, ReceivingFacts
<1>11. \A q \in PieceIds :
         \/ piece_avail_'[q] = piece_avail_[q] /\ (Owns(m, q) => Owns(k, q))
         \/ piece_avail_'[q] = piece_avail_[q] + 1
  BY <1>8, <1>9
<1> QED BY <1>6, <1>7, <1>10, <1>11, CallStep

\* A block that was asked for lies in its piece, so the call is one of
\* PieceManagerCalls.
LEMMA ReceiveCall ==
  ASSUME NEW request \in Infos, NEW payload \in Payload,
         PmReceiveBlock(request[1], payload, request[2])
  PROVE  CallsNext /\ piece_avail_' = piece_avail_
<1>1. PICK p \in PieceIds : \E b \in BlocksOf(p) :
        request[1] = p /\ request[2] = get_block_offset(b)
  BY InfoIs
<1>2. PICK b \in BlocksOf(p) : request[2] = get_block_offset(b)
  BY <1>1
<1>4. Receive(p, b, payload)
  BY <1>1, <1>2 DEF Receive
<1>5. CallsNext
  BY <1>4 DEF CallsNext
<1>6. piece_avail_' = piece_avail_
  BY DEF PmReceiveBlock, orderVars
<1> QED BY <1>5, <1>6

\* The answer takes an entry out, if there is one.
LEMMA AnsweredGood ==
  ASSUME NEW k \in GoodConns, NEW info, NEW n \in PieceAnswered(k, info)
  PROVE  n \in GoodConns /\ n.receiver = k.receiver
         /\ \A p : Owns(n, p) <=> Owns(k, p)
<1> DEFINE P == k.pending_requests_
           matches == {e \in BagToSet(P) : e[1] = info}
<1>1. CASE n = k
  BY <1>1
<1>2. CASE n # k
  <2>1. PICK e \in matches : n = [k EXCEPT !.pending_requests_ = P (-) SetToBag({e})]
    BY <1>2 DEF PieceAnswered
  <2> DEFINE X == P (-) SetToBag({e})
  <2>2. P \in BagsOver(Entries) /\ Size(P) \in Nat /\ k.quota \in Nat
        /\ Size(P) + k.quota <= MAX_BLOCKS_IN_FLIGHT /\ k \in ConnRecords
    BY ConnFields, LimitsAssumption
  <2>3. SetToBag({e}) \in BagsOver({e})
    BY SetToBagFacts
  <2> HIDE DEF P
  <2>4. X \in BagsOver(Entries) /\ Size(X) <= Size(P)
    BY <2>2, <2>3, InfosFinite, DifferenceFacts
  <2>5. Size(X) \in Nat
    BY <2>4, InfosFinite, SizeIsNat
  <2> HIDE DEF X
  <2>6. Size(X) + k.quota <= MAX_BLOCKS_IN_FLIGHT
    BY <2>2, <2>4, <2>5, LimitsAssumption
  <2>7. n = [k EXCEPT !.pending_requests_ = X]
    BY <2>1 DEF X
  <2>8. n.receiver = k.receiver
    BY <2>2, <2>7 DEF ConnRecords
  <2> QED BY <2>4, <2>6, <2>7, <2>8, Pending
<1> QED BY <1>1, <1>2

LEMMA ReceivePieceKept ==
  ASSUME SwarmInv, NEW c \in Peers, NEW request \in BagToSet(wire[c]),
         NEW payload \in Payload, ReceivePiece(c, request, payload)
  PROVE  Kept
<1> DEFINE k == conn[c]
           B == wire[c] (-) SetToBag({request})
<1>1. /\ Receiving(c) /\ PmReceiveBlock(request[1], payload, request[2])
      /\ wire' = [wire EXCEPT ![c] = B]
      /\ \E info : \E n \in PieceAnswered(k, info) : Handled(c, n)
  BY DEF ReceivePiece
<1>2. /\ k \in GoodConns /\ k.receiver = "receiving"
      /\ wire \in [Peers -> BagsOver(Infos)] /\ wire[c] \in BagsOver(Infos)
  BY <1>1, ReceivingFacts
<1>3. request \in Infos
  BY <1>2, BagsOverIs DEF BagOver, BagToSet
<1>4. CallsNext /\ piece_avail_' = piece_avail_
  BY <1>1, <1>3, ReceiveCall
<1>5. wire' \in [Peers -> BagsOver(Infos)]
  <2>1. SetToBag({request}) \in BagsOver({request})
    BY SetToBagFacts
  <2>2. B \in BagsOver(Infos)
    BY <1>2, <2>1, InfosFinite, DifferenceFacts
  <2> HIDE DEF B
  <2> QED BY <1>1, <1>2, <2>2
<1>6. PICK info : \E n \in PieceAnswered(k, info) : Handled(c, n)
  BY <1>1
<1>7. PICK n \in PieceAnswered(k, info) : Handled(c, n)
  BY <1>6
<1>8. n \in GoodConns /\ n.receiver # "idle" /\ \A p : Owns(n, p) <=> Owns(k, p)
  BY <1>2, AnsweredGood
<1>9. PICK m \in GoodConns : Becomes(c, m) /\ \A p : Owns(m, p) <=> Owns(n, p)
  BY <1>7, <1>8, HandledGood
<1>10. \A p \in PieceIds : piece_avail_'[p] = piece_avail_[p] /\ (Owns(m, p) => Owns(k, p))
  BY <1>4, <1>8, <1>9
<1> QED BY <1>4, <1>5, <1>9, <1>10, CallStep

LEMMA ReceiveEndsKept ==
  ASSUME SwarmInv, NEW c \in Peers, NEW ec, ReceiveFails(c, ec) \/ ReceiveCancelled(c)
  PROVE  Kept
<1> DEFINE k == conn[c]
           m(e) == [handle_failure(k, e) EXCEPT !.receiver = "done"]
<1>1. PICK e : Becomes(c, m(e)) /\ UNCHANGED <<pmVars, wire>> /\ Receiving(c)
  BY DEF ReceiveFails, ReceiveCancelled
<1>2. k \in GoodConns /\ k.receiver = "receiving" /\ wire \in [Peers -> BagsOver(Infos)]
  BY <1>1, ReceivingFacts
<1> DEFINE n == handle_failure(k, e)
           r == [n EXCEPT !.receiver = "done"]
<1>3. n \in GoodConns /\ \A p : Owns(n, p) <=> Owns(k, p)
  BY <1>2, FailureGood
<1>4. n.receiver = k.receiver
  BY <1>2, ConnFields DEF ConnRecords, handle_failure
<1>5. Becomes(c, r)
  BY <1>1
<1> HIDE DEF k, n
<1>6. r \in GoodConns /\ \A p : Owns(r, p) <=> Owns(n, p)
  <2>1. n \in ConnRecords
    BY <1>3, ConnFields
  <2>2. r \in ConnRecords
    BY <2>1 DEF ConnRecords, ReceiverAt
  <2>3. /\ r.sender = n.sender
        /\ r.pending_requests_ = n.pending_requests_ /\ r.quota = n.quota
        /\ r.receiver = "done" /\ r.bitfield_received_ = n.bitfield_received_
        /\ r.bitfield_ = n.bitfield_
    BY <2>1 DEF ConnRecords
  <2> HIDE DEF r
  <2>4. r \in GoodConns
    BY <1>2, <1>3, <1>4, <2>2, <2>3 DEF GoodConns
  <2>5. \A p : Owns(r, p) <=> Owns(n, p)
    BY <1>2, <1>4, <2>3 DEF Owns
  <2> QED BY <2>4, <2>5
<1> HIDE DEF r
<1>7. \A p \in PieceIds : Owns(r, p) => Owns(k, p)
  BY <1>3, <1>6
<1> QED BY <1>1, <1>2, <1>5, <1>6, <1>7, QuietStep DEF k
-----------------------------------------------------------------------------
(* The end of run, and the clock *)

\* What run takes back has been added, by this connection if by no other.
LEMMA OwnedAvailable ==
  ASSUME SwarmInv, NEW c \in Peers, NEW p \in PieceIds, Owns(conn[c], p)
  PROVE  /\ piece_avail_[p] > 0
         /\ (piece_avail_[p] - 1) % UINT16 = piece_avail_[p] - 1
<1>1. piece_avail_[p] \in 0 .. UINT16 - 1
  BY DEF SwarmInv, PmInv, PmTypeOK
<1>2. c \in Owners(p) /\ IsFiniteSet(Owners(p)) /\ Cardinality(Owners(p)) \in Nat
  BY OwnersFinite
<1>3. Cardinality(Owners(p)) # 0
  BY <1>2, FS_EmptySet
<1>4. Cardinality(Owners(p)) <= piece_avail_[p]
  BY DEF SwarmInv, AvailabilityCovered
<1>5. piece_avail_[p] > 0
  BY <1>1, <1>2, <1>3, <1>4, SizesAssumption
<1> QED BY <1>1, <1>5, SizesAssumption

LEMMA RunEndsKept ==
  ASSUME SwarmInv, NEW c \in Peers, RunEnds(c)
  PROVE  Kept
<1> DEFINE k == conn[c]
           m == [k EXCEPT !.sender = "idle", !.receiver = "idle"]
<1>1. /\ k \in GoodConns /\ k.quota = 0 /\ k.receiver = "done"
      /\ Becomes(c, m)
      /\ wire' = [wire EXCEPT ![c] = EmptyBag] /\ wire \in [Peers -> BagsOver(Infos)]
      /\ IF k.bitfield_received_ THEN RemovePeerBitfield(k.bitfield_)
                                 ELSE UNCHANGED pmVars
  BY FreeFacts DEF RunEnds
<1>2. k \in ConnRecords /\ k.bitfield_ \in SUBSET PieceIds
  BY <1>1, ConnFields
<1>3. m \in GoodConns /\ \A p : ~ Owns(m, p)
  <2> HIDE DEF k
  <2>1. m \in ConnRecords
    BY <1>2 DEF ConnRecords, SenderAt, ReceiverAt
  <2>2. /\ m.sender = "idle" /\ m.receiver = "idle"
        /\ m.pending_requests_ = k.pending_requests_ /\ m.quota = k.quota
    BY <1>2 DEF ConnRecords
  <2> HIDE DEF m
  <2>3. ~ (k.quota > 0)
    BY <1>1
  <2> QED BY <1>1, <2>1, <2>2, <2>3 DEF GoodConns, Owns
<1>4. wire' \in [Peers -> BagsOver(Infos)]
  BY <1>1, EmptyBagFacts
<1> HIDE DEF m
<1>5. CASE ~ k.bitfield_received_
  BY <1>1, <1>3, <1>4, <1>5, QuietStep
<1>6. CASE k.bitfield_received_
  <2>1. RemovePeerBitfield(k.bitfield_)
    BY <1>1, <1>6
  <2>2. \A p \in k.bitfield_ : Owns(k, p)
    BY <1>1, <1>6 DEF Owns
  <2>3. \A p \in k.bitfield_ : /\ piece_avail_[p] > 0
                               /\ (piece_avail_[p] - 1) % UINT16 = piece_avail_[p] - 1
    BY <1>2, <2>2, OwnedAvailable
  <2>4. CallsNext
    BY <1>2, <2>1, <2>3 DEF CallsNext, Remove
  <2>5. \A p \in PieceIds :
          piece_avail_'[p] = IF p \in k.bitfield_ THEN piece_avail_[p] - 1 ELSE piece_avail_[p]
    <3>1. \A p \in PieceIds :
            piece_avail_'[p] = IF p \in k.bitfield_ THEN (piece_avail_[p] + (-1)) % UINT16
                                                    ELSE piece_avail_[p]
      BY <2>1 DEF RemovePeerBitfield, UpdatePiecesAvailability
    <3>2. \A p \in PieceIds : piece_avail_[p] + (-1) = piece_avail_[p] - 1
      BY SizesAssumption DEF SwarmInv, PmInv, PmTypeOK
    <3> QED BY <2>3, <3>1, <3>2
  <2>6. \A p \in PieceIds :
          \/ /\ piece_avail_'[p] = piece_avail_[p]
             /\ Owns(m, p) => Owns(k, p)
          \/ /\ piece_avail_'[p] = piece_avail_[p] - 1
             /\ Owns(k, p) /\ ~ Owns(m, p)
    BY <1>3, <2>2, <2>5
  <2> QED BY <1>1, <1>3, <1>4, <2>4, <2>6, CallStep
<1> QED BY <1>5, <1>6

\* Entries grow older and stay as many.
LEMMA AgedGood ==
  ASSUME NEW k \in GoodConns
  PROVE  Aged(k) \in GoodConns /\ \A p : Owns(Aged(k), p) <=> Owns(k, p)
<1> DEFINE B == k.pending_requests_
           older(e) == <<e[1], IF e[2] = Expired THEN Expired ELSE e[2] + 1>>
           pairs == {<<older(d[1]), d>> : d \in Copies(B)}
           X == Tally(pairs)
<1>1. Aged(k) = [k EXCEPT !.pending_requests_ = X]
  BY DEF Aged, Image
<1>2. /\ B \in BagsOver(Entries) /\ Size(B) \in Nat /\ k.quota \in Nat
      /\ Size(B) + k.quota <= MAX_BLOCKS_IN_FLIGHT
  BY ConnFields, LimitsAssumption
<1>3. ASSUME NEW e \in Entries PROVE older(e) \in Entries
  <2>1. e[1] \in Infos /\ e[2] \in 0 .. Expired /\ Expired \in Nat
    BY TimeoutAssumption DEF Entries, Expired
  <2>2. (IF e[2] = Expired THEN Expired ELSE e[2] + 1) \in 0 .. Expired
    BY <2>1
  <2> QED BY <2>1, <2>2 DEF Entries
<1> HIDE DEF B, older
<1>4. /\ \A x \in pairs : x[1] \in Entries /\ x[2] \in Copies(B)
      /\ \A x, y \in pairs : x[2] = y[2] => x = y
  BY <1>2, <1>3, CopyIn
<1> HIDE DEF pairs
<1>5. X \in BagsOver(Entries) /\ Size(X) <= Size(B)
  BY <1>2, <1>4, InfosFinite, ChangedFacts
<1> HIDE DEF X
<1>6. Size(X) + k.quota <= MAX_BLOCKS_IN_FLIGHT
  <2>1. Size(X) \in Nat
    BY <1>5, InfosFinite, SizeIsNat
  <2> QED BY <1>2, <1>5, <2>1, LimitsAssumption
<1> QED BY <1>1, <1>5, <1>6, Pending

LEMMA TickKept ==
  ASSUME SwarmInv, Tick
  PROVE  Kept
<1>1. CallsNext /\ piece_avail_' = piece_avail_
  BY DEF Tick, CallsNext, PmTick, orderVars
<1>2. PmInv' /\ endgame_requests_' \subseteq Infos
  BY <1>1, PmInvStep, EndgameStep DEF SwarmInv
<1>3. \A c \in Peers : /\ conn'[c] \in GoodConns
                       /\ \A p : Owns(conn'[c], p) <=> Owns(conn[c], p)
  BY AgedGood DEF SwarmInv, Tick
<1>4. conn' \in [Peers -> GoodConns] /\ wire' \in [Peers -> BagsOver(Infos)]
  BY <1>3 DEF Tick, SwarmInv
<1>5. AvailabilityCovered'
  <2>1. ASSUME NEW p \in PieceIds
        PROVE  Cardinality(Owners(p)') <= piece_avail_'[p]
    <3>1. Owners(p)' = {c \in Peers : Owns(conn'[c], p)}
      BY DEF Owners, Owns
    <3>2. Owners(p)' = Owners(p)
      BY <1>3, <3>1, OwnersFinite
    <3>3. Cardinality(Owners(p)) <= piece_avail_[p]
      BY DEF SwarmInv, AvailabilityCovered
    <3> QED BY <1>1, <3>2, <3>3
  <2> QED BY <2>1 DEF AvailabilityCovered
<1> QED BY <1>1, <1>2, <1>4, <1>5 DEF SwarmInv, Kept
-----------------------------------------------------------------------------
(* The theorems *)

\* Every step of every coroutine keeps the invariant, and is for PieceManager a
\* call that PieceManagerCalls allows, or none.

LEMMA SwarmStep == SwarmInv /\ [Next]_vars => Kept
<1> SUFFICES ASSUME SwarmInv, [Next]_vars PROVE Kept
  OBVIOUS
<1>1. ASSUME NEW c \in Peers, Coroutine(c) PROVE Kept
  BY <1>1, ConnectKept, EarlyKept, ReplaceKept, InterestedSentKept,
     SenderWakesKept, LoadBlockKept, LoadReturnsKept, SentKept,
     EndgameWakesKept, CancelsSentKept, ReceiveEndsKept, SendFailsKept,
     RunEndsKept
     DEF Coroutine, SendCancelled
<1>2. ASSUME NEW c \in Peers, Message(c) PROVE Kept
  BY <1>2, ReceiveChokeKept, ReceiveHaveKept, ReceiveBitfieldKept,
     ReceivePieceKept, ReceiveIgnoredKept, PeersAssumption
     DEF Message
<1>3. ASSUME NEW c \in Peers, Failure(c) PROVE Kept
  BY <1>3, EarlyKept, SendFailsKept, ReceiveEndsKept DEF Failure
<1>4. CASE UNCHANGED vars
  <2>1. UNCHANGED <<conn, wire>> /\ UNCHANGED pmVars
    BY <1>4 DEF vars
  <2>2. [CallsNext]_pmVars
    BY <2>1
  <2>3. PmInv' /\ endgame_requests_' \subseteq Infos
    BY <2>2, PmInvStep, EndgameStep DEF SwarmInv
  <2>4. piece_avail_' = piece_avail_
    BY <2>1 DEF pmVars
  <2>5. AvailabilityCovered'
    BY <2>1, <2>4 DEF SwarmInv, AvailabilityCovered, Owners
  <2> QED BY <2>1, <2>2, <2>3, <2>5 DEF SwarmInv, Kept
<1> QED BY <1>1, <1>2, <1>3, <1>4, TickKept DEF Next

LEMMA SwarmInvAlways == Spec => []SwarmInv
<1>1. SwarmInv /\ [Next]_vars => SwarmInv'
  BY SwarmStep DEF Kept
<1> QED BY <1>1, SwarmInvInit, PTL DEF Spec

\* The members of every connection keep their types, whatever the peers send
\* and however the coroutines interleave: a receiver runs only beside a sender
\* that run has started.
THEOREM SwarmTypeCorrect == Spec => []TypeOK
<1>1. SwarmInv => TypeOK
  <2> SUFFICES ASSUME SwarmInv, NEW c \in Peers
               PROVE  LET k == conn[c]
                      IN /\ k \in [state_                    : PeerStates,
                                   retries_left_             : 0 .. MAX_RETRIES,
                                   peer_choking_             : BOOLEAN,
                                   was_connected_            : BOOLEAN,
                                   bitfield_received_        : BOOLEAN,
                                   bitfield_                 : SUBSET PieceIds,
                                   pending_requests_         : {k.pending_requests_},
                                   endgame_remaining_blocks_ : {k.endgame_remaining_blocks_},
                                   outbox                    : {k.outbox},
                                   quota                     : 0 .. MAX_BLOCKS_PER_REQUEST,
                                   is_reconnecting           : BOOLEAN,
                                   sender                    : SenderAt,
                                   receiver                  : ReceiverAt]
                         /\ \A e \in BagToSet(k.pending_requests_) : e[2] \in 0 .. Expired
                         /\ k.receiver # "idle" =>
                              k.sender \notin {"idle", "connecting", "connected", "interested"}
                         /\ k.quota > 0 => k.sender = "loading"
    BY DEF TypeOK
  <2>1. conn[c] \in GoodConns
    BY DEF SwarmInv
  <2>2. conn[c] \in ConnRecords
    BY <2>1, ConnFields
  <2>3. \A e \in BagToSet(conn[c].pending_requests_) : e[2] \in 0 .. Expired
    <3>1. conn[c].pending_requests_ \in BagsOver(Entries)
      BY <2>1, ConnFields
    <3>2. BagToSet(conn[c].pending_requests_) \subseteq Entries
      BY <3>1, BagsOverIs DEF BagOver, BagToSet
    <3> QED BY <3>2 DEF Entries
  <2>4. /\ conn[c].receiver # "idle" => conn[c].sender \notin Early
        /\ conn[c].quota > 0 => conn[c].sender = "loading"
    BY <2>1, ConnFields
  <2> QED BY <2>2, <2>3, <2>4 DEF ConnRecords, Early
<1> QED BY <1>1, SwarmInvAlways, PTL

\* pending_requests_ never holds more than MAX_BLOCKS_IN_FLIGHT entries: the
\* loops of load_block_requests and of its endgame twin stay in the array.
THEOREM InFlightAlwaysBounded == Spec => []InFlightBounded
<1>1. SwarmInv => InFlightBounded
  <2> SUFFICES ASSUME SwarmInv, NEW c \in Peers
               PROVE  in_flight(conn[c]) <= MAX_BLOCKS_IN_FLIGHT
    BY DEF InFlightBounded
  <2>1. conn[c] \in GoodConns
    BY DEF SwarmInv
  <2> QED BY <2>1, ConnFields, LimitsAssumption
<1> QED BY <1>1, SwarmInvAlways, PTL

\* What the runs will take back from piece_avail_ has been added to it, for any
\* number of peers that connect, fail, and send bitfields and haves again.
THEOREM AvailabilityAlwaysCovered == Spec => []AvailabilityCovered
<1>1. SwarmInv => AvailabilityCovered
  BY DEF SwarmInv
<1> QED BY <1>1, SwarmInvAlways, PTL

\* The connections together implement PieceManagerCalls.
THEOREM SwarmImplementsCalls == Spec => ImplementsCalls
<1>1. Init => PmInit
  BY DEF Init
<1>2. SwarmInv /\ [Next]_vars => [CallsNext]_pmVars
  BY SwarmStep DEF Kept
<1> QED BY <1>1, <1>2, SwarmInvAlways, PTL DEF Spec, ImplementsCalls, CallsSpec

\* So the whole download keeps the limit of the memory pools,
THEOREM SwarmPoolNeverExhausted == Spec => []PoolNeverExhausted
BY SwarmImplementsCalls, PoolNeverExhaustedAlways, PTL DEF ImplementsCalls

\* enters the endgame with the list of exactly the blocks that are missing,
THEOREM SwarmEndgameListsMissing == Spec => EndgameListsMissing
BY SwarmImplementsCalls, EndgameAlwaysListsMissing, PTL DEF ImplementsCalls

\* holds every completed piece in the file, byte for byte,
THEOREM SwarmFileHoldsPieces ==
  ASSUME TORRENT_SIZE <= UINT32
  PROVE  Spec => []FileHoldsPieces
BY SwarmImplementsCalls, FileAlwaysHoldsPieces, PTL DEF ImplementsCalls

\* and is a VerifiedDownload.
THEOREM SwarmRefinesDownload ==
  ASSUME TORRENT_SIZE <= UINT32
  PROVE  Spec => ImplementsVerifiedDownload
BY SwarmImplementsCalls, ManagerRefinesDownload, PTL DEF ImplementsCalls
-----------------------------------------------------------------------------
(* SwarmHonest: what its steps do to PieceManager *)

\* The buffers hold the bytes of the torrent, and in the endgame every piece
\* that is missing is under way.
HonestPieces ==
  /\ \A p \in requested_ids : \A b \in BlocksOf(p) :
       requested_pieces_[p].piece_data_[b] \in {Good, NoData}
  /\ endgame_ => Incomplete \subseteq requested_ids

\* What a step of an honest swarm does to PieceManager: the list of the
\* endgame stays, and no block that has been received is lost again.
Onward ==
  /\ HonestPieces'
  /\ endgame_ => endgame_' /\ endgame_requests_' = endgame_requests_
  /\ \A p \in PieceIds : \A b \in BlocksOf(p) : Missing(p, b)' => Missing(p, b)

LEMMA QuietOnward ==
  ASSUME HonestPieces, UNCHANGED <<requested_pieces_, diskVars, endgameVars>>
  PROVE  Onward
BY DEF HonestPieces, Onward, Missing, IsBlockReceived, Incomplete, requested_ids,
       diskVars, endgameVars, is_block_received

\* The pieces under way keep their blocks, and new ones have none.
LEMMA SameBlocks ==
  ASSUME HonestPieces, UNCHANGED <<diskVars, endgameVars>>, PmInv,
         requested_ids \subseteq requested_ids', requested_ids' \subseteq PieceIds,
         \A p \in requested_ids :
           /\ requested_pieces_'[p].piece_data_ = requested_pieces_[p].piece_data_
           /\ requested_pieces_'[p].blocks_left_ = requested_pieces_[p].blocks_left_
           /\ requested_pieces_'[p].block_pos_in_rem_ = requested_pieces_[p].block_pos_in_rem_,
         \A p \in requested_ids' \ requested_ids : \A b \in BlocksOf(p) :
           requested_pieces_'[p].piece_data_[b] = NoData
  PROVE  Onward
<1>1. HonestPieces'
  <2>1. ASSUME NEW p \in requested_ids', NEW b \in BlocksOf(p)
        PROVE  requested_pieces_'[p].piece_data_[b] \in {Good, NoData}
    BY DEF HonestPieces
  <2>2. endgame_' => Incomplete' \subseteq requested_ids'
    BY DEF HonestPieces, Incomplete, diskVars, endgameVars
  <2> QED BY <2>1, <2>2 DEF HonestPieces
<1>2. ASSUME NEW p \in PieceIds, NEW b \in BlocksOf(p), Missing(p, b)'
      PROVE  Missing(p, b)
  BY <1>2 DEF Missing, IsBlockReceived, is_block_received, diskVars
<1> QED BY <1>1, <1>2 DEF Onward, endgameVars

\* Every block of a new piece is to be asked for.
LEMMA NewPieceFacts ==
  ASSUME NEW size \in Nat \ {0}, NEW c \in BlockRange(size)
  PROVE  NewPiece(size).piece_data_[c] = NoData /\ Requestable(NewPiece(size), c)
<1> DEFINE pc == NewPiece(size)
           n == ceil_div(size, BLOCK_SIZE)
<1>1. n \in Nat \ {0} /\ c \in 0 .. n - 1
  BY CeilDivPositive, BlockSizeAssumption DEF BlockRange
<1> HIDE DEF n
<1>2. /\ pc.piece_data_[c] = NoData /\ pc.request_age_[c] = Unrequested
      /\ pc.block_pos_in_rem_[c] = c /\ pc.blocks_left_ = n
  BY <1>1 DEF NewPiece, n
<1> HIDE DEF pc
<1>3. ~ is_block_received(pc, c) /\ ~ is_block_requested(pc, c)
  BY <1>1, <1>2 DEF is_block_received, is_block_requested
<1> QED BY <1>2, <1>3 DEF Requestable, pc

\* A tick makes requests older and loses no block.
LEMMA TickOnward ==
  ASSUME PmInv, HonestPieces, PmTick
  PROVE  Onward
<1>1. /\ requested_pieces_' =
           [p \in requested_ids |-> Older(requested_pieces_[p])]
      /\ UNCHANGED <<diskVars, endgameVars>>
  BY DEF PmTick
<1>2. requested_ids' = requested_ids /\ requested_ids \subseteq PieceIds
  BY <1>1, PmFacts DEF requested_ids
<1>3. ASSUME NEW p \in requested_ids
      PROVE  /\ requested_pieces_'[p].piece_data_ = requested_pieces_[p].piece_data_
             /\ requested_pieces_'[p].blocks_left_ = requested_pieces_[p].blocks_left_
             /\ requested_pieces_'[p].block_pos_in_rem_ = requested_pieces_[p].block_pos_in_rem_
  <2>1. requested_pieces_'[p] = Older(requested_pieces_[p])
    BY <1>1
  <2> QED BY <2>1, PmFacts, OlderCorrect
<1> QED BY <1>1, <1>2, <1>3, SameBlocks

\* Marking a block as requested changes nothing that has been received.
LEMMA MarkedFields ==
  ASSUME NEW size, NEW D, NEW pc \in PieceOfSize(size, D), NEW b
  PROVE  /\ MarkRequested(pc, b).piece_data_ = pc.piece_data_
         /\ MarkRequested(pc, b).blocks_left_ = pc.blocks_left_
         /\ MarkRequested(pc, b).block_pos_in_rem_ = pc.block_pos_in_rem_
BY DEF MarkRequested, PieceOfSize

\* request_next_block loses no block, and when it starts the endgame every
\* piece that is missing is under way.
LEMMA RequestOnward ==
  ASSUME PmInv, HonestPieces, NEW bitfield \in SUBSET PieceIds, NEW result,
         RequestNextBlock(bitfield, result)
  PROVE  Onward
<1>1. CASE completed /\ UNCHANGED pmVars
  <2>1. UNCHANGED <<requested_pieces_, diskVars, endgameVars>>
    BY <1>1 DEF pmVars, diskVars, endgameVars
  <2> QED BY <2>1, QuietOnward
<1>2. ASSUME NEW order \in Orders, NEW i \in 1 .. pieces_cnt_,
             ReturnBlock(order, bitfield, i, result), UNCHANGED diskVars
      PROVE  Onward
  <2> DEFINE p == order[i]
             old == Emplaced(p)[p]
             b == NextBlock(old)
  <2>1. IsOrder(order)
    BY DEF Orders, AllOrders, PmInv, EveryPieceOrdered
  <2>2. p \in PieceIds /\ cur_piece_size(p) \in Nat \ {0}
    BY <2>1, Sizes DEF IsOrder
  <2>3. /\ Yields(p, bitfield)
        /\ requested_pieces_' = [Emplaced(p) EXCEPT ![p] = MarkRequested(@, b)]
        /\ UNCHANGED endgameVars
    BY <1>2 DEF ReturnBlock
  <2> HIDE DEF p
  <2>4. /\ DOMAIN Emplaced(p) = requested_ids \cup {p}
        /\ \A q \in requested_ids : Emplaced(p)[q] = requested_pieces_[q]
        /\ p \notin requested_ids => old = NewPiece(cur_piece_size(p))
    BY DEF Emplaced
  <2>5. old \in PieceOfSize(cur_piece_size(p), Payload) /\ WellFormed(old)
    BY <2>2, <2>4, PmFacts, NewPieceWellFormed
  <2>6. HasNextBlock(old)
    <3>1. CASE p \in requested_ids
      BY <2>3, <2>4, <3>1 DEF Yields
    <3>2. CASE p \notin requested_ids
      <4>1. 0 \in BlockRange(cur_piece_size(p))
        BY <2>2, CeilDivPositive, BlockSizeAssumption DEF BlockRange
      <4>2. Requestable(old, 0)
        BY <2>2, <2>4, <3>2, <4>1, NewPieceFacts
      <4> QED BY <2>2, <2>5, <4>1, <4>2, NextBlockCorrect DEF WellFormed
    <3> QED BY <3>1, <3>2
  <2>7. b \in BlockRange(cur_piece_size(p))
    BY <2>2, <2>5, <2>6, NextBlockCorrect DEF WellFormed
  <2> HIDE DEF old, b
  <2> DEFINE new == MarkRequested(old, b)
  <2>8. /\ new.piece_data_ = old.piece_data_
        /\ new.blocks_left_ = old.blocks_left_
        /\ new.block_pos_in_rem_ = old.block_pos_in_rem_
    BY <2>5, MarkedFields
  <2>9. /\ requested_ids' = requested_ids \cup {p}
        /\ requested_pieces_'[p] = new
        /\ \A q \in requested_ids : q # p => requested_pieces_'[q] = requested_pieces_[q]
    BY <2>3, <2>4 DEF requested_ids, old
  <2> HIDE DEF new
  <2>10. p \notin requested_ids => \A c \in BlocksOf(p) : old.piece_data_[c] = NoData
    BY <2>2, <2>4, NewPieceFacts DEF BlocksOf
  <2>11. p \in requested_ids => old = requested_pieces_[p]
    BY <2>4 DEF old
  <2>12. requested_ids' \subseteq PieceIds
    BY <2>2, <2>9, PmFacts
  <2>13. \A q \in requested_ids :
           /\ requested_pieces_'[q].piece_data_ = requested_pieces_[q].piece_data_
           /\ requested_pieces_'[q].blocks_left_ = requested_pieces_[q].blocks_left_
           /\ requested_pieces_'[q].block_pos_in_rem_ = requested_pieces_[q].block_pos_in_rem_
    BY <2>8, <2>9, <2>11
  <2>14. \A q \in requested_ids' \ requested_ids : \A c \in BlocksOf(q) :
           requested_pieces_'[q].piece_data_[c] = NoData
    BY <2>8, <2>9, <2>10
  <2>15. requested_ids \subseteq requested_ids'
    BY <2>9
  <2>16. UNCHANGED <<diskVars, endgameVars>>
    BY <1>2, <2>3
  <2> QED BY <2>12, <2>13, <2>14, <2>15, <2>16, SameBlocks
<1>3. ASSUME NEW order \in Orders, ReturnNothing(order, bitfield, result),
             UNCHANGED diskVars
      PROVE  Onward
  <2>1. requested_pieces_' = requested_pieces_
    BY <1>3 DEF ReturnNothing
  <2>2. CASE UNCHANGED endgameVars
    BY <1>3, <2>1, <2>2, QuietOnward
  <2>3. CASE EndgameStarts
    <3>1. requested_ids = Incomplete
      BY <2>3, PmFacts, FS_Subset DEF PmInv, LeftExact, EndgameStarts
    <3>2. UNCHANGED <<Incomplete, requested_ids>>
      BY <1>3, <2>1 DEF Incomplete, diskVars, requested_ids
    <3>3. HonestPieces'
      BY <2>1, <3>1, <3>2 DEF HonestPieces
    <3>4. ASSUME NEW p \in PieceIds, NEW b \in BlocksOf(p), Missing(p, b)'
          PROVE  Missing(p, b)
      BY <1>3, <2>1, <3>2, <3>4 DEF Missing, IsBlockReceived, is_block_received, diskVars
    <3> QED BY <2>3, <3>3, <3>4 DEF Onward, EndgameStarts
  <2> QED BY <1>3, <2>2, <2>3 DEF ReturnNothing
<1>4. CASE ~ completed
  <2>1. PICK order \in Orders :
          /\ \/ \E i \in 1 .. pieces_cnt_ :
                  ReturnBlock(order, bitfield, i, result)
             \/ ReturnNothing(order, bitfield, result)
          /\ UNCHANGED <<piece_avail_, diskVars>>
    BY <1>4 DEF RequestNextBlock
  <2>2. UNCHANGED diskVars
    BY <2>1
  <2> QED BY <1>2, <1>3, <2>1, <2>2
<1> QED BY <1>1, <1>4 DEF RequestNextBlock

\* A block of the torrent never makes a digest disagree, so a piece leaves
\* requested_pieces_ only when it is stored; the block is there afterwards.
LEMMA GoodBlockOnward ==
  ASSUME PmInv, HonestPieces, NEW p \in PieceIds, NEW b \in BlocksOf(p),
         PmReceiveBlock(p, Good, get_block_offset(b))
  PROVE  Onward /\ (endgame_ => ~ Missing(p, b)')
<1> DEFINE old == requested_pieces_[p]
           pc == ReceiveBlock(old, Good, get_block_offset(b))
           size == cur_piece_size(p)
<1>1. UNCHANGED endgameVars
  BY DEF PmReceiveBlock
<1>2. b \in Nat /\ get_block_index(get_block_offset(b)) = b
      /\ BlocksOf(p) = BlockRange(size)
  BY OffsetOfIndex DEF BlocksOf, BlockRange
<1>3. CASE p \notin requested_ids
  <2>1. UNCHANGED <<requested_pieces_, diskVars, endgameVars>>
    BY <1>1, <1>3 DEF PmReceiveBlock
  <2>2. endgame_ => piece_completed_[p]
    BY <1>3 DEF HonestPieces, Incomplete
  <2> QED BY <2>1, <2>2, QuietOnward DEF Missing, IsBlockReceived, diskVars
<1>4. CASE p \in requested_ids
  <2>1. ReceivePieceBlock(p, Good, get_block_offset(b))
    BY <1>4 DEF PmReceiveBlock
  <2>2. /\ old \in PieceOfSize(size, Payload) /\ WellFormed(old)
        /\ ~ is_complete(old) /\ size \in Nat \ {0}
    BY <1>4, PmFacts
  <2>3. Good \in Payload /\ NoData \notin Payload
    BY Sizes DEF Payload
  <2> HIDE DEF old, size
  <2>4. /\ pc \in PieceOfSize(size, Payload) /\ WellFormed(pc)
        /\ is_block_received(old, b) => pc = old
        /\ ~ is_block_received(old, b) =>
             /\ pc.piece_data_ = [old.piece_data_ EXCEPT ![b] = Good]
             /\ \A c \in BlockRange(size) :
                  is_block_received(pc, c) <=> is_block_received(old, c) \/ c = b
    BY <1>2, <2>2, <2>3, ReceiveBlockCorrect
  <2> HIDE DEF pc
  <2>5. /\ old.piece_data_ \in [BlockRange(size) -> Payload \cup {NoData}]
        /\ \A c \in BlockRange(size) : old.piece_data_[c] \in {Good, NoData}
    BY <1>2, <1>4, <2>2, PieceFacts DEF HonestPieces, old, size
  <2>6. \A c \in BlockRange(size) : pc.piece_data_[c] \in {Good, NoData}
    BY <1>2, <2>4, <2>5
  <2>7. \A c \in BlockRange(size) :
          is_block_received(pc, c) <=> is_block_received(old, c) \/ c = b
    BY <1>2, <2>4
  <2>8. CASE ~ is_complete(pc)
    <3>1. requested_pieces_' = [requested_pieces_ EXCEPT ![p] = pc]
          /\ UNCHANGED diskVars
      BY <2>1, <2>8 DEF ReceivePieceBlock, pc, old
    <3>2. /\ requested_ids' = requested_ids /\ requested_pieces_'[p] = pc
          /\ \A q \in requested_ids : q # p => requested_pieces_'[q] = requested_pieces_[q]
      BY <1>4, <3>1 DEF requested_ids
    <3>3. HonestPieces'
      <4>1. ASSUME NEW q \in requested_ids', NEW c \in BlocksOf(q)
            PROVE  requested_pieces_'[q].piece_data_[c] \in {Good, NoData}
        BY <1>2, <2>6, <3>2 DEF HonestPieces
      <4>2. Incomplete' = Incomplete
        BY <3>1 DEF Incomplete, diskVars
      <4> QED BY <1>1, <3>2, <4>1, <4>2 DEF HonestPieces, endgameVars
    <3>4. ASSUME NEW q \in PieceIds, NEW c \in BlocksOf(q), Missing(q, c)'
          PROVE  Missing(q, c)
      <4>1. c \in Nat /\ get_block_index(get_block_offset(c)) = c
        BY OffsetOfIndex DEF BlocksOf, BlockRange
      <4>2. ~ piece_completed_'[q] /\ piece_completed_' = piece_completed_
        BY <3>1, <3>4 DEF Missing, IsBlockReceived, diskVars
      <4>3. q \in requested_ids => ~ is_block_received(requested_pieces_'[q], c)
        BY <3>2, <3>4, <4>1 DEF Missing, IsBlockReceived, is_block_received
      <4>4. q \in requested_ids => ~ is_block_received(requested_pieces_[q], c)
        BY <1>2, <2>7, <3>2, <4>3 DEF old
      <4> QED BY <4>1, <4>2, <4>4 DEF Missing, IsBlockReceived
    <3>5. ~ Missing(p, b)'
      BY <1>2, <1>4, <2>7, <3>2 DEF Missing, IsBlockReceived, is_block_received
    <3> QED BY <1>1, <3>3, <3>4, <3>5 DEF Onward, endgameVars
  <2>9. CASE is_complete(pc)
    <3>1. HashMatches(p, pc)
      <4>1. ASSUME NEW c \in BlockRange(size) PROVE pc.piece_data_[c] = Good
        <5>1. Blocks(pc) = BlockRange(size) /\ pc.block_pos_in_rem_[c] \in BlockRange(size)
          BY <2>2, <2>4, PieceFacts
        <5>2. is_block_received(pc, c)
          BY <2>9, <5>1 DEF is_complete, is_block_received, BlockRange
        <5>3. pc.piece_data_[c] # NoData
          BY <2>4, <5>1, <5>2 DEF WellFormed, ReceivedFilled
        <5> QED BY <2>6, <5>3
      <4> QED BY <1>2, <4>1 DEF HashMatches
    <3>2. /\ requested_pieces_' = Erased(p)
          /\ piece_completed_' = [piece_completed_ EXCEPT ![p] = TRUE]
      BY <2>1, <2>9, <3>1 DEF ReceivePieceBlock, pc, old
    <3>3. /\ requested_ids' = requested_ids \ {p}
          /\ \A q \in requested_ids' : requested_pieces_'[q] = requested_pieces_[q]
      BY <3>2, ErasedFacts
    <3>4. piece_completed_ \in [PieceIds -> BOOLEAN]
      BY DEF PmInv, PmTypeOK
    <3>5. /\ piece_completed_'[p] = TRUE
          /\ \A q \in PieceIds : q # p => piece_completed_'[q] = piece_completed_[q]
      BY <3>2, <3>4
    <3>6. HonestPieces'
      <4>1. Incomplete' = Incomplete \ {p}
        BY <3>5 DEF Incomplete
      <4> QED BY <1>1, <3>3, <4>1 DEF HonestPieces, endgameVars
    <3>7. ASSUME NEW q \in PieceIds, NEW c \in BlocksOf(q), Missing(q, c)'
          PROVE  Missing(q, c)
      BY <3>3, <3>5, <3>7 DEF Missing, IsBlockReceived, is_block_received
    <3>8. ~ Missing(p, b)'
      BY <3>5 DEF Missing, IsBlockReceived
    <3> QED BY <1>1, <3>6, <3>7, <3>8 DEF Onward, endgameVars
  <2> QED BY <2>8, <2>9
<1> QED BY <1>3, <1>4
-----------------------------------------------------------------------------
(* What a connection remembers *)

\* The places of the loop of endgame_send_requests.
Looping == {"endgame_wait", "cancelling", "endgame_sending"}

\* Request r is still to be sent, or in flight.
Remembers(k, r) ==
  \/ BagIn(r, k.endgame_remaining_blocks_)
  \/ \E e \in BagToSet(k.pending_requests_) : e[1] = r

\* A connection that is not choked has the bitfield of its peer.
HonestFlags(c, k) ==
  /\ k.bitfield_received_ => k.bitfield_ = Holds[c]
  /\ k.peer_choking_ \/ k.bitfield_received_

\* The inductive invariant.
HonestInv ==
  /\ SwarmInv
  /\ HonestPieces
  /\ \A c \in Peers : /\ HonestFlags(c, conn[c])
                      /\ conn[c].sender \in Looping => endgame_
  /\ EndgameKeepsBlocks

\* What peer c has and the torrent lacks.
Lacking(c) ==
  {r \in endgame_requests_ : r[1] \in Holds[c] /\ ~ IsBlockReceived(r[1], r[2])}

\* EndgameKeepsBlocks, in these words.
LEMMA KeepsIs ==
  EndgameKeepsBlocks <=>
    \A c \in Peers : conn[c].sender \in Looping =>
      \A r \in Lacking(c) : Remembers(conn[c], r)
BY DEF EndgameKeepsBlocks, Looping, Lacking, Remembers

\* Once the endgame is on, there is less and less that is lacking.
LEMMA LackingFewer ==
  ASSUME endgame_requests_ \subseteq Infos, endgame_, Onward, NEW c \in Peers
  PROVE  Lacking(c)' \subseteq Lacking(c)
<1> SUFFICES ASSUME NEW r \in Lacking(c)' PROVE r \in Lacking(c)
  OBVIOUS
<1>1. /\ r \in endgame_requests_ /\ r[1] \in Holds[c]
      /\ ~ IsBlockReceived(r[1], r[2])'
  BY DEF Lacking, Onward
<1>2. PICK p \in PieceIds : \E b \in BlocksOf(p) :
        r[1] = p /\ r[2] = get_block_offset(b)
  BY <1>1, InfoIs
<1>3. PICK b \in BlocksOf(p) : r[2] = get_block_offset(b)
  BY <1>2
<1>4. Missing(p, b)'
  BY <1>1, <1>2, <1>3 DEF Missing
<1>5. Missing(p, b)
  BY <1>4 DEF Onward
<1> QED BY <1>1, <1>2, <1>3, <1>5 DEF Missing, Lacking

\* A step that changes one connection only.
LEMMA HonestStep ==
  ASSUME HonestInv, SwarmInv', Onward, NEW c \in Peers, NEW m, Becomes(c, m),
         HonestFlags(c, m),
         m.sender \in Looping =>
           endgame_ /\ \A r \in Lacking(c)' : Remembers(m, r)
  PROVE  HonestInv'
<1>1. \A d \in Peers : conn'[d] = IF d = c THEN m ELSE conn[d]
  BY DEF HonestInv, SwarmInv, Becomes
<1>2. \A d \in Peers : /\ HonestFlags(d, conn'[d])
                       /\ conn'[d].sender \in Looping => endgame_'
  BY <1>1 DEF HonestInv, Onward
<1>3. EndgameKeepsBlocks'
  <2> SUFFICES ASSUME NEW d \in Peers, conn'[d].sender \in Looping,
                      NEW r \in Lacking(d)'
               PROVE  Remembers(conn'[d], r)
    BY KeepsIs DEF EndgameKeepsBlocks, Looping, Lacking, Remembers
  <2>1. CASE d = c
    BY <1>1, <2>1
  <2>2. CASE d # c
    <3>1. conn'[d] = conn[d] /\ endgame_ /\ endgame_requests_ \subseteq Infos
      BY <1>1, <2>2 DEF HonestInv, SwarmInv
    <3>2. r \in Lacking(d)
      BY <3>1, LackingFewer
    <3> QED BY <3>1, <3>2, KeepsIs DEF HonestInv
  <2> QED BY <2>1, <2>2
<1> QED BY <1>2, <1>3 DEF HonestInv, Onward, HonestFlags

\* The step of a connection whose lists stay, or whose loop ends.
LEMMA ListsStay ==
  ASSUME HonestInv, SwarmInv', Onward, NEW c \in Peers, NEW m, Becomes(c, m),
         HonestFlags(c, m),
         m.sender \in Looping =>
           /\ conn[c].sender \in Looping
           /\ m.endgame_remaining_blocks_ = conn[c].endgame_remaining_blocks_
           /\ m.pending_requests_ = conn[c].pending_requests_
  PROVE  HonestInv'
<1>1. ASSUME m.sender \in Looping
      PROVE  endgame_ /\ \A r \in Lacking(c)' : Remembers(m, r)
  <2>1. endgame_ /\ endgame_requests_ \subseteq Infos
    BY <1>1 DEF HonestInv, SwarmInv
  <2>2. Lacking(c)' \subseteq Lacking(c)
    BY <2>1, LackingFewer
  <2>3. \A r \in Lacking(c) : Remembers(conn[c], r)
    BY <1>1, KeepsIs DEF HonestInv
  <2> QED BY <1>1, <2>1, <2>2, <2>3 DEF Remembers
<1> QED BY <1>1, HonestStep
-----------------------------------------------------------------------------
(* The lists of the endgame *)

\* An element of a bag has a copy in it.
LEMMA CopyThere ==
  ASSUME NEW S, NEW B \in BagsOver(S), NEW e \in DOMAIN B
  PROVE  <<e, 1>> \in Copies(B)
<1>1. B[e] \in Nat \ {0}
  BY BagsOverIs DEF BagOver
<1>2. 1 \in 1 .. B[e]
  BY <1>1
<1> QED BY <1>2, CopyOf

\* A block for each entry.
LEMMA FirstsThere ==
  ASSUME NEW B \in BagsOver(Entries), NEW e \in DOMAIN B
  PROVE  e[1] \in DOMAIN Firsts(B)
<1> DEFINE pairs == {<<d[1][1], d>> : d \in Copies(B)}
           d == <<e, 1>>
<1>1. <<d[1][1], d>> \in pairs
  BY CopyThere
<1>2. d[1][1] = e[1]
  OBVIOUS
<1>3. DOMAIN Firsts(B) = {x[1] : x \in pairs}
  BY DEF Firsts, Tally
<1> HIDE DEF pairs, d
<1> QED BY <1>1, <1>2, <1>3

\* An entry for each block that is asked for.
LEMMA StampedThere ==
  ASSUME NEW B \in BagsOver(Infos), NEW r \in DOMAIN B
  PROVE  <<r, 0>> \in DOMAIN Stamped(B)
<1> DEFINE pairs == {<<<<d[1], 0>>, d>> : d \in Copies(B)}
           d == <<r, 1>>
<1>1. <<<<d[1], 0>>, d>> \in pairs
  BY CopyThere
<1>2. <<d[1], 0>> = <<r, 0>>
  OBVIOUS
<1>3. DOMAIN Stamped(B) = {x[1] : x \in pairs}
  BY DEF Stamped, Tally
<1> HIDE DEF pairs, d
<1> QED BY <1>1, <1>2, <1>3

\* A tick forgets no entry.
LEMMA AgedRemembers ==
  ASSUME NEW k \in GoodConns, NEW r, Remembers(k, r)
  PROVE  Remembers(Aged(k), r)
<1> DEFINE B == k.pending_requests_
           older(e) == <<e[1], IF e[2] = Expired THEN Expired ELSE e[2] + 1>>
           pairs == {<<older(d[1]), d>> : d \in Copies(B)}
           X == Tally(pairs)
<1>1. Aged(k) = [k EXCEPT !.pending_requests_ = X]
  BY DEF Aged, Image
<1>2. k \in ConnRecords /\ B \in BagsOver(Entries)
  BY ConnFields
<1>3. ASSUME NEW e \in DOMAIN B
      PROVE  older(e) \in DOMAIN X
  <2> DEFINE d == <<e, 1>>
  <2>1. <<older(d[1]), d>> \in pairs
    BY <1>2, <1>3, CopyThere
  <2>2. d[1] = e
    OBVIOUS
  <2>3. DOMAIN X = {x[1] : x \in pairs}
    BY DEF Tally
  <2> HIDE DEF pairs, d, older, X
  <2> QED BY <2>1, <2>2, <2>3
<1>4. \A e : older(e)[1] = e[1]
  OBVIOUS
<1> HIDE DEF older, pairs
<1>5. /\ Aged(k).pending_requests_ = X
      /\ Aged(k).endgame_remaining_blocks_ = k.endgame_remaining_blocks_
  BY <1>1, <1>2 DEF ConnRecords
<1> QED BY <1>3, <1>4, <1>5 DEF Remembers, BagToSet

\* endgame_refresh_pending_requests forgets only what has been received.
LEMMA RefreshRemembers ==
  ASSUME NEW k \in GoodConns, NEW r, Remembers(k, r),
         ~ IsBlockReceived(r[1], r[2])
  PROVE  Remembers(endgame_refresh_pending_requests(k), r)
<1> DEFINE E == k.endgame_remaining_blocks_
           P == k.pending_requests_
           missing == {x \in BagToSet(E) : ~ IsBlockReceived(x[1], x[2])}
           answered == {e \in BagToSet(P) : IsBlockReceived(e[1][1], e[1][2])}
           stale == {e \in BagToSet(P) :
                       ~ IsBlockReceived(e[1][1], e[1][2]) /\ ~ Fresh(e)}
           again == {e \in BagToSet(P) :
                       ~ IsBlockReceived(e[1][1], e[1][2]) /\ Fresh(e)}
           part(B, D) == [e \in D |-> B[e]]
           m == endgame_refresh_pending_requests(k)
<1>1. m = WithBags(k, part(E, missing) (+) Firsts(part(P, again)),
                   part(P, stale), Firsts(part(P, answered)))
  BY DEF endgame_refresh_pending_requests, Filter, Image, Firsts, WithBags
<1>2. /\ k \in ConnRecords
      /\ E \in BagsOver(Infos) /\ P \in BagsOver(Entries)
  BY ConnFields
<1> HIDE DEF m
<1>3. /\ m.endgame_remaining_blocks_ = part(E, missing) (+) Firsts(part(P, again))
      /\ m.pending_requests_ = part(P, stale)
  BY <1>1, <1>2 DEF WithBags, ConnRecords
<1>4. missing \in SUBSET BagToSet(E) /\ again \in SUBSET BagToSet(P)
  OBVIOUS
<1>5. part(E, missing) \in BagsOver(Infos) /\ part(P, again) \in BagsOver(Entries)
  <2> HIDE DEF missing, again, E, P
  <2> QED BY <1>2, <1>4, InfosFinite, RestrictedBag
<1>6. DOMAIN part(P, stale) = stale /\ DOMAIN part(E, missing) = missing
      /\ DOMAIN part(P, again) = again
  OBVIOUS
<1>7. (r \in BagToSet(E) => r \in missing)
      /\ \A e \in BagToSet(P) : e[1] = r => e \in stale \/ e \in again
  OBVIOUS
<1>8. r \in BagToSet(E) \/ \E e \in BagToSet(P) : e[1] = r
  BY DEF Remembers, BagIn
<1> HIDE DEF E, P, missing, stale, again, part
<1>9. Firsts(part(P, again)) \in BagsOver(Infos)
  BY <1>5, FirstsFacts
<1>10. DOMAIN m.endgame_remaining_blocks_ =
         missing \cup DOMAIN Firsts(part(P, again))
  BY <1>3, <1>5, <1>6, <1>9, InfosFinite, SumFacts
<1>11. CASE r \in missing
  BY <1>10, <1>11 DEF Remembers, BagIn, BagToSet, m
<1>12. CASE \E e \in stale : e[1] = r
  BY <1>3, <1>6, <1>12 DEF Remembers, BagIn, BagToSet, m
<1>13. CASE \E e \in again : e[1] = r
  <2>1. r \in DOMAIN Firsts(part(P, again))
    BY <1>5, <1>6, <1>13, FirstsThere
  <2> QED BY <1>10, <2>1 DEF Remembers, BagIn, BagToSet, m
<1> QED BY <1>7, <1>8, <1>11, <1>12, <1>13

\* endgame_load_block_requests moves blocks from one list to the other.
LEMMA LoadedRemembers ==
  ASSUME NEW k \in GoodConns, NEW r, Remembers(k, r), NEW m \in EndgameLoaded(k)
  PROVE  Remembers(m, r)
<1> DEFINE E == k.endgame_remaining_blocks_
           P == k.pending_requests_
<1>1. /\ k \in ConnRecords
      /\ E \in BagsOver(Infos) /\ P \in BagsOver(Entries)
  BY ConnFields
<1>2. PICK chosen \in SUBSET Copies(E) :
        m = WithBags(k, E (-) Tally(chosen),
                     P (+) Stamped(Tally(chosen)), Tally(chosen))
  BY DEF EndgameLoaded, Image, Stamped, WithBags
<1> DEFINE T == Tally(chosen)
<1>3. T \in BagsOver(Infos)
  <2>1. IsFiniteSet(chosen)
    BY <1>1, CopiesFinite, BagsOverIs, InfosFinite, FS_Subset
  <2>2. \A d \in chosen : d[1] \in Infos
    BY <1>1, CopyIn
  <2> QED BY <2>1, <2>2, TallyFacts, BagsOverIs
<1> HIDE DEF T, E, P
<1>4. /\ m.endgame_remaining_blocks_ = E (-) T
      /\ m.pending_requests_ = P (+) Stamped(T)
  BY <1>1, <1>2 DEF WithBags, ConnRecords, T, E, P
<1>5. DOMAIN (P (+) Stamped(T)) = DOMAIN P \cup DOMAIN Stamped(T)
  BY <1>1, <1>3, StampedFacts, InfosFinite, SumFacts
<1>6. CASE \E e \in DOMAIN P : e[1] = r
  BY <1>4, <1>5, <1>6 DEF Remembers, BagToSet
<1>7. CASE r \in DOMAIN T
  <2>1. <<r, 0>> \in DOMAIN m.pending_requests_
    BY <1>3, <1>4, <1>5, <1>7, StampedThere
  <2>2. <<r, 0>>[1] = r
    OBVIOUS
  <2> QED BY <2>1, <2>2 DEF Remembers, BagToSet
<1>8. CASE r \in DOMAIN E /\ r \notin DOMAIN T
  <2>1. E[r] \in Nat \ {0}
    BY <1>1, <1>8, BagsOverIs DEF BagOver
  <2>2. r \in DOMAIN (E (-) T)
    BY <1>8, <2>1 DEF (-)
  <2> QED BY <1>4, <2>2 DEF Remembers, BagIn, BagToSet
<1> QED BY <1>6, <1>7, <1>8 DEF Remembers, BagIn, BagToSet, E, P

\* An answer takes out an entry for the block that has arrived.
LEMMA AnsweredRemembers ==
  ASSUME NEW k \in GoodConns, NEW r, Remembers(k, r), NEW info, info # r,
         NEW n \in PieceAnswered(k, info)
  PROVE  Remembers(n, r)
<1>1. CASE n = k
  BY <1>1
<1>2. CASE n # k
  <2> DEFINE P == k.pending_requests_
  <2>1. PICK e \in BagToSet(P) :
          e[1] = info /\ n = [k EXCEPT !.pending_requests_ = P (-) SetToBag({e})]
    BY <1>2 DEF PieceAnswered
  <2>2. k \in ConnRecords /\ P \in BagsOver(Entries)
    BY ConnFields
  <2>3. /\ n.pending_requests_ = P (-) SetToBag({e})
        /\ n.endgame_remaining_blocks_ = k.endgame_remaining_blocks_
    BY <2>1, <2>2 DEF ConnRecords
  <2>4. ASSUME NEW x \in DOMAIN P, x[1] = r
        PROVE  x \in DOMAIN n.pending_requests_
    <3>1. P[x] \in Nat \ {0}
      BY <2>2, <2>4, BagsOverIs DEF BagOver
    <3>2. x \notin DOMAIN SetToBag({e})
      BY <2>1, <2>4 DEF SetToBag
    <3> HIDE DEF P
    <3>3. x \in DOMAIN (P (-) SetToBag({e}))
      BY <2>4, <3>1, <3>2 DEF (-)
    <3> QED BY <2>3, <3>3
  <2> QED BY <2>3, <2>4 DEF Remembers, BagIn, BagToSet
<1> QED BY <1>1, <1>2
-----------------------------------------------------------------------------
(* The steps of an honest swarm *)

\* What a connection that takes a step knows about its peer.
LEMMA HonestFacts ==
  ASSUME HonestInv, NEW c \in Peers
  PROVE  /\ conn[c] \in GoodConns /\ conn[c] \in ConnRecords
         /\ HonestFlags(c, conn[c])
         /\ conn[c].sender \in Looping =>
              endgame_ /\ \A r \in Lacking(c) : Remembers(conn[c], r)
BY ConnFields, KeepsIs DEF HonestInv, SwarmInv

\* Steps that leave PieceManager alone.
LEMMA PmStays ==
  ASSUME HonestInv, UNCHANGED pmVars
  PROVE  Onward /\ \A c \in Peers : Lacking(c)' = Lacking(c)
<1>1. UNCHANGED <<requested_pieces_, diskVars, endgameVars>>
  BY DEF pmVars, diskVars, endgameVars
<1>2. UNCHANGED <<endgame_requests_, piece_completed_, requested_pieces_>>
  BY DEF pmVars
<1>3. \A c \in Peers : Lacking(c)' = Lacking(c)
  BY <1>2 DEF Lacking, IsBlockReceived, requested_ids
<1> QED BY <1>1, <1>3, QuietOnward DEF HonestInv

\* What the connection makes of its own: it connects, waits, sends, or ends.
LEMMA PlaceHonest ==
  ASSUME HonestInv, SwarmInv', NEW c \in Peers,
         \/ Connect(c) \/ ConnectSucceeds(c) \/ Replace(c)
         \/ RunStarts(c) \/ InterestedSent(c)
         \/ LoadReturns(c) \/ RequestsSent(c) \/ EndgameRequestsSent(c)
         \/ ReceiveCancelled(c) \/ SendCancelled(c)
  PROVE  HonestInv'
<1> DEFINE k == conn[c]
<1>1. k \in ConnRecords /\ HonestFlags(c, k)
  BY HonestFacts
<1>2. UNCHANGED pmVars
  BY DEF Connect, ConnectSucceeds, Replace, RunStarts, InterestedSent,
         LoadReturns, RequestsSent, EndgameRequestsSent, ReceiveCancelled,
         SendCancelled, SendFails
<1>3. \E m : /\ Becomes(c, m)
             /\ HonestFlags(c, m)
             /\ m.sender \in Looping =>
                  /\ k.sender \in Looping
                  /\ m.endgame_remaining_blocks_ = k.endgame_remaining_blocks_
                  /\ m.pending_requests_ = k.pending_requests_
  <2> DEFINE Same(m) ==
        /\ m.bitfield_received_ = k.bitfield_received_
        /\ m.bitfield_ = k.bitfield_
        /\ m.peer_choking_ = k.peer_choking_
        /\ m.endgame_remaining_blocks_ = k.endgame_remaining_blocks_
        /\ m.pending_requests_ = k.pending_requests_
  <2>1. CASE Connect(c)
    <3> DEFINE m == [reset_state(k) EXCEPT !.retries_left_ = @ - 1,
                                           !.state_ = "CONNECTING",
                                           !.sender = "connecting"]
    <3>1. Becomes(c, m)
      BY <2>1 DEF Connect
    <3>2. ~ m.bitfield_received_ /\ m.peer_choking_ /\ m.sender = "connecting"
      BY <1>1 DEF ConnRecords, reset_state
    <3> HIDE DEF m
    <3> QED BY <3>1, <3>2 DEF HonestFlags, Looping
  <2>2. CASE ConnectSucceeds(c)
    <3> DEFINE m == [k EXCEPT !.state_ = "CONNECTED",
                            !.retries_left_ = MAX_RETRIES,
                            !.was_connected_ = TRUE,
                            !.sender = "connected"]
    <3>1. Becomes(c, m)
      BY <2>2 DEF ConnectSucceeds
    <3>2. Same(m) /\ m.sender \notin Looping
      BY <1>1 DEF ConnRecords, Looping
    <3> HIDE DEF m
    <3> QED BY <1>1, <3>1, <3>2 DEF HonestFlags
  <2>3. CASE RunStarts(c)
    <3> DEFINE m == [k EXCEPT !.sender = "interested", !.is_reconnecting = FALSE]
    <3>1. Becomes(c, m)
      BY <2>3 DEF RunStarts
    <3>2. Same(m) /\ m.sender \notin Looping
      BY <1>1 DEF ConnRecords, Looping
    <3> HIDE DEF m
    <3> QED BY <1>1, <3>1, <3>2 DEF HonestFlags
  <2>4. CASE InterestedSent(c)
    <3> DEFINE at == IF completed THEN <<"done", "done">> ELSE <<"wait", "receiving">>
               m  == [k EXCEPT !.state_ = "RUNNING", !.sender = at[1], !.receiver = at[2]]
    <3>1. Becomes(c, m) /\ at[1] \notin Looping
      BY <2>4 DEF InterestedSent, Looping
    <3> HIDE DEF at
    <3>2. Same(m) /\ m.sender = at[1]
      BY <1>1 DEF ConnRecords
    <3> HIDE DEF m
    <3> QED BY <1>1, <3>1, <3>2 DEF HonestFlags
  <2>5. CASE Replace(c)
    <3>1. Becomes(c, NewConnection)
      BY <2>5 DEF Replace
    <3>2. HonestFlags(c, NewConnection) /\ NewConnection.sender \notin Looping
      BY DEF NewConnection, HonestFlags, Looping
    <3> QED BY <3>1, <3>2
  <2>6. CASE LoadReturns(c)
    <3>1. \/ Becomes(c, LoopHead(k))
          \/ Becomes(c, Await(k, "sending"))
      BY <2>6 DEF LoadReturns
    <3>2. /\ Same(LoopHead(k)) /\ LoopHead(k).sender \notin Looping
          /\ Same(Await(k, "sending")) /\ Await(k, "sending").sender \notin Looping
      BY <1>1 DEF ConnRecords, LoopHead, Await, Continue, Looping
    <3> QED BY <1>1, <3>1, <3>2 DEF HonestFlags
  <2>7. CASE RequestsSent(c)
    <3> DEFINE m == LoopHead([k EXCEPT !.outbox = EmptyBag])
    <3>1. Becomes(c, m)
      BY <2>7 DEF RequestsSent
    <3>2. Same(m) /\ m.sender \notin Looping
      BY <1>1 DEF ConnRecords, Looping, LoopHead, Continue
    <3> HIDE DEF m
    <3> QED BY <1>1, <3>1, <3>2 DEF HonestFlags
  <2>8. CASE EndgameRequestsSent(c)
    <3> DEFINE m == EndgameHead([k EXCEPT !.outbox = EmptyBag])
    <3>1. Becomes(c, m) /\ k.sender \in Looping
      BY <2>8 DEF EndgameRequestsSent, Looping
    <3>2. Same(m)
      BY <1>1 DEF ConnRecords, EndgameHead
    <3> HIDE DEF m
    <3> QED BY <1>1, <3>1, <3>2 DEF HonestFlags
  <2>9. CASE ReceiveCancelled(c)
    <3> DEFINE m == [handle_failure(k, "aborted") EXCEPT !.receiver = "done"]
    <3>1. Becomes(c, m) /\ k.sender \notin Looping
      BY <2>9 DEF ReceiveCancelled, Looping
    <3>2. Same(m) /\ m.sender = k.sender
      BY <1>1 DEF ConnRecords, handle_failure
    <3> HIDE DEF m
    <3> QED BY <1>1, <3>1, <3>2 DEF HonestFlags
  <2>10. CASE SendCancelled(c)
    <3> DEFINE m == [handle_failure(k, "aborted") EXCEPT !.sender = "done"]
    <3>1. Becomes(c, m)
      BY <2>10 DEF SendCancelled, SendFails
    <3>2. Same(m) /\ m.sender \notin Looping
      BY <1>1 DEF ConnRecords, Looping, handle_failure
    <3> HIDE DEF m
    <3> QED BY <1>1, <3>1, <3>2 DEF HonestFlags
  <2> QED BY <2>1, <2>2, <2>3, <2>4, <2>5, <2>6, <2>7, <2>8, <2>9, <2>10
<1> QED BY <1>2, <1>3, PmStays, ListsStay

\* send_requests enters the loop with everything that the peer has of the list.
LEMMA SenderWakesHonest ==
  ASSUME HonestInv, SwarmInv', NEW c \in Peers, SenderWakes(c)
  PROVE  HonestInv'
<1> DEFINE k    == conn[c]
           list == endgame_remaining_blocks(k.bitfield_)
           kept == refresh_pending_requests(k)
           Same(m) == /\ m.bitfield_received_ = k.bitfield_received_
                      /\ m.bitfield_ = k.bitfield_
                      /\ m.peer_choking_ = k.peer_choking_
<1>1. k \in ConnRecords /\ HonestFlags(c, k)
  BY HonestFacts
<1>2. UNCHANGED pmVars
  BY DEF SenderWakes
<1>3. ASSUME NEW m, Becomes(c, m), Same(m), m.sender \notin Looping
      PROVE  HonestInv'
  <2>1. HonestFlags(c, m)
    BY <1>1, <1>3 DEF HonestFlags
  <2> HIDE DEF k
  <2> QED BY <1>2, <1>3, <2>1, PmStays, ListsStay
<1>4. CASE Becomes(c, LoopHead(k))
  <2> DEFINE m == LoopHead(k)
  <2>1. Same(m) /\ m.sender \notin Looping
    BY <1>1 DEF ConnRecords, LoopHead, Continue, Looping
  <2> QED BY <1>3, <1>4, <2>1
<1>5. CASE Becomes(c, [k EXCEPT !.sender = "done",
                       !.endgame_remaining_blocks_ =
                         IF k.receiver = "done" THEN @ ELSE EmptyBag])
  <2> DEFINE m == [k EXCEPT !.sender = "done",
                   !.endgame_remaining_blocks_ =
                     IF k.receiver = "done" THEN @ ELSE EmptyBag]
  <2>1. Same(m) /\ m.sender \notin Looping
    BY <1>1 DEF ConnRecords, Looping
  <2>2. Becomes(c, m)
    BY <1>5
  <2> HIDE DEF m
  <2> QED BY <1>3, <2>1, <2>2
<1>6. CASE Becomes(c, [kept EXCEPT !.quota = num_blocks(kept),
                                   !.outbox = EmptyBag, !.sender = "loading"])
  <2> DEFINE n == num_blocks(kept)
             m == [kept EXCEPT !.quota = n, !.outbox = EmptyBag,
                               !.sender = "loading"]
  <2>1. Becomes(c, m)
    BY <1>6
  <2> HIDE DEF n
  <2>2. Same(m) /\ m.sender \notin Looping
    BY <1>1 DEF ConnRecords, Looping, refresh_pending_requests
  <2> HIDE DEF m
  <2> QED BY <1>3, <2>1, <2>2
<1>7. CASE /\ ~ k.peer_choking_ /\ is_endgame
           /\ Becomes(c, EndgameHead([k EXCEPT
                !.endgame_remaining_blocks_ = SetToBag(list)]))
  <2> DEFINE m == EndgameHead([k EXCEPT !.endgame_remaining_blocks_ = SetToBag(list)])
  <2>1. endgame_ /\ k.bitfield_ = Holds[c]
    BY <1>1, <1>7 DEF is_endgame, HonestFlags
  <2>2. Same(m) /\ m.endgame_remaining_blocks_ = SetToBag(list)
    BY <1>1 DEF ConnRecords, EndgameHead
  <2>3. ASSUME NEW r \in Lacking(c)' PROVE Remembers(m, r)
    <3>1. r \in Lacking(c)
      BY <1>2, <2>3, PmStays
    <3>2. r \in list
      BY <2>1, <3>1 DEF Lacking, endgame_remaining_blocks
    <3>3. r \in DOMAIN SetToBag(list)
      BY <3>2 DEF SetToBag
    <3> HIDE DEF m, list
    <3> QED BY <2>2, <3>3 DEF Remembers, BagIn, BagToSet
  <2>4. Becomes(c, m) /\ HonestFlags(c, m)
    BY <1>1, <1>7, <2>2 DEF HonestFlags
  <2> HIDE DEF m
  <2> QED BY <1>2, <2>1, <2>3, <2>4, PmStays, HonestStep
<1> QED BY <1>4, <1>5, <1>6, <1>7 DEF SenderWakes

\* load_block_requests runs outside the loop of the endgame.
LEMMA LoadBlockHonest ==
  ASSUME HonestInv, SwarmInv', NEW c \in Peers, LoadBlock(c)
  PROVE  HonestInv'
<1> DEFINE k == conn[c]
<1>1. k \in ConnRecords /\ HonestFlags(c, k) /\ k.bitfield_ \in SUBSET PieceIds
  BY HonestFacts, ConnFields
<1>2. PICK result :
        /\ RequestNextBlock(k.bitfield_, result)
        /\ Becomes(c, IF result = NoBlock THEN [k EXCEPT !.quota = 0]
                      ELSE [Requested(k, result) EXCEPT !.quota = @ - 1])
  BY DEF LoadBlock
<1>3. Onward
  BY <1>1, <1>2, RequestOnward DEF HonestInv, SwarmInv
<1> DEFINE m == IF result = NoBlock THEN [k EXCEPT !.quota = 0]
                ELSE [Requested(k, result) EXCEPT !.quota = @ - 1]
<1>4. Becomes(c, m) /\ k.sender = "loading"
  BY <1>2 DEF LoadBlock
<1>5. /\ m.bitfield_received_ = k.bitfield_received_ /\ m.bitfield_ = k.bitfield_
      /\ m.peer_choking_ = k.peer_choking_ /\ m.sender = k.sender
  BY <1>1 DEF ConnRecords, Requested
<1> HIDE DEF m
<1>6. HonestFlags(c, m) /\ m.sender \notin Looping
  BY <1>1, <1>4, <1>5 DEF HonestFlags, Looping
<1> QED BY <1>3, <1>4, <1>6, ListsStay

\* The lists that endgame_load_block_requests leaves, wherever the sender goes.
LEMMA LoadEndgameHonest ==
  ASSUME HonestInv, SwarmInv', UNCHANGED pmVars, NEW c \in Peers,
         endgame_, NEW k \in GoodConns, k.quota = 0, HonestFlags(c, k),
         \A r \in Lacking(c) : Remembers(k, r), LoadEndgame(c, k)
  PROVE  HonestInv'
<1>1. PICK loaded \in EndgameLoaded(k) :
        Becomes(c, EndgameHead(loaded)) \/ Becomes(c, Await(loaded, "endgame_sending"))
  BY DEF LoadEndgame
<1>2. loaded \in ConnRecords
  BY EndgameLoadedGood, ConnFields
<1>3. /\ loaded.bitfield_received_ = k.bitfield_received_
      /\ loaded.bitfield_ = k.bitfield_ /\ loaded.peer_choking_ = k.peer_choking_
  <2>1. PICK left, flying, sent : loaded = WithBags(k, left, flying, sent)
    BY DEF EndgameLoaded, WithBags
  <2> QED BY <2>1, ConnFields DEF WithBags, ConnRecords
<1>4. ASSUME NEW at, Becomes(c, [loaded EXCEPT !.sender = at])
      PROVE  HonestInv'
  <2> DEFINE m == [loaded EXCEPT !.sender = at]
  <2>1. /\ m.bitfield_received_ = k.bitfield_received_
        /\ m.bitfield_ = k.bitfield_ /\ m.peer_choking_ = k.peer_choking_
        /\ m.endgame_remaining_blocks_ = loaded.endgame_remaining_blocks_
        /\ m.pending_requests_ = loaded.pending_requests_
    BY <1>2, <1>3 DEF ConnRecords
  <2>2. Becomes(c, m)
    BY <1>4
  <2> HIDE DEF m
  <2>3. ASSUME NEW r \in Lacking(c)' PROVE Remembers(m, r)
    <3>1. r \in Lacking(c)
      BY <2>3, PmStays
    <3>2. Remembers(loaded, r)
      BY <3>1, LoadedRemembers
    <3> QED BY <2>1, <3>2 DEF Remembers
  <2>4. HonestFlags(c, m)
    BY <2>1 DEF HonestFlags
  <2> QED BY <2>2, <2>3, <2>4, PmStays, HonestStep
<1> QED BY <1>1, <1>4 DEF EndgameHead, Await

\* Its refresh and its load keep what is lacking on one list or the other.
LEMMA EndgameWakesHonest ==
  ASSUME HonestInv, SwarmInv', NEW c \in Peers, EndgameWakes(c)
  PROVE  HonestInv'
<1> DEFINE k    == conn[c]
           kept == endgame_refresh_pending_requests(k)
<1>1. /\ k \in GoodConns /\ k \in ConnRecords /\ HonestFlags(c, k) /\ k.quota = 0
      /\ endgame_ /\ \A r \in Lacking(c) : Remembers(k, r)
      /\ k.sender \in Looping
  <2>1. k.sender \in Looping /\ ThreadFree
    BY DEF EndgameWakes, Looping
  <2> QED BY <2>1, HonestFacts, FreeFacts DEF HonestInv
<1>2. UNCHANGED pmVars
  BY DEF EndgameWakes
<1>3. kept \in GoodConns /\ kept.quota = 0
  BY <1>1, EndgameRefreshGood
<1>4. /\ kept.bitfield_received_ = k.bitfield_received_
      /\ kept.bitfield_ = k.bitfield_ /\ kept.peer_choking_ = k.peer_choking_
  <2>1. PICK left, flying, sent : kept = WithBags(k, left, flying, sent)
    BY DEF endgame_refresh_pending_requests, WithBags
  <2> HIDE DEF kept
  <2> QED BY <1>1, <2>1 DEF WithBags, ConnRecords
<1>5. HonestFlags(c, kept)
  BY <1>1, <1>4 DEF HonestFlags
<1>6. \A r \in Lacking(c) : Remembers(kept, r)
  BY <1>1, RefreshRemembers DEF Lacking
<1>7. CASE Becomes(c, EndgameHead(k))
  <2> DEFINE m == EndgameHead(k)
  <2>1. /\ m.bitfield_received_ = k.bitfield_received_
        /\ m.bitfield_ = k.bitfield_ /\ m.peer_choking_ = k.peer_choking_
        /\ m.endgame_remaining_blocks_ = k.endgame_remaining_blocks_
        /\ m.pending_requests_ = k.pending_requests_
    BY <1>1 DEF EndgameHead, ConnRecords
  <2>2. Becomes(c, m) /\ HonestFlags(c, m)
    BY <1>1, <1>7, <2>1 DEF HonestFlags
  <2> HIDE DEF m
  <2> QED BY <1>1, <1>2, <2>1, <2>2, PmStays, ListsStay
<1>8. CASE Becomes(c, Await(kept, "cancelling"))
  <2> DEFINE m == Await(kept, "cancelling")
  <2>1. kept \in ConnRecords
    BY <1>3, ConnFields
  <2>2. Becomes(c, m)
    BY <1>8
  <2> HIDE DEF k, kept
  <2>3. /\ m.bitfield_received_ = kept.bitfield_received_
        /\ m.bitfield_ = kept.bitfield_ /\ m.peer_choking_ = kept.peer_choking_
        /\ m.endgame_remaining_blocks_ = kept.endgame_remaining_blocks_
        /\ m.pending_requests_ = kept.pending_requests_
    BY <2>1 DEF Await, ConnRecords
  <2> HIDE DEF m
  <2>4. \A r \in Lacking(c)' : Remembers(m, r)
    BY <1>2, <1>6, <2>3, PmStays DEF Remembers
  <2>5. HonestFlags(c, m)
    BY <1>5, <2>3 DEF HonestFlags
  <2> QED BY <1>1, <1>2, <2>2, <2>4, <2>5, PmStays, HonestStep
<1>9. CASE LoadEndgame(c, kept)
  <2> HIDE DEF k, kept
  <2> QED BY <1>1, <1>2, <1>3, <1>5, <1>6, <1>9, LoadEndgameHonest
<1> QED BY <1>7, <1>8, <1>9 DEF EndgameWakes

\* Nor does anything get lost while the cancels are sent.
LEMMA CancelsSentHonest ==
  ASSUME HonestInv, SwarmInv', NEW c \in Peers, CancelsSent(c)
  PROVE  HonestInv'
<1>1. /\ conn[c].sender \in Looping /\ ThreadFree /\ UNCHANGED pmVars
      /\ LoadEndgame(c, conn[c])
  BY DEF CancelsSent, Looping
<1>2. conn[c] \in GoodConns /\ conn[c].quota = 0
  BY <1>1, FreeFacts DEF HonestInv
<1> QED BY <1>1, <1>2, HonestFacts, LoadEndgameHonest

\* A message that leaves the lists alone.
LEMMA MessageHonest ==
  ASSUME HonestInv, SwarmInv', Onward, NEW c \in Peers, NEW n \in ConnRecords,
         HonestFlags(c, n), Handled(c, n),
         n.sender = conn[c].sender,
         n.endgame_remaining_blocks_ = conn[c].endgame_remaining_blocks_,
         n.pending_requests_ = conn[c].pending_requests_
  PROVE  HonestInv'
<1> DEFINE at == IF completed' \/ n.sender = "done" THEN "done" ELSE "receiving"
           m  == [n EXCEPT !.receiver = at]
<1>1. Becomes(c, m)
  BY DEF Handled
<1> HIDE DEF at
<1>2. /\ m.bitfield_received_ = n.bitfield_received_ /\ m.bitfield_ = n.bitfield_
      /\ m.peer_choking_ = n.peer_choking_ /\ m.sender = n.sender
      /\ m.endgame_remaining_blocks_ = n.endgame_remaining_blocks_
      /\ m.pending_requests_ = n.pending_requests_
  BY DEF ConnRecords
<1> HIDE DEF m
<1>3. HonestFlags(c, m)
  BY <1>2 DEF HonestFlags
<1> QED BY <1>1, <1>2, <1>3, ListsStay

\* The bitfield that arrives is what the peer has.
LEMMA SendBitfieldHonest ==
  ASSUME HonestInv, SwarmInv', NEW c \in Peers, SendBitfield(c)
  PROVE  HonestInv'
<1> DEFINE k == conn[c]
           n == [k EXCEPT !.bitfield_ = Holds[c], !.bitfield_received_ = TRUE]
<1>1. AddPeerBitfield(Holds[c]) /\ Handled(c, n)
  BY DEF SendBitfield, ReceiveBitfield
<1>2. k \in ConnRecords /\ Holds[c] \in SUBSET PieceIds
  BY HonestFacts, HoldsAssumption
<1>3. Onward
  <2>1. UNCHANGED <<requested_pieces_, diskVars, endgameVars>>
    BY <1>1 DEF AddPeerBitfield, UpdatePiecesAvailability
  <2> QED BY <2>1, QuietOnward DEF HonestInv
<1>4. /\ n \in ConnRecords /\ n.sender = k.sender
      /\ n.bitfield_received_ /\ n.bitfield_ = Holds[c]
      /\ n.endgame_remaining_blocks_ = k.endgame_remaining_blocks_
      /\ n.pending_requests_ = k.pending_requests_
  <2> HIDE DEF k
  <2> QED BY <1>2 DEF ConnRecords
<1>5. HonestFlags(c, n)
  BY <1>4 DEF HonestFlags
<1> HIDE DEF n
<1> QED BY <1>1, <1>3, <1>4, <1>5, MessageHonest

\* The peer unchokes after its bitfield.
LEMMA UnchokeHonest ==
  ASSUME HonestInv, SwarmInv', NEW c \in Peers, Unchoke(c)
  PROVE  HonestInv'
<1> DEFINE k == conn[c]
           n == [k EXCEPT !.peer_choking_ = FALSE]
<1>1. UNCHANGED pmVars /\ k.bitfield_received_ /\ Handled(c, n)
  BY DEF Unchoke, ReceiveChoke
<1>2. k \in ConnRecords /\ HonestFlags(c, k)
  BY HonestFacts
<1>3. /\ n \in ConnRecords /\ n.sender = k.sender
      /\ n.bitfield_received_ = k.bitfield_received_ /\ n.bitfield_ = k.bitfield_
      /\ n.endgame_remaining_blocks_ = k.endgame_remaining_blocks_
      /\ n.pending_requests_ = k.pending_requests_
  <2> HIDE DEF k
  <2> QED BY <1>2 DEF ConnRecords
<1>4. HonestFlags(c, n)
  BY <1>1, <1>2, <1>3 DEF HonestFlags
<1> HIDE DEF n
<1> QED BY <1>1, <1>3, <1>4, PmStays, MessageHonest

\* The block of an answer is lacking no more.
LEMMA AnswerHonest ==
  ASSUME HonestInv, SwarmInv', NEW c \in Peers, NEW request, Answer(c, request)
  PROVE  HonestInv'
<1> DEFINE k == conn[c]
           i == get_block_index(request[2])
           info == BlockInfo(request[1], NewPiece(cur_piece_size(request[1])), i)
<1>1. /\ Receiving(c) /\ request \in BagToSet(wire[c])
      /\ PmReceiveBlock(request[1], Good, request[2])
      /\ \E n \in PieceAnswered(k, info) : Handled(c, n)
  BY DEF Answer, ReceivePiece
<1>2. /\ k \in GoodConns /\ k \in ConnRecords /\ HonestFlags(c, k)
      /\ k.sender \in Looping => endgame_ /\ \A r \in Lacking(c) : Remembers(k, r)
      /\ endgame_requests_ \subseteq Infos
  BY HonestFacts DEF HonestInv, SwarmInv
<1>3. request \in Infos
  <2>1. wire[c] \in BagsOver(Infos)
    BY DEF HonestInv, SwarmInv
  <2> QED BY <1>1, <2>1, BagsOverIs DEF BagOver, BagToSet
<1>4. PICK p \in PieceIds : \E b \in BlocksOf(p) :
        request[1] = p /\ request[2] = get_block_offset(b)
  BY <1>3, InfoIs
<1>5. PICK b \in BlocksOf(p) : request[2] = get_block_offset(b)
  BY <1>4
<1>6. Onward /\ (endgame_ => ~ Missing(p, b)')
  BY <1>1, <1>4, <1>5, GoodBlockOnward DEF HonestInv, SwarmInv
<1>7. info[1] = p /\ info[2] = get_block_offset(b)
  <2>1. i = b
    BY <1>4, <1>5, OffsetOfIndex DEF BlocksOf, BlockRange
  <2> HIDE DEF i
  <2> QED BY <1>4, <2>1 DEF BlockInfo
<1> HIDE DEF info
<1>8. PICK n \in PieceAnswered(k, info) : Handled(c, n)
  BY <1>1
<1>9. /\ n \in ConnRecords
      /\ n.bitfield_received_ = k.bitfield_received_ /\ n.bitfield_ = k.bitfield_
      /\ n.peer_choking_ = k.peer_choking_ /\ n.sender = k.sender
  <2>1. n \in ConnRecords
    BY <1>2, <1>8, AnsweredGood, ConnFields
  <2>2. \E X : n = [k EXCEPT !.pending_requests_ = X]
    <3>1. k = [k EXCEPT !.pending_requests_ = k.pending_requests_]
      BY <1>2 DEF ConnRecords
    <3> QED BY <1>8, <3>1 DEF PieceAnswered
  <2> HIDE DEF k
  <2> QED BY <1>2, <2>1, <2>2 DEF ConnRecords
<1> DEFINE at == IF completed' \/ n.sender = "done" THEN "done" ELSE "receiving"
           m  == [n EXCEPT !.receiver = at]
<1>10. Becomes(c, m)
  BY <1>8 DEF Handled
<1> HIDE DEF at
<1>11. /\ m.bitfield_received_ = n.bitfield_received_ /\ m.bitfield_ = n.bitfield_
       /\ m.peer_choking_ = n.peer_choking_ /\ m.sender = n.sender
       /\ m.endgame_remaining_blocks_ = n.endgame_remaining_blocks_
       /\ m.pending_requests_ = n.pending_requests_
  BY <1>9 DEF ConnRecords
<1> HIDE DEF m
<1>12. HonestFlags(c, m)
  BY <1>2, <1>9, <1>11 DEF HonestFlags
<1>13. ASSUME m.sender \in Looping
       PROVE  endgame_ /\ \A r \in Lacking(c)' : Remembers(m, r)
  <2>1. endgame_ /\ \A r \in Lacking(c) : Remembers(k, r)
    BY <1>2, <1>9, <1>11, <1>13
  <2>2. ASSUME NEW r \in Lacking(c)' PROVE Remembers(m, r)
    <3>1. r \in Lacking(c)
      BY <1>2, <1>6, <2>1, <2>2, LackingFewer
    <3>2. info # r
      BY <1>6, <1>7, <2>1, <2>2 DEF Missing, Lacking
    <3>3. Remembers(n, r)
      BY <1>2, <1>8, <2>1, <3>1, <3>2, AnsweredRemembers
    <3> QED BY <1>11, <3>3 DEF Remembers
  <2> QED BY <2>1, <2>2
<1> QED BY <1>6, <1>10, <1>12, <1>13, HonestStep

\* The loop has ended when run takes the bitfield back.
LEMMA RunEndsHonest ==
  ASSUME HonestInv, SwarmInv', NEW c \in Peers, RunEnds(c)
  PROVE  HonestInv'
<1> DEFINE k == conn[c]
           m == [k EXCEPT !.sender = "idle", !.receiver = "idle"]
<1>1. k \in ConnRecords /\ HonestFlags(c, k)
  BY HonestFacts
<1>2. Onward
  <2>1. UNCHANGED <<requested_pieces_, diskVars, endgameVars>>
    BY DEF RunEnds, RemovePeerBitfield, UpdatePiecesAvailability, pmVars,
           diskVars, endgameVars
  <2> QED BY <2>1, QuietOnward DEF HonestInv
<1>3. Becomes(c, m)
  BY DEF RunEnds
<1>4. /\ m.bitfield_received_ = k.bitfield_received_ /\ m.bitfield_ = k.bitfield_
      /\ m.peer_choking_ = k.peer_choking_ /\ m.sender = "idle"
  BY <1>1 DEF ConnRecords
<1> HIDE DEF m
<1>5. HonestFlags(c, m) /\ m.sender \notin Looping
  BY <1>1, <1>4 DEF HonestFlags, Looping
<1> QED BY <1>2, <1>3, <1>5, ListsStay

\* A tick moves no block from one list to the other.
LEMMA TickHonest ==
  ASSUME HonestInv, SwarmInv', Tick
  PROVE  HonestInv'
<1>1. Onward
  BY TickOnward DEF Tick, HonestInv, SwarmInv
<1>2. ASSUME NEW c \in Peers
      PROVE  /\ HonestFlags(c, conn'[c])
             /\ conn'[c].sender = conn[c].sender
             /\ \A r : Remembers(conn[c], r) => Remembers(conn'[c], r)
  <2> DEFINE k == conn[c]
  <2>1. conn'[c] = Aged(k)
    BY DEF Tick
  <2>2. k \in GoodConns /\ k \in ConnRecords /\ HonestFlags(c, k)
    BY HonestFacts
  <2>3. /\ Aged(k).bitfield_received_ = k.bitfield_received_
        /\ Aged(k).bitfield_ = k.bitfield_
        /\ Aged(k).peer_choking_ = k.peer_choking_ /\ Aged(k).sender = k.sender
    <3>1. PICK X : Aged(k) = [k EXCEPT !.pending_requests_ = X]
      BY DEF Aged
    <3> QED BY <2>2, <3>1 DEF ConnRecords
  <2> QED BY <2>1, <2>2, <2>3, AgedRemembers DEF HonestFlags
<1>3. EndgameKeepsBlocks'
  <2> SUFFICES ASSUME NEW c \in Peers, conn'[c].sender \in Looping,
                      NEW r \in Lacking(c)'
               PROVE  Remembers(conn'[c], r)
    BY KeepsIs DEF EndgameKeepsBlocks, Looping, Lacking, Remembers
  <2>1. conn[c].sender \in Looping
    BY <1>2
  <2>2. endgame_ /\ endgame_requests_ \subseteq Infos
    BY <2>1 DEF HonestInv, SwarmInv
  <2>3. r \in Lacking(c)
    BY <1>1, <2>2, LackingFewer
  <2> QED BY <1>2, <2>1, <2>3, HonestFacts
<1>4. \A c \in Peers : /\ HonestFlags(c, conn'[c])
                       /\ conn'[c].sender \in Looping => endgame_'
  BY <1>1, <1>2 DEF HonestInv, Onward
<1> QED BY <1>1, <1>3, <1>4 DEF HonestInv, Onward, HonestFlags
-----------------------------------------------------------------------------
(* The theorem about SwarmHonest *)

\* The constructors establish the invariant.
LEMMA HonestInvInit == Init => HonestInv
<1> SUFFICES ASSUME Init PROVE HonestInv
  OBVIOUS
<1>1. ~ endgame_ /\ requested_ids = {}
  BY DEF Init, PmInit, requested_ids
<1>2. HonestPieces
  BY <1>1 DEF HonestPieces
<1>3. \A c \in Peers : HonestFlags(c, conn[c]) /\ conn[c].sender \notin Looping
  BY DEF Init, NewConnection, HonestFlags, Looping
<1>4. EndgameKeepsBlocks
  BY <1>3, KeepsIs
<1> QED BY <1>2, <1>3, <1>4, SwarmInvInit DEF HonestInv

\* The steps of an honest swarm are steps of coroutines that keep SwarmInv.
LEMMA HonestKept ==
  ASSUME SwarmInv, HonestNext
  PROVE  Kept
<1>1. ASSUME NEW c \in Peers, SendRequests(c) PROVE Kept
  BY <1>1, ConnectKept, EarlyKept, ReplaceKept, InterestedSentKept,
     SenderWakesKept, LoadBlockKept, LoadReturnsKept, SentKept,
     EndgameWakesKept, CancelsSentKept
     DEF SendRequests
<1>2. ASSUME NEW c \in Peers, WindDown(c) PROVE Kept
  BY <1>2, ReceiveEndsKept, SendFailsKept, RunEndsKept DEF WindDown, SendCancelled
<1>3. ASSUME NEW c \in Peers, SendBitfield(c) PROVE Kept
  BY <1>3, HoldsAssumption, ReceiveBitfieldKept DEF SendBitfield
<1>4. ASSUME NEW c \in Peers, Unchoke(c) PROVE Kept
  BY <1>4, ReceiveChokeKept DEF Unchoke
<1>5. ASSUME NEW c \in Peers, NEW request \in BagToSet(wire[c]), Answer(c, request)
      PROVE  Kept
  BY <1>5, ReceivePieceKept DEF Answer, Payload
<1> QED BY <1>1, <1>2, <1>3, <1>4, <1>5, TickKept DEF HonestNext

\* Every step of an honest swarm keeps it.
LEMMA HonestInvStep == HonestInv /\ [HonestNext]_vars => HonestInv'
<1> SUFFICES ASSUME HonestInv, [HonestNext]_vars PROVE HonestInv'
  OBVIOUS
<1>1. CASE HonestNext
  <2>1. SwarmInv'
    BY <1>1, HonestKept DEF HonestInv, Kept
  <2>2. ASSUME NEW c \in Peers, SendRequests(c) PROVE HonestInv'
    BY <2>1, <2>2, PlaceHonest, SenderWakesHonest, LoadBlockHonest,
       EndgameWakesHonest, CancelsSentHonest DEF SendRequests
  <2>3. ASSUME NEW c \in Peers, WindDown(c) PROVE HonestInv'
    BY <2>1, <2>3, PlaceHonest, RunEndsHonest DEF WindDown
  <2> QED BY <1>1, <2>1, <2>2, <2>3, SendBitfieldHonest, UnchokeHonest,
             AnswerHonest, TickHonest DEF HonestNext
<1>2. CASE UNCHANGED vars
  <2>1. UNCHANGED pmVars /\ UNCHANGED <<conn, wire>>
    BY <1>2 DEF vars
  <2>2. SwarmInv'
    BY <1>2, SwarmStep DEF HonestInv, Kept
  <2>3. Onward /\ \A c \in Peers : Lacking(c)' = Lacking(c)
    BY <2>1, PmStays
  <2>4. EndgameKeepsBlocks'
    <3> SUFFICES ASSUME NEW c \in Peers, conn'[c].sender \in Looping,
                        NEW r \in Lacking(c)'
                 PROVE  Remembers(conn'[c], r)
      BY KeepsIs DEF EndgameKeepsBlocks, Looping, Lacking, Remembers
    <3> QED BY <2>1, <2>3, HonestFacts
  <2> QED BY <2>1, <2>2, <2>3, <2>4 DEF HonestInv, Onward, HonestFlags
<1> QED BY <1>1, <1>2

\* However the connections of an honest swarm interleave, with requests that
\* time out, are repeated, cancelled or answered late, a connection in the
\* endgame loop never loses sight of a block that its peer has and the torrent
\* lacks.
THEOREM HonestEndgameKeepsBlocks == HonestSpec => []EndgameKeepsBlocks
<1>1. HonestInv => EndgameKeepsBlocks
  BY DEF HonestInv
<1> QED BY <1>1, HonestInvInit, HonestInvStep, PTL DEF HonestSpec
=============================================================================
