--------------------------- MODULE MemoryRegionProofs --------------------------
(****************************************************************************)
(* Proofs about MemoryRegion, for a region of any size at any address and   *)
(* pieces of any sizes: pieces never overlap, and what is freed last first  *)
(* is free again.                                                           *)
(****************************************************************************)
EXTENDS MemoryRegion, SequenceTheorems, TLAPS

\* The address behind a piece.
After(p) == p.at + p.size

Piece == [at : Nat, size : PieceSizes]

\* Only callers of a loaded module have pieces, and these begin in the pages.
Bounds ==
  /\ mm_loaded => start >= Base /\ obtained = [at |-> Base, size |-> RegionPages]
  /\ ~mm_loaded => pieces = <<>>
  /\ \A i \in DOMAIN pieces : pieces[i].at >= Base

\* As long as frees come in order, each piece begins where the one before ends.
Stacked ==
  mm_loaded /\ ordered =>
    /\ start = IF pieces = <<>> THEN Base ELSE After(pieces[Len(pieces)])
    /\ \A i \in DOMAIN pieces :
          pieces[i].at = IF i = 1 THEN Base ELSE After(pieces[i - 1])

RegionInv == TypeOK /\ Bounds /\ Disjoint /\ Stacked /\ ExitFreesAll

LEMMA PieceTypes ==
  ASSUME TypeOK, NEW i \in DOMAIN pieces
  PROVE  /\ i \in 1 .. Len(pieces) /\ Len(pieces) \in Nat
         /\ pieces[i] \in Piece
         /\ pieces[i].at \in Nat /\ pieces[i].size \in Nat /\ pieces[i].size > 0
<1>1. pieces \in Seq(Piece)
  BY DEF TypeOK, Piece
<1>2. i \in 1 .. Len(pieces) /\ Len(pieces) \in Nat
  BY <1>1, LenProperties
<1>3. pieces[i] \in Piece
  BY <1>1, <1>2, ElementOfSeq
<1>4. pieces[i].at \in Nat /\ pieces[i].size \in PieceSizes
  BY <1>3 DEF Piece
<1>5. pieces[i].size \in Nat \ {0}
  BY <1>4, RegionConstants
<1>6. QED
  BY <1>2, <1>3, <1>4, <1>5

\* What a free leaves: the pieces below i, and those above it one place down.
LEMMA WithoutOne ==
  ASSUME TypeOK, NEW i \in DOMAIN pieces
  PROVE  /\ Without(i) \in Seq(Piece)
         /\ Len(Without(i)) = Len(pieces) - 1
         /\ \A k \in DOMAIN Without(i) :
               /\ k \in DOMAIN pieces /\ k + 1 \in DOMAIN pieces
               /\ Without(i)[k] = IF k < i THEN pieces[k] ELSE pieces[k + 1]
<1> DEFINE low == SubSeq(pieces, 1, i - 1)
           high == SubSeq(pieces, i + 1, Len(pieces))
<1>1. pieces \in Seq(Piece) /\ Len(pieces) \in Nat /\ i \in 1 .. Len(pieces)
  BY DEF TypeOK, Piece
<1>2. /\ low \in Seq(Piece) /\ Len(low) = i - 1
      /\ \A k \in 1 .. i - 1 : low[k] = pieces[k]
  BY <1>1, SubSeqProperties
<1>3. /\ high \in Seq(Piece) /\ Len(high) = Len(pieces) - i
      /\ \A k \in 1 .. Len(pieces) - i : high[k] = pieces[i + k]
  BY <1>1, SubSeqProperties
<1> HIDE DEF low, high
<1>4. /\ low \o high \in Seq(Piece)
      /\ Len(low \o high) = Len(pieces) - 1
      /\ \A k \in 1 .. Len(pieces) - 1 :
            (low \o high)[k] = IF k <= i - 1 THEN low[k] ELSE high[k - (i - 1)]
  <2>1. /\ low \o high \in Seq(Piece)
        /\ Len(low \o high) = Len(low) + Len(high)
        /\ \A k \in 1 .. Len(low) + Len(high) :
              (low \o high)[k] = IF k <= Len(low) THEN low[k] ELSE high[k - Len(low)]
    BY <1>2, <1>3, ConcatProperties
  <2>2. Len(low) + Len(high) = Len(pieces) - 1
    BY <1>1, <1>2, <1>3
  <2>3. QED
    BY <1>2, <2>1, <2>2
<1>5. ASSUME NEW k \in 1 .. Len(pieces) - 1
      PROVE  (low \o high)[k] = IF k < i THEN pieces[k] ELSE pieces[k + 1]
  <2>1. CASE k < i
    BY <2>1, <1>1, <1>2, <1>4
  <2>2. CASE ~(k < i)
    <3>1. k - (i - 1) \in 1 .. Len(pieces) - i /\ i + (k - (i - 1)) = k + 1
      BY <2>2, <1>1
    <3>2. (low \o high)[k] = high[k - (i - 1)]
      BY <2>2, <1>1, <1>4
    <3>3. QED
      BY <2>2, <3>1, <3>2, <1>3
  <2>3. QED
    BY <2>1, <2>2
<1>6. Without(i) = low \o high
  BY DEF Without, low, high
<1>7. DOMAIN Without(i) = 1 .. Len(pieces) - 1 /\ DOMAIN pieces = 1 .. Len(pieces)
  BY <1>1, <1>4, <1>6, LenProperties
<1>8. ASSUME NEW k \in 1 .. Len(pieces) - 1
      PROVE  k \in DOMAIN pieces /\ k + 1 \in DOMAIN pieces
  BY <1>1, <1>7
<1>9. QED
  BY <1>4, <1>5, <1>6, <1>7, <1>8

LEMMA RegionInvInit == Init => RegionInv
<1> SUFFICES ASSUME Init
             PROVE  RegionInv
  OBVIOUS
<1> USE RegionConstants DEF Init, Nothing
<1>1. TypeOK
  <2>1. pieces \in Seq(Piece)
    OBVIOUS
  <2>2. obtained \in [at : Nat, size : Nat]
    OBVIOUS
  <2>3. QED
    BY <2>1, <2>2 DEF TypeOK, Piece
<1>2. QED
  BY <1>1 DEF RegionInv, Bounds, Disjoint, Stacked, ExitFreesAll

LEMMA AllocKeeps ==
  ASSUME RegionInv, NEW n \in PieceSizes, Alloc(n)
  PROVE  RegionInv'
<1> USE RegionConstants DEF RegionInv, Alloc
<1> DEFINE p == [at |-> start, size |-> n]
<1>1. /\ n \in Nat /\ n > 0 /\ start \in Nat /\ start >= Base /\ p \in Piece
      /\ pieces \in Seq(Piece) /\ Len(pieces) \in Nat
  BY DEF TypeOK, Bounds, Piece
<1>2. /\ pieces' \in Seq(Piece) /\ Len(pieces') = Len(pieces) + 1
      /\ DOMAIN pieces' = 1 .. Len(pieces) + 1 /\ DOMAIN pieces = 1 .. Len(pieces)
      /\ \A i \in 1 .. Len(pieces) : pieces'[i] = pieces[i]
      /\ pieces'[Len(pieces) + 1] = p
  BY <1>1
<1>3. TypeOK'
  BY <1>1, <1>2 DEF TypeOK, Piece
<1>4. Bounds'
  BY <1>1, <1>2 DEF Bounds
<1>5. Disjoint'
  <2>1. ASSUME NEW i \in 1 .. Len(pieces)
        PROVE  /\ pieces[i].at \in Nat /\ pieces[i].size \in Nat
               /\ pieces[i].at + pieces[i].size <= start
    BY <2>1, <1>2, PieceTypes DEF Disjoint
  <2>2. ASSUME NEW i \in DOMAIN pieces'
        PROVE  pieces'[i].at + pieces'[i].size <= start'
    BY <2>1, <1>1, <1>2
  <2>3. ASSUME NEW i \in DOMAIN pieces', NEW j \in DOMAIN pieces', i < j
        PROVE  pieces'[i].at + pieces'[i].size <= pieces'[j].at
    BY <2>1, <2>3, <1>1, <1>2 DEF Disjoint
  <2>4. QED
    BY <2>2, <2>3 DEF Disjoint
<1>6. Stacked'
  <2>1. SUFFICES ASSUME ordered
                 PROVE  /\ start' = After(pieces'[Len(pieces')]) /\ pieces' # <<>>
                        /\ \A i \in DOMAIN pieces' :
                              pieces'[i].at = IF i = 1 THEN Base ELSE After(pieces'[i - 1])
    BY DEF Stacked
  <2>2. start' = After(pieces'[Len(pieces')]) /\ pieces' # <<>>
    BY <1>1, <1>2 DEF After
  <2>3. ASSUME NEW i \in DOMAIN pieces'
        PROVE  pieces'[i].at = IF i = 1 THEN Base ELSE After(pieces'[i - 1])
    <3>1. CASE i <= Len(pieces)
      <4>1. /\ i \in DOMAIN pieces /\ pieces'[i] = pieces[i]
            /\ i # 1 => pieces'[i - 1] = pieces[i - 1]
        BY <3>1, <1>1, <1>2
      <4>2. QED
        BY <4>1, <2>1 DEF Stacked
    <3>2. CASE i = Len(pieces) + 1
      <4>1. pieces'[i].at = start
        BY <3>2, <1>2
      <4>2. CASE Len(pieces) = 0
        <5>1. pieces = <<>> /\ i = 1
          BY <4>2, <3>2, <1>1, EmptySeq
        <5>2. QED
          BY <4>1, <5>1, <2>1 DEF Stacked
      <4>3. CASE Len(pieces) # 0
        <5>1. i # 1 /\ pieces # <<>> /\ pieces'[i - 1] = pieces[Len(pieces)]
          <6>1. i # 1 /\ i - 1 = Len(pieces) /\ i - 1 \in 1 .. Len(pieces)
            BY <4>3, <3>2, <1>1
          <6>2. pieces # <<>>
            BY <4>3, EmptySeq
          <6>3. QED
            BY <6>1, <6>2, <1>2
        <5>2. QED
          BY <4>1, <5>1, <2>1 DEF Stacked
      <4>4. QED
        BY <4>2, <4>3
    <3>3. QED
      BY <3>1, <3>2, <1>1, <1>2
  <2>4. QED
    BY <2>2, <2>3
<1>7. ExitFreesAll'
  BY DEF ExitFreesAll
<1>8. QED
  BY <1>3, <1>4, <1>5, <1>6, <1>7

LEMMA FreeKeeps ==
  ASSUME RegionInv, NEW i \in DOMAIN pieces, Free(i)
  PROVE  RegionInv'
<1> USE RegionConstants DEF RegionInv
<1>1. PICK addr, size : addr = pieces[i].at /\ size = pieces[i].size
  OBVIOUS
<1>2. /\ addr \in Nat /\ size \in Nat /\ size > 0 /\ addr >= Base /\ addr + size <= start
      /\ start \in Nat /\ Len(pieces) \in Nat /\ i \in 1 .. Len(pieces) /\ End \in Nat
      /\ DOMAIN pieces = 1 .. Len(pieces)
  BY <1>1, PieceTypes DEF Disjoint, Bounds, TypeOK, End
<1>3. /\ start' = IF addr >= start - size /\ addr <= End THEN start - size ELSE start
      /\ pieces' = Without(i) /\ mm_loaded
      /\ UNCHANGED <<mm_loaded, regions, obtained>> /\ Freed(i)
  BY <1>1 DEF Free
\* region->start moves only for the last piece, and then to where that begins.
<1>4. /\ start' = start \/ start' = addr
      /\ start' # start => i = Len(pieces) /\ start = addr + size
  <2>1. CASE start' = start
    BY <2>1
  <2>2. CASE start' # start
    <3>1. start' = start - size /\ start = addr + size
      BY <2>2, <1>2, <1>3
    <3>2. ASSUME i # Len(pieces)
          PROVE  FALSE
      <4>1. PICK k : k = Len(pieces)
        OBVIOUS
      <4>2. k \in DOMAIN pieces /\ i < k
        BY <3>2, <4>1, <1>2
      <4>3. /\ pieces[k].at \in Nat /\ pieces[k].size \in Nat /\ pieces[k].size > 0
            /\ addr + size <= pieces[k].at /\ pieces[k].at + pieces[k].size <= start
        BY <4>2, <1>1, PieceTypes DEF Disjoint
      <4>4. QED
        BY <4>3, <3>1, <1>2
    <3>3. QED
      BY <3>1, <3>2, <1>2
  <2>3. QED
    BY <2>1, <2>2
<1>5. start' \in Nat /\ start' >= Base /\ start' <= Limit
  BY <1>2, <1>3, <1>4 DEF TypeOK
<1>6. /\ pieces' \in Seq(Piece) /\ Len(pieces') = Len(pieces) - 1
      /\ DOMAIN pieces' = 1 .. Len(pieces) - 1
      /\ \A k \in DOMAIN pieces' :
            /\ k \in DOMAIN pieces /\ k + 1 \in DOMAIN pieces
            /\ pieces'[k] = IF k < i THEN pieces[k] ELSE pieces[k + 1]
  <2>1. Without(i) \in Seq(Piece) /\ Len(Without(i)) = Len(pieces) - 1
    BY WithoutOne
  <2>2. DOMAIN Without(i) = 1 .. Len(pieces) - 1
    BY <2>1
  <2>3. QED
    BY <2>1, <2>2, <1>3, WithoutOne
<1>7. TypeOK'
  BY <1>3, <1>5, <1>6 DEF TypeOK, Piece, Freed
<1>8. Bounds'
  BY <1>3, <1>5, <1>6 DEF Bounds
<1>9. Disjoint'
  <2>1. ASSUME NEW k \in DOMAIN pieces'
        PROVE  \E m \in DOMAIN pieces : /\ m = (IF k < i THEN k ELSE k + 1) /\ m # i
                                        /\ pieces'[k] = pieces[m]
    BY <1>2, <1>6
  <2>2. ASSUME NEW k \in DOMAIN pieces'
        PROVE  pieces'[k].at + pieces'[k].size <= start'
    <3>1. PICK m \in DOMAIN pieces : m # i /\ pieces'[k] = pieces[m]
      BY <2>1
    <3>2. pieces[m].at \in Nat /\ pieces[m].size \in Nat /\ m \in 1 .. Len(pieces)
      BY PieceTypes
    <3>3. pieces[m].at + pieces[m].size <= start
      BY DEF Disjoint
    <3>4. CASE start' = start
      BY <3>1, <3>3, <3>4
    <3>5. CASE start' # start
      <4>1. start' = addr /\ m < i
        BY <3>5, <3>1, <3>2, <1>2, <1>4
      <4>2. QED
        BY <4>1, <3>1, <1>1 DEF Disjoint
    <3>6. QED
      BY <3>4, <3>5
  <2>3. ASSUME NEW k \in DOMAIN pieces', NEW l \in DOMAIN pieces', k < l
        PROVE  pieces'[k].at + pieces'[k].size <= pieces'[l].at
    <3>1. PICK m \in DOMAIN pieces, o \in DOMAIN pieces :
            m < o /\ pieces'[k] = pieces[m] /\ pieces'[l] = pieces[o]
      BY <2>1, <2>3, <1>2, <1>6
    <3>2. QED
      BY <3>1 DEF Disjoint
  <2>4. QED
    BY <2>2, <2>3 DEF Disjoint
<1>10. Stacked'
  <2>1. SUFFICES ASSUME ordered'
                 PROVE  /\ start' = IF pieces' = <<>> THEN Base
                                    ELSE After(pieces'[Len(pieces')])
                        /\ \A k \in DOMAIN pieces' :
                              pieces'[k].at = IF k = 1 THEN Base ELSE After(pieces'[k - 1])
    BY DEF Stacked
  <2>2. ordered /\ i = Len(pieces) /\ addr <= End
    BY <2>1, <1>1, <1>3 DEF Freed
  <2>3. /\ start = After(pieces[i]) /\ pieces # <<>>
        /\ \A k \in DOMAIN pieces :
              pieces[k].at = IF k = 1 THEN Base ELSE After(pieces[k - 1])
    BY <2>2, <1>2, <1>3 DEF Stacked
  <2>4. start' = addr
    BY <2>2, <2>3, <1>1, <1>2, <1>3 DEF After
  <2>5. \A k \in DOMAIN pieces' : pieces'[k] = pieces[k] /\ k \in DOMAIN pieces
    BY <2>2, <1>2, <1>6
  <2>6. \A k \in DOMAIN pieces' : k # 1 => k - 1 \in DOMAIN pieces'
    BY <1>2, <1>6
  <2>7. start' = IF pieces' = <<>> THEN Base ELSE After(pieces'[Len(pieces')])
    <3>1. CASE Len(pieces) = 1
      <4>1. pieces' = <<>>
        BY <3>1, <1>6
      <4>2. QED
        BY <4>1, <3>1, <2>2, <2>3, <2>4, <1>1, <1>2
    <3>2. CASE Len(pieces) # 1
      <4>1. /\ Len(pieces') = i - 1 /\ i - 1 \in DOMAIN pieces' /\ i # 1
            /\ pieces' # <<>>
        BY <3>2, <2>2, <1>2, <1>6
      <4>2. pieces'[Len(pieces')] = pieces[i - 1]
        BY <4>1, <2>5
      <4>3. QED
        BY <4>1, <4>2, <2>3, <2>4, <1>1
    <3>3. QED
      BY <3>1, <3>2
  <2>8. QED
    BY <2>3, <2>5, <2>6, <2>7
<1>11. ExitFreesAll'
  BY <1>3 DEF ExitFreesAll
<1>12. QED
  BY <1>7, <1>8, <1>9, <1>10, <1>11

LEMMA ExitKeeps == RegionInv /\ Exit => RegionInv'
<1> SUFFICES ASSUME RegionInv, Exit
             PROVE  RegionInv'
  OBVIOUS
<1> USE RegionConstants DEF RegionInv, Exit
<1>1. ordered => obtained' = Nothing
  <2>1. ordered => start = Base
    BY DEF Stacked
  <2>2. End - Base = RegionPages
    BY DEF End
  <2>3. QED
    BY <2>1, <2>2 DEF Bounds
<1>2. TypeOK'
  <2>1. obtained' \in [at : Nat, size : Nat]
    BY DEF TypeOK, Nothing
  <2>2. QED
    BY <2>1 DEF TypeOK
<1>3. QED
  BY <1>1, <1>2 DEF Bounds, Disjoint, Stacked, ExitFreesAll

LEMMA RegionInvStep == RegionInv /\ [Next]_vars => RegionInv'
<1> SUFFICES ASSUME RegionInv, [Next]_vars
             PROVE  RegionInv'
  OBVIOUS
<1>1. CASE Load
  <2> USE <1>1, RegionConstants DEF RegionInv, Load
  <2>1. TypeOK'
    BY DEF TypeOK
  <2>2. pieces' = <<>>
    BY DEF Bounds
  <2>3. QED
    BY <2>1, <2>2 DEF Bounds, Disjoint, Stacked, ExitFreesAll
<1>2. CASE LoadFail
  BY <1>2 DEF RegionInv, LoadFail, TypeOK, Bounds, Disjoint, Stacked, ExitFreesAll
<1>3. CASE UNCHANGED vars
  BY <1>3 DEF vars, RegionInv, TypeOK, Bounds, Disjoint, Stacked, ExitFreesAll
<1>4. QED
  BY <1>1, <1>2, <1>3, ExitKeeps, AllocKeeps, FreeKeeps DEF Next

LEMMA RegionInvariant == Spec => []RegionInv
BY RegionInvInit, RegionInvStep, PTL DEF Spec

\* Every variable has its type.
THEOREM RegionTypes == Spec => []TypeOK
<1>1. RegionInv => TypeOK
  BY DEF RegionInv
<1>2. QED
  BY <1>1, RegionInvariant, PTL

\* No order of frees makes two pieces overlap.
THEOREM PiecesAreDisjoint == Spec => []Disjoint
<1>1. RegionInv => Disjoint
  BY DEF RegionInv
<1>2. QED
  BY <1>1, RegionInvariant, PTL

\* Frees in the opposite order of the allocations give the whole region back.
THEOREM OrderedFreesGiveBack == Spec => []FreedIsFree
<1>1. RegionInv => FreedIsFree
  BY DEF RegionInv, Stacked, FreedIsFree
<1>2. QED
  BY <1>1, RegionInvariant, PTL

\* After such frees the module leaves none of its pages behind.
THEOREM ExitGivesBack == Spec => []ExitFreesAll
<1>1. RegionInv => ExitFreesAll
  BY DEF RegionInv
<1>2. QED
  BY <1>1, RegionInvariant, PTL
==============================================================================
