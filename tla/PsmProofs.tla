------------------------------ MODULE PsmProofs ------------------------------
(***************************************************************************)
(* Proofs about Psm, for every partition, set of names and values: the     *)
(* invariant IInv of PsmInv, the properties of PsmProps that follow from   *)
(* it, and the refinements of PsmStore and PsmSpace.                       *)
(*                                                                         *)
(* The lemmas come in the order of the argument: numbers, sizes and ids;   *)
(* what a scan or a reader finds in an area; what flash operations do to   *)
(* extents and to the contents of the store; one lemma per action, that it *)
(* keeps Core and the contents or changes them as the call says; and       *)
(* power failures.  OffTheEdge is used at one place, where a compaction    *)
(* writes swap_start_offset; IdsLeft where an id is taken and where a      *)
(* compaction counts its copies; FormatIsSafe where the power fails.       *)
(***************************************************************************)
EXTENDS PsmInv, PsmLayoutProofs, FiniteSetTheorems, WellFoundedInduction, TLAPS

-----------------------------------------------------------------------------
(***************************************************************************)
(* Least and greatest numbers                                              *)
(***************************************************************************)
(* A set of numbers has a least one *)
LEMMA Least ==
    ASSUME NEW S \in SUBSET Nat, S # {}
    PROVE  \E x \in S : \A y \in S : x <= y
<1> DEFINE R == OpToRel(<, Nat)
<1>1. IsWellFoundedOn(R, Nat)
    BY NatLessThanWellFounded
<1>2. \A x, y \in Nat : <<y, x>> \in R <=> y < x
    BY DEF OpToRel
<1> HIDE DEF R
<1>3. PICK x \in S : \A y \in S : ~(<<y, x>> \in R)
    BY <1>1, WFMin
<1>4. ASSUME NEW y \in S PROVE x <= y
    <2>1. x \in Nat /\ y \in Nat /\ ~(y < x)
        BY <1>2, <1>3
    <2> QED
        BY <2>1
<1> QED
    BY <1>4

(* Max, the greatest of a set of numbers *)
LEMMA MaxIs ==
    ASSUME NEW S \in SUBSET Int, NEW m \in S, \A x \in S : x <= m
    PROVE  Max(S) = m
<1>1. \E x \in S : \A y \in S : x >= y
    OBVIOUS
<1>2. Max(S) \in S /\ \A y \in S : Max(S) >= y
    BY <1>1 DEF Max
<1>3. Max(S) >= m /\ m >= Max(S) /\ Max(S) \in Int /\ m \in Int
    BY <1>2
<1> QED
    BY <1>3

(* A bounded set of numbers contains its Max *)
LEMMA MaxIn ==
    ASSUME NEW S \in SUBSET Nat, S # {}, NEW n \in Nat, \A x \in S : x <= n
    PROVE  Max(S) \in S /\ \A x \in S : x <= Max(S)
<1> DEFINE T == {n - x : x \in S}
<1>1. T \in SUBSET Nat /\ T # {}
    <2>1. \A x \in S : n - x \in Nat
        OBVIOUS
    <2> QED
        BY <2>1
<1> HIDE DEF T
<1>2. PICK y \in T : \A z \in T : y <= z
    BY <1>1, Least
<1>3. PICK m \in S : y = n - m
    BY DEF T
<1>4. \A x \in S : n - x \in T
    BY DEF T
<1>5. \A x \in S : x <= m
    BY <1>2, <1>3, <1>4
<1> QED
    BY <1>5, MaxIs

-----------------------------------------------------------------------------
(***************************************************************************)
(* The bytes of the active objects                                         *)
(***************************************************************************)
Bytes(S) == UNION {e.lo..(e.hi - 1) : e \in {x \in S : x.live}}

(* The number of bytes from a to b *)
LEMMA IntervalSize ==
    ASSUME NEW a \in Int, NEW b \in Int, a <= b
    PROVE  IsFiniteSet(a..(b - 1)) /\ Cardinality(a..(b - 1)) = b - a
<1>1. b - 1 \in Int
    OBVIOUS
<1>2. /\ IsFiniteSet(a..(b - 1))
      /\ Cardinality(a..(b - 1)) = IF a > b - 1 THEN 0 ELSE (b - 1) - a + 1
    BY <1>1, FS_Interval
<1>3. CASE a > b - 1
    BY <1>2, <1>3
<1>4. CASE ~(a > b - 1)
    BY <1>2, <1>4
<1> QED
    BY <1>3, <1>4

(* The bytes of extents between a and b are not more than b - a *)
LEMMA BytesFinite ==
    ASSUME NEW S, Extents(S), NEW a \in Nat, NEW b \in Nat, a <= b,
           \A e \in S : a <= e.lo /\ e.hi <= b
    PROVE  /\ IsFiniteSet(Bytes(S)) /\ Cardinality(Bytes(S)) \in Nat
           /\ Cardinality(Bytes(S)) <= b - a
<1>1. Bytes(S) \subseteq a..(b - 1)
    BY DEF Bytes, Extents, Extent
<1>2. /\ IsFiniteSet(a..(b - 1)) /\ Cardinality(a..(b - 1)) = b - a
    BY IntervalSize
<1> QED
    BY <1>1, <1>2, FS_Subset, FS_CardinalityType

(* The bytes of the active objects are not more than the partition *)
LEMMA SizeType ==
    ASSUME NEW S, Extents(S)
    PROVE  ActiveSize(S) \in Nat /\ ActiveSize(S) <= PartSize /\ IsFiniteSet(Bytes(S))
<1>1. PartSize \in Nat /\ 0 <= PartSize /\ PartSize - 0 = PartSize
    BY PartSizeAssumption
<1>2. \A e \in S : 0 <= e.lo /\ e.hi <= PartSize
    BY DEF Extents, Extent
<1>3. /\ IsFiniteSet(Bytes(S)) /\ Cardinality(Bytes(S)) \in Nat
      /\ Cardinality(Bytes(S)) <= PartSize - 0
    BY <1>1, <1>2, BytesFinite
<1> QED
    BY <1>1, <1>3 DEF ActiveSize, Bytes

(* The active objects between a and b take at most b - a bytes *)
LEMMA SizeBound ==
    ASSUME NEW S, Extents(S), NEW a \in Nat, NEW b \in Nat, a <= b,
           \A e \in S : a <= e.lo /\ e.hi <= b
    PROVE  ActiveSize(S) <= b - a
BY BytesFinite DEF ActiveSize, Bytes

(* No objects take no bytes *)
LEMMA SizeEmpty == ActiveSize({}) = 0
<1>1. Bytes({}) = {}
    BY DEF Bytes
<1> QED
    BY <1>1, FS_EmptySet DEF ActiveSize, Bytes

(* Some of the extents are extents *)
LEMMA ExtentsSubset ==
    ASSUME NEW S, Extents(S), NEW T \in SUBSET S
    PROVE  Extents(T)
BY DEF Extents

(* Some of the objects take no more bytes than all *)
LEMMA SizeMono ==
    ASSUME NEW S, Extents(S), NEW T \in SUBSET S
    PROVE  ActiveSize(T) <= ActiveSize(S)
<1>1. Bytes(T) \subseteq Bytes(S)
    BY DEF Bytes
<1> QED
    BY <1>1, SizeType, FS_Subset DEF ActiveSize, Bytes

(* An inactive object does not count *)
LEMMA SizeOfDead ==
    ASSUME NEW S, NEW e, ~e.live
    PROVE  ActiveSize(S \cup {e}) = ActiveSize(S)
<1>1. {x \in S \cup {e} : x.live} = {x \in S : x.live}
    OBVIOUS
<1> QED
    BY <1>1 DEF ActiveSize

(* A new active object adds its bytes *)
LEMMA SizeAdd ==
    ASSUME NEW S, NEW e, Extents(S \cup {e}), e \notin S, e.live
    PROVE  ActiveSize(S \cup {e}) = ActiveSize(S) + SizeOf(e)
<1> DEFINE E == e.lo..(e.hi - 1)
<1>1. Bytes(S \cup {e}) = Bytes(S) \cup E
    BY DEF Bytes
<1>2. Bytes(S) \cap E = {}
    BY DEF Bytes, Extents, Extent
<1>3. e.lo \in Nat /\ e.hi \in Nat /\ e.lo < e.hi
    BY DEF Extents, Extent
<1>4. IsFiniteSet(E) /\ Cardinality(E) = e.hi - e.lo
    BY <1>3, IntervalSize
<1>5. Extents(S)
    BY ExtentsSubset
<1>6. IsFiniteSet(Bytes(S)) /\ Cardinality(Bytes(S)) \in Nat
    BY <1>5, SizeType, FS_CardinalityType
<1>7. Cardinality({}) = 0
    BY FS_EmptySet
<1> HIDE DEF E
<1>8. Cardinality(Bytes(S \cup {e})) = Cardinality(Bytes(S)) + Cardinality(E) - Cardinality(Bytes(S) \cap E)
    BY <1>1, <1>4, <1>6, FS_Union
<1>9. Cardinality(Bytes(S \cup {e})) = Cardinality(Bytes(S)) + (e.hi - e.lo)
    BY <1>2, <1>3, <1>4, <1>6, <1>7, <1>8
<1> QED
    BY <1>9 DEF ActiveSize, Bytes, SizeOf

(* One of the objects is not there *)
LEMMA SizeWithout ==
    ASSUME NEW S, Extents(S), NEW e \in S, e.live
    PROVE  ActiveSize(S \ {e}) = ActiveSize(S) - SizeOf(e)
<1>1. (S \ {e}) \cup {e} = S
    OBVIOUS
<1>2. ActiveSize(S) = ActiveSize(S \ {e}) + SizeOf(e)
    BY <1>1, SizeAdd
<1>3. Extents(S \ {e})
    BY ExtentsSubset
<1>4. SizeOf(e) \in Int /\ ActiveSize(S \ {e}) \in Nat
    BY <1>3, SizeType DEF SizeOf, Extents, Extent
<1> QED
    BY <1>2, <1>4

-----------------------------------------------------------------------------
(***************************************************************************)
(* Sizes and ids                                                           *)
(***************************************************************************)
(* The size of an object grows with its data *)
LEMMA ObjSizes ==
    /\ MinSize \in Nat /\ MinSize >= 13
    /\ \A l \in Nat : ObjSize(l) \in Nat /\ ObjSize(l) = MinSize + l /\ MinSize <= ObjSize(l)
    /\ \A l, m \in Nat : l <= m => ObjSize(l) <= ObjSize(m)
BY PsmAssumption DEF MinSize, ObjSize, ObjHdr

(* Ids that fit in x bytes fit in more *)
LEMMA IdRoomMore ==
    ASSUME NEW n \in Nat, NEW x \in Int, NEW y \in Int, IdRoom(n, x), x <= y
    PROVE  IdRoom(n, y)
<1>1. n * MinSize \in Int
    BY ObjSizes
<1> QED
    BY <1>1 DEF IdRoom

(* No id needs no bytes *)
LEMMA IdRoomNone ==
    ASSUME NEW x \in Nat
    PROVE  IdRoom(0, x)
<1>1. 0 * MinSize = 0 /\ 0 <= MaxObjects
    BY ObjSizes, PsmAssumption
<1> QED
    BY <1>1 DEF IdRoom

(* Fewer ids need fewer bytes *)
LEMMA IdRoomFewer ==
    ASSUME NEW m \in Nat, NEW n \in Nat, NEW x \in Int, IdRoom(n, x), m <= n
    PROVE  IdRoom(m, x)
<1>1. m * MinSize <= n * MinSize /\ m * MinSize \in Int /\ n * MinSize \in Int
    BY ObjSizes
<1>2. n <= MaxObjects => m <= MaxObjects
    BY PsmAssumption
<1> QED
    BY <1>1, <1>2 DEF IdRoom

(* One more id needs one more object *)
LEMMA IdRoomNext ==
    ASSUME NEW n \in Nat, NEW x \in Int, NEW s \in Int, IdRoom(n, x), MinSize <= s,
           n + 1 <= MaxObjects
    PROVE  IdRoom(n + 1, x + s)
<1>1. (n + 1) * MinSize = n * MinSize + MinSize /\ n * MinSize \in Int
    BY ObjSizes
<1> QED
    BY <1>1, ObjSizes DEF IdRoom

(* There is an id for every object that fits in the partition *)
LEMMA IdsSuffice ==
    ASSUME SmallPartition, NEW n \in Nat, NEW x \in Int, IdRoom(n, x), x <= PartSize
    PROVE  n <= MaxObjects /\ (x < PartSize => n < MaxObjects)
<1>1. MaxObjects \in Nat /\ PartSize <= MaxObjects * MinSize /\ MaxObjects * MinSize \in Int
    BY PsmAssumption, ObjSizes DEF SmallPartition
<1>2. ASSUME NEW k \in Nat, k <= n PROVE k * MinSize <= x
    BY <1>2, IdRoomFewer DEF IdRoom
<1>3. CASE MaxObjects + 1 <= n
    <2>1. (MaxObjects + 1) * MinSize = MaxObjects * MinSize + MinSize
        BY <1>1, ObjSizes
    <2> QED
        <3>1. (MaxObjects + 1) * MinSize <= x
            BY <1>1, <1>2, <1>3
        <3>2. MaxObjects * MinSize + MinSize <= PartSize
            BY <2>1, <3>1, PartSizeAssumption, ObjSizes, <1>1
        <3> HIDE DEF SmallPartition
        <3> QED
            BY <1>1, <3>2, ObjSizes, PartSizeAssumption
<1>4. CASE n = MaxObjects
    BY <1>1, <1>2, <1>4, PartSizeAssumption
<1>5. CASE n < MaxObjects
    BY <1>5, <1>1
<1> QED
    BY <1>1, <1>3, <1>4, <1>5

-----------------------------------------------------------------------------
(***************************************************************************)
(* Chains                                                                  *)
(***************************************************************************)
(* A reader that starts at a finds the objects that fill the bytes from a  *)
(* to b                                                                    *)
LEMMA ChainIs ==
    ASSUME NEW f, NEW O \in SUBSET f, NEW a \in Nat, NEW b \in Nat, NEW limit \in Int,
           Extents(f), Tiles(O, a, b),
           \A e \in O : e.lo < limit,
           \A e \in f \ O : e.lo >= b \/ e.hi <= a,
           \A e \in f \ O : e.lo = b => e.k # "obj"
    PROVE  Chain(f, a, limit) = O
<1> DEFINE objs == {e \in f : e.k = "obj" /\ a <= e.lo /\ e.lo < limit}
<1>1. O \subseteq objs
    BY DEF Tiles, Extents, Extent
<1>2. ASSUME NEW e \in O, NEW x \in {a} \cup {d.hi : d \in objs}, x < e.lo
      PROVE  \E d \in objs : d.lo = x
    <2>1. x < b /\ x \in {a} \cup {d.hi : d \in O}
        <3>1. e.lo < b /\ e.lo \in Nat
            BY DEF Tiles, Extents, Extent
        <3>2. CASE x = a
            BY <3>1, <3>2, <1>2
        <3>3. CASE x # a
            <4>1. PICK d \in objs : x = d.hi
                BY <3>3
            <4>2. d \in O
                BY <4>1, <3>1, <1>2 DEF Extents, Extent
            <4> QED
                BY <4>1, <4>2, <3>1, <1>2 DEF Extents, Extent
        <3> QED
            BY <3>2, <3>3
    <2> QED
        BY <2>1, <1>1 DEF Tiles
<1>3. ASSUME NEW e \in objs, Reaches(objs, a, e.lo), e \notin O
      PROVE  FALSE
    <2>1. e.lo >= b /\ e.lo > b
        BY <1>3 DEF Extents, Extent
    <2>2. b \in {a} \cup {d.hi : d \in objs}
        BY <1>1 DEF Tiles
    <2>3. PICK d \in objs : d.lo = b
        BY <2>1, <2>2, <1>3 DEF Reaches
    <2> QED
        BY <2>3 DEF Extents, Extent, Tiles
<1> QED
    BY <1>1, <1>2, <1>3 DEF Chain, Reaches

(* Another object behind the last *)
LEMMA TilesAdd ==
    ASSUME NEW S, NEW a \in Nat, NEW b \in Nat, Tiles(S, a, b), Extents(S),
           NEW e \in Extent, e.k = "obj", e.lo = b, e.lo < e.hi
    PROVE  Tiles(S \cup {e}, a, e.hi)
<1>1. e.hi \in Nat /\ a <= e.hi /\ b < e.hi
    BY DEF Extent, Tiles
<1>2. \A d \in S \cup {e} : d.k = "obj" /\ a <= d.lo /\ d.hi <= e.hi
    BY <1>1 DEF Tiles, Extents, Extent
<1>3. ASSUME NEW x \in {a} \cup {d.hi : d \in S \cup {e}}, x < e.hi
      PROVE  \E d \in S \cup {e} : d.lo = x
    <2>1. x \in {a} \cup {d.hi : d \in S}
        BY <1>1, <1>3
    <2>2. x < b \/ x = b
        BY <2>1 DEF Tiles, Extents, Extent
    <2> QED
        BY <2>1, <2>2 DEF Tiles
<1> QED
    BY <1>1, <1>2, <1>3 DEF Tiles

(* Where objects without gaps end *)
LEMMA TilesEnd ==
    ASSUME NEW S, NEW a \in Nat, NEW b \in Nat, Tiles(S, a, b), Extents(S)
    PROVE  /\ ActiveSize(S) <= b - a
           /\ a = 0 => ChainEnd(S) = b
           /\ a = b <=> S = {}
<1>1. a <= b /\ \A e \in S : a <= e.lo /\ e.hi <= b
    BY DEF Tiles
<1>2. ActiveSize(S) <= b - a
    BY <1>1, SizeBound
<1>3. ASSUME a = 0 PROVE ChainEnd(S) = b
    <2>1. {0} \cup {e.hi : e \in S} \in SUBSET Int
        BY DEF Extents, Extent
    <2>2. b \in {0} \cup {e.hi : e \in S} /\ \A x \in {0} \cup {e.hi : e \in S} : x <= b
        BY <1>1, <1>3 DEF Tiles
    <2> QED
        BY <2>1, <2>2, MaxIs DEF ChainEnd
<1>4. a = b <=> S = {}
    BY DEF Tiles, Extents, Extent
<1> QED
    BY <1>2, <1>3, <1>4

(* An area of no objects *)
LEMMA AreaEmpty ==
    ASSUME NEW a \in Nat
    PROVE  Area({}, a, a)
BY DEF Area, Tiles, Catalogue

-----------------------------------------------------------------------------
(***************************************************************************)
(* The data area                                                           *)
(***************************************************************************)
(* The data area ends below the planned and the actual swap area *)
LEMMA DataAreaFacts ==
    ASSUME NEW f, NEW O \in SUBSET f, NEW end \in Nat, Extents(f), DataArea(f, O, end)
    PROVE  /\ Extents(O) /\ ActiveSize(O) \in Nat /\ ActiveSize(O) <= end
           /\ end <= PlannedSwap(ActiveSize(O)) /\ end <= SwapStart(ActiveSize(O))
           /\ end < PartSize
           /\ PlannedSwap(ActiveSize(O)) \in Int /\ SwapStart(ActiveSize(O)) \in Int
           /\ PlannedSwap(ActiveSize(O)) <= SwapStart(ActiveSize(O))
           /\ PlannedSwap(ActiveSize(O)) <= PartSize - BlockSize
           /\ \A e \in O : e.lo < ObjectOffsetLimit /\ e.lo < end /\ e.hi <= end
<1> DEFINE t == ActiveSize(O)
<1>1. Extents(O) /\ t \in Nat /\ t <= end
    BY ExtentsSubset, SizeType, TilesEnd DEF DataArea, Area
<1>2. /\ SwapStart(t) \in Int /\ PlannedSwap(t) \in Int
      /\ PlannedSwap(t) <= SwapStart(t) /\ PlannedSwap(t) <= PartSize - BlockSize
    BY <1>1, SwapBounds, PlannedBelowLastBlock
<1>3. end <= PlannedSwap(t)
    BY DEF DataArea
<1> HIDE DEF t
<1>4. ASSUME NEW e \in O PROVE e.lo < ObjectOffsetLimit /\ e.lo < end /\ e.hi <= end
    <2>1. e.hi <= end /\ MinSize <= e.hi - e.lo /\ e.lo \in Nat /\ e.hi \in Nat
        BY DEF DataArea, Area, Tiles, Catalogue, Extents, Extent, SizeOf
    <2>2. MinSize \in Nat /\ MinSize >= 13
        BY ObjSizes
    <2>3. /\ ObjectOffsetLimit = PartSize - BlockSize - 12
          /\ PartSize \in Nat /\ BlockSize \in Nat /\ end \in Nat
        BY BlockSizeAssumption, PartSizeAssumption DEF ObjectOffsetLimit, ObjHdr
    <2> QED
        BY <2>1, <2>2, <2>3, <1>2, <1>3
<1>5. end < PartSize /\ end <= SwapStart(t)
    BY <1>2, <1>3, BlockSizeAssumption, PartSizeAssumption
<1> QED
    BY <1>1, <1>2, <1>3, <1>4, <1>5 DEF t

(* What is behind the objects *)
LEMMA RestFacts ==
    ASSUME NEW f, NEW O \in SUBSET f, NEW end \in Nat, Extents(f), DataArea(f, O, end),
           NEW r \in f \ O
    PROVE  /\ r.lo \in Nat /\ r.hi \in Nat /\ r.lo >= end /\ r.lo < r.hi /\ r.hi <= PartSize
           /\ Unfinished(r, O, end) =>
                r.lo = end /\ r.hi <= PlannedSwap(ActiveSize(O)) /\ end < ObjectOffsetLimit
           /\ ~Unfinished(r, O, end) =>
                /\ Residue(r, O) /\ r.lo > end + 3 /\ r.lo >= PlannedSwap(ActiveSize(O)) + 4
           /\ r.lo = end => Unfinished(r, O, end)
<1> DEFINE t == ActiveSize(O)
<1>1. /\ SwapStart(t) \in Int /\ PlannedSwap(t) \in Int
      /\ PlannedSwap(t) <= SwapStart(t) /\ PlannedSwap(t) <= PartSize - BlockSize
      /\ end <= PlannedSwap(t)
    BY DataAreaFacts
<1>2. Unfinished(r, O, end) => r.lo = end /\ r.hi <= PlannedSwap(t) /\ end + MinSize <= PlannedSwap(t)
    BY DEF Unfinished
<1>3. ~Unfinished(r, O, end) => Residue(r, O) /\ SwapStart(t) + 4 <= r.lo
    BY DEF DataArea, Residue, Demarc
<1>4. r.lo \in Nat /\ r.hi \in Nat /\ r.lo < r.hi /\ r.hi <= PartSize
    BY DEF Extents, Extent
<1> HIDE DEF t
<1>5. Unfinished(r, O, end) => end < ObjectOffsetLimit
    BY <1>2, <1>1, ObjSizes, BlockSizeAssumption, PartSizeAssumption
    DEF ObjectOffsetLimit, ObjHdr
<1>6. ~Unfinished(r, O, end) => r.lo > end + 3 /\ r.lo >= PlannedSwap(t) + 4
    BY <1>1, <1>3, <1>4
<1>7. r.lo >= end /\ (r.lo = end => Unfinished(r, O, end))
    BY <1>1, <1>2, <1>4, <1>6
<1> QED
    BY <1>2, <1>3, <1>4, <1>5, <1>6, <1>7 DEF t

(* What a reader finds in the data area: the objects, and one that is to   *)
(* replace one of them                                                     *)
LEMMA DataChainIs ==
    ASSUME NEW f, NEW O \in SUBSET f, NEW end \in Nat, Extents(f), DataArea(f, O, end)
    PROVE  DataChain(f) = O \cup ObjectsAt(f, end)
<1> DEFINE dup == ObjectsAt(f, end)
<1>1. ObjectOffsetLimit \in Int
    BY PartSizeAssumption, BlockSizeAssumption DEF ObjectOffsetLimit, ObjHdr
<1>2. Tiles(O, 0, end) /\ Extents(O)
    BY DataAreaFacts DEF DataArea, Area
<1>5. \A e \in O : e.lo < end
    BY DataAreaFacts
<1>6. ASSUME NEW r \in f \ O
      PROVE  /\ r.lo = end => Unfinished(r, O, end)
             /\ Unfinished(r, O, end) => r.hi <= PlannedSwap(ActiveSize(O))
             /\ ~Unfinished(r, O, end) => r.lo >= PlannedSwap(ActiveSize(O)) + 4
             /\ r.lo \in Nat /\ r.hi \in Nat
    BY RestFacts
<1>7. PlannedSwap(ActiveSize(O)) \in Int
    BY DataAreaFacts
<1>3. CASE dup = {}
    <2>1. \A e \in f \ O : e.lo = end => e.k # "obj"
        BY <1>3 DEF ObjectsAt
    <2>2. \A e \in f \ O : e.lo >= end
        BY RestFacts
    <2>3. \A e \in O : e.lo < ObjectOffsetLimit
        BY DataAreaFacts
    <2>4. Chain(f, 0, ObjectOffsetLimit) = O
        BY <1>1, <1>2, <2>1, <2>2, <2>3, ChainIs
    <2> QED
        BY <1>3, <2>4 DEF DataChain
<1>4. ASSUME NEW r \in dup PROVE DataChain(f) = O \cup dup
    <2>1. r \in f /\ r.lo = end /\ r.k = "obj" /\ r \in Extent /\ r.lo < r.hi /\ r.hi \in Nat
        BY DEF ObjectsAt, Extents, Extent
    <2>2. r \notin O
        BY <2>1, <1>5
    <2>3. Unfinished(r, O, end)
        BY <2>1, <2>2, <1>6
    <2>4. dup = {r}
        BY <2>1 DEF ObjectsAt, Extents, Extent
    <2>5. Tiles(O \cup {r}, 0, r.hi)
        BY <1>2, <2>1, TilesAdd
    <2>6. \A e \in O \cup {r} : e.lo < ObjectOffsetLimit
        BY <2>1, <2>2, <2>3, DataAreaFacts, RestFacts
    <2>7. ASSUME NEW e \in f \ (O \cup {r}) PROVE e.lo > r.hi
        <3>1. ~Unfinished(e, O, end)
            BY <2>1, <2>7 DEF Unfinished, Extents, Extent
        <3>2. e.lo >= PlannedSwap(ActiveSize(O)) + 4 /\ r.hi <= PlannedSwap(ActiveSize(O))
            BY <2>1, <2>2, <2>3, <2>7, <3>1, <1>6
        <3> QED
            BY <3>2, <2>1, <2>7, <1>6, <1>7
    <2>8. \A e \in f \ (O \cup {r}) : e.lo >= r.hi /\ e.lo # r.hi
        BY <2>1, <2>7 DEF Extents, Extent
    <2>9. Chain(f, 0, ObjectOffsetLimit) = O \cup {r}
        BY <1>1, <2>1, <2>5, <2>6, <2>8, ChainIs
    <2> QED
        BY <2>4, <2>9 DEF DataChain
<1> QED
    BY <1>3, <1>4

(* psm_part_scan accepts the objects of the data area and no other *)
LEMMA AcceptedIs ==
    ASSUME NEW f, NEW O \in SUBSET f, NEW end \in Nat, Extents(f), DataArea(f, O, end)
    PROVE  Accepted(f) = O
<1>5. \A e \in O : e.lo < end
    BY DataAreaFacts
<1>6. ASSUME NEW r \in f \ O
      PROVE  r.lo \in Nat /\ r.lo >= end /\ (r.lo = end => Unfinished(r, O, end))
    BY RestFacts
<1>7. \A r \in f : r.lo \in Nat
    BY DEF Extents, Extent
<1>1. ASSUME NEW d \in O PROVE ~IsDouble(f, d)
    <2>1. SUFFICES ASSUME d.live, NEW c \in f, c.k = "obj", c.live, c.id = d.id, c.lo < d.lo
                   PROVE  FALSE
        BY DEF IsDouble
    <2>2. c \in O
        BY <2>1, <1>5, <1>6, <1>7
    <2>3. c = d
        BY <2>1, <2>2 DEF DataArea, Area, Catalogue
    <2> QED
        BY <2>1, <2>3, <1>7
<1>2. ASSUME NEW r \in ObjectsAt(f, end)
      PROVE  IsDouble(f, r) /\ r \notin O /\ \A e \in O : e.lo < r.lo
    <2>1. r \in f /\ r.lo = end /\ r.k = "obj"
        BY DEF ObjectsAt
    <2>2. r \notin O /\ \A e \in O : e.lo < r.lo
        BY <2>1, <1>5
    <2>3. Unfinished(r, O, end)
        BY <2>1, <2>2, <1>6
    <2>4. PICK o \in O : o.live /\ o.id = r.id /\ r.live
        BY <2>1, <2>3 DEF Unfinished
    <2>5. o.k = "obj" /\ o.lo < r.lo /\ o \in f
        BY <2>2, <2>4 DEF DataArea, Area, Tiles
    <2> QED
        BY <2>2, <2>4, <2>5 DEF IsDouble
<1>3. DataChain(f) = O \cup ObjectsAt(f, end)
    BY DataChainIs
<1>4. \A r \in ObjectsAt(f, end) : ~(r.lo < r.lo)
    BY DEF ObjectsAt, Extents, Extent
<1> QED
    BY <1>1, <1>2, <1>3, <1>4 DEF Accepted

-----------------------------------------------------------------------------
(***************************************************************************)
(* The scan                                                                *)
(***************************************************************************)
(* The highest id psm_part_scan sees fits, and no id is above it *)
LEMMA HighestIs ==
    ASSUME NEW f, NEW O \in SUBSET f, NEW end \in Nat, Extents(f), DataArea(f, O, end)
    PROVE  LET h == HighestId(O \cup ObjectsAt(f, end))
           IN  h \in Nat /\ IdRoom(h, end) /\ \A e \in O : e.id <= h
<1> DEFINE ids == {0} \cup {e.id : e \in O \cup ObjectsAt(f, end)}
<1>1. \A e \in O : e.id \in Nat /\ IdRoom(e.id, end)
    <2>1. ASSUME NEW e \in O PROVE e.id \in Nat /\ IdRoom(e.id, end)
        <3>1. e.id \in Nat /\ e.hi \in Nat /\ IdRoom(e.id, e.hi - 0) /\ e.hi <= end
            BY DataAreaFacts DEF DataArea, Area, Catalogue, Extents, Extent
        <3>2. e.hi - 0 <= end /\ e.hi - 0 \in Int
            BY <3>1
        <3> QED
            BY <3>1, <3>2, IdRoomMore
    <2> QED
        BY <2>1
<1>2. ASSUME NEW r \in ObjectsAt(f, end) PROVE \E o \in O : o.id = r.id
    <2>1. r \in f /\ r.lo = end /\ r.k = "obj"
        BY DEF ObjectsAt
    <2>2. CASE r \in O
        BY <2>2
    <2>3. CASE r \notin O
        <3>1. Unfinished(r, O, end)
            BY <2>1, <2>3, RestFacts
        <3> QED
            BY <2>1, <3>1 DEF Unfinished
    <2> QED
        BY <2>2, <2>3
<1>3. \A x \in ids : x \in Nat /\ IdRoom(x, end)
    BY <1>1, <1>2, IdRoomNone
<1>4. \A x \in ids : x <= MaxObjects
    BY <1>3 DEF IdRoom
<1>5. ids \in SUBSET Nat /\ ids # {}
    BY <1>3
<1> HIDE DEF ids
<1>6. Max(ids) \in ids /\ \A x \in ids : x <= Max(ids)
    BY <1>4, <1>5, MaxIn, PsmAssumption
<1>7. \A e \in O : e.id \in ids
    BY DEF ids
<1>8. HighestId(O \cup ObjectsAt(f, end)) = Max(ids)
    BY DEF HighestId, ids
<1> QED
    BY <1>3, <1>6, <1>7, <1>8

(* The scan counts O; it succeeds when nothing lies directly behind O; it  *)
(* changes nothing but the kind of what does.                              *)
LEMMA ScanIs ==
    ASSUME NEW f, NEW O \in SUBSET f, NEW end \in Nat, Extents(f), DataArea(f, O, end)
    PROVE  /\ Scan(f).total = ActiveSize(O) /\ Scan(f).free = end
           /\ Scan(f).high \in Nat /\ IdRoom(Scan(f).high, end)
           /\ \A e \in O : e.id <= Scan(f).high
           /\ Scan(f).ok <=> \A r \in f \ O : ~Unfinished(r, O, end)
           /\ Scan(f).ok => Scan(f).fl = f
           /\ Extents(Scan(f).fl) /\ DataArea(Scan(f).fl, O, end)
           /\ \A q \in Scan(f).fl \ O : \E r \in f \ O :
                /\ q.lo = r.lo
                /\ Unfinished(r, O, end) => Unfinished(q, O, end)
<1> DEFINE at  == ObjectsAt(f, end)
           dup == IF end < ObjectOffsetLimit THEN at ELSE {}
<1>1. Accepted(f) = O /\ ChainEnd(O) = end
    BY AcceptedIs, TilesEnd, DataAreaFacts DEF DataArea, Area
<1>2. ASSUME NEW r \in at
      PROVE  r \in f \ O /\ Unfinished(r, O, end) /\ end < ObjectOffsetLimit
    <2>1. r \in f /\ r.lo = end /\ r.k = "obj"
        BY DEF ObjectsAt
    <2>2. \A e \in O : e.lo < end
        BY DataAreaFacts
    <2>3. r \in f \ O
        BY <2>1, <2>2
    <2>4. r.lo = end => Unfinished(r, O, end)
        BY <2>3, RestFacts
    <2> QED
        BY <2>1, <2>3, <2>4, RestFacts
<1>3. dup = at
    BY <1>2
<1> DEFINE g == (f \ at) \cup {Unreadable("dead", e.lo, e.hi) : e \in at}
<1>4. Scan(f) = [total |-> ActiveSize(O), free |-> end, high |-> HighestId(O \cup at),
                 ok |-> ScanOk(f, end, at), fl |-> g]
    BY <1>1, <1>3 DEF Scan
<1>5. ScanOk(f, end, at) <=> \A r \in f \ O : ~Unfinished(r, O, end)
    <2>1. ASSUME NEW r \in f \ O, Unfinished(r, O, end) PROVE ~ScanOk(f, end, at)
        <3>1. /\ r.lo = end /\ end < ObjectOffsetLimit
              /\ r.lo < r.hi /\ r.hi \in Nat
            BY <2>1, RestFacts
        <3>2. Overlaps(r, end, end + 2)
            BY <3>1 DEF Overlaps
        <3>3. ~(end >= ObjectOffsetLimit)
            BY <3>1, PartSizeAssumption, BlockSizeAssumption DEF ObjectOffsetLimit, ObjHdr
        <3> QED
            BY <3>2, <3>3 DEF ScanOk, IsBlank
    <2>2. ASSUME \A r \in f \ O : ~Unfinished(r, O, end) PROVE ScanOk(f, end, at)
        <3>1. at = {}
            BY <1>2, <2>2
        <3>2. ASSUME NEW e \in f PROVE ~Overlaps(e, end, end + 2)
            <4>1. CASE e \in O
                <5>1. e.hi <= end /\ e.hi \in Nat
                    BY <4>1, DataAreaFacts DEF Extents, Extent
                <5> QED
                    BY <5>1 DEF Overlaps
            <4>2. CASE e \notin O
                <5>1. e.lo > end + 3 /\ e.lo \in Nat
                    BY <2>2, <4>2, RestFacts
                <5> QED
                    BY <5>1 DEF Overlaps
            <4> QED
                BY <4>1, <4>2
        <3> QED
            BY <3>1, <3>2 DEF ScanOk, IsBlank
    <2> QED
        BY <2>1, <2>2
<1>6. ScanOk(f, end, at) => g = f
    BY DEF ScanOk
<1>7. ASSUME NEW q \in g
      PROVE  \/ q \in f \ at
             \/ \E e \in at : /\ q \in Extent /\ q.k = "dead" /\ q.lo = e.lo /\ q.hi = e.hi
                              /\ q \notin O
    <2>1. CASE q \in f \ at
        BY <2>1
    <2>2. ASSUME NEW e \in at, q = Unreadable("dead", e.lo, e.hi)
          PROVE  /\ q \in Extent /\ q.k = "dead" /\ q.lo = e.lo /\ q.hi = e.hi
                 /\ q \notin O
        <3>1. q \in Extent /\ q.k = "dead" /\ q.lo = e.lo /\ q.hi = e.hi
            BY <2>2 DEF Unreadable, Extent, Extents, ObjectsAt, Kinds
        <3>2. q \notin O
            BY <3>1 DEF DataArea, Area, Tiles
        <3> QED
            BY <3>1, <3>2
    <2> QED
        BY <2>1, <2>2
<1>8. Extents(g)
    <2>1. ASSUME NEW q \in g PROVE \E e \in f : q.lo = e.lo /\ q.hi = e.hi /\ q \in Extent
        BY <1>7 DEF Extents, ObjectsAt
    <2>2. \A d, e \in at : d = e
        BY DEF ObjectsAt, Extents, Extent
    <2>3. ASSUME NEW p \in g, NEW q \in g PROVE p = q \/ p.hi <= q.lo \/ q.hi <= p.lo
        <3>1. CASE p \in f \ at /\ q \in f \ at
            BY <3>1 DEF Extents
        <3>2. CASE p \in f \ at /\ q \notin f \ at
            BY <3>2, <1>7 DEF Extents, ObjectsAt
        <3>3. CASE p \notin f \ at /\ q \in f \ at
            BY <3>3, <1>7 DEF Extents, ObjectsAt
        <3>4. CASE p \notin f \ at /\ q \notin f \ at
            BY <3>4, <2>2
        <3> QED
            BY <3>1, <3>2, <3>3, <3>4
    <2> QED
        BY <2>1, <2>3 DEF Extents
<1>9. ASSUME NEW q \in g \ O
      PROVE  \E r \in f \ O : /\ q.lo = r.lo
                              /\ Unfinished(r, O, end) => Unfinished(q, O, end)
                              /\ Residue(r, O) => Residue(q, O)
    <2>1. CASE q \in f
        BY <2>1
    <2>2. CASE q \notin f
        <3>1. PICK e \in at : q.k = "dead" /\ q.lo = e.lo /\ q.hi = e.hi
            BY <2>2, <1>7
        <3> QED
            BY <3>1, <1>2 DEF Unfinished, Residue
    <2> QED
        BY <2>1, <2>2
<1>10. DataArea(g, O, end)
    <2>1. O \subseteq g
        BY <1>2
    <2>2. \A q \in g \ O : Unfinished(q, O, end) \/ Residue(q, O)
        BY <1>9 DEF DataArea
    <2> QED
        BY <2>1, <2>2 DEF DataArea
<1>11. LET h == HighestId(O \cup at)
       IN  h \in Nat /\ IdRoom(h, end) /\ \A e \in O : e.id <= h
    BY HighestIs
<1>12. /\ Scan(f).total = ActiveSize(O) /\ Scan(f).free = end
       /\ Scan(f).high = HighestId(O \cup at) /\ Scan(f).ok = ScanOk(f, end, at)
       /\ Scan(f).fl = g
    BY <1>4
<1>13. /\ Scan(f).high \in Nat /\ IdRoom(Scan(f).high, end)
       /\ \A e \in O : e.id <= Scan(f).high
    BY <1>11, <1>12
<1> HIDE DEF at, g
<1> QED
    BY <1>5, <1>6, <1>8, <1>9, <1>10, <1>12, <1>13

-----------------------------------------------------------------------------
(***************************************************************************)
(* What a restart restores                                                 *)
(***************************************************************************)
(* A reader of the swap area finds the copies *)
LEMMA SwapChainIs ==
    ASSUME NEW f, NEW C \in SUBSET f, NEW s \in Nat, Extents(f), SwapArea(f, C, s)
    PROVE  Chain(f, SwapData(s), SwapLimit) = C
<1> DEFINE t == ActiveSize(C)
           a == SwapData(s)
           b == SwapData(s) + t
<1>1. Extents(C) /\ t \in Nat
    BY ExtentsSubset, SizeType
<1>2. a \in Nat /\ a = s + 4 /\ b \in Nat /\ a <= b /\ b < SwapLimit /\ SwapLimit \in Int
    BY <1>1, PartSizeAssumption DEF SwapArea, SwapData, Demarc, SwapLimit, DescSize
<1>3. Tiles(C, a, b)
    BY DEF SwapArea, Area
<1>4. \A r \in f \ C : r.hi <= s /\ r.hi \in Nat /\ r.lo \in Nat /\ r.lo < r.hi
    BY DEF SwapArea, Extents, Extent
<1>5. \A e \in C : e.lo < e.hi /\ e.hi <= b /\ e.lo \in Nat /\ e.hi \in Nat
    BY <1>3 DEF Tiles, Extents, Extent
<1> HIDE DEF t, a, b
<1>6. \A e \in C : e.lo < SwapLimit
    BY <1>2, <1>5
<1>7. \A r \in f \ C : (r.lo >= b \/ r.hi <= a) /\ r.lo # b
    BY <1>2, <1>4
<1>8. Chain(f, a, SwapLimit) = C
    BY <1>2, <1>3, <1>6, <1>7, ChainIs
<1> QED
    BY <1>8 DEF a

(* The value of name n in a set P of pairs of name and value *)
Paired(P, n) ==
    IF \E p \in P : p[1] = n THEN (CHOOSE p \in P : p[1] = n)[2] ELSE NoValue

(* The value of a name among objects is the one paired with it *)
LEMMA ValueInPairs ==
    ASSUME NEW S, NEW a, Catalogue(S, a), NEW n
    PROVE  /\ ValueIn({e \in S : e.live /\ e.nm = n}) = Paired(Pairs(S), n)
           /\ \A e \in S : e.live /\ e.nm = n => Paired(Pairs(S), n) = e.vl
<1> DEFINE hits == {e \in S : e.live /\ e.nm = n}
<1>1. \A d, e \in hits : d = e
    BY DEF Catalogue
<1>2. \A e \in hits : e.good
    BY DEF Catalogue
<1>3. CASE hits = {}
    <2>1. ~\E p \in Pairs(S) : p[1] = n
        BY <1>3 DEF Pairs
    <2>2. ValueIn(hits) = NoValue
        BY <1>3 DEF ValueIn
    <2> QED
        BY <1>3, <2>1, <2>2 DEF Paired
<1>4. ASSUME NEW e \in hits PROVE ValueIn(hits) = e.vl /\ Paired(Pairs(S), n) = e.vl
    <2>1. ValueIn(hits) = e.vl
        BY <1>1, <1>2 DEF ValueIn
    <2>2. <<n, e.vl>> \in Pairs(S)
        BY DEF Pairs
    <2>3. \A p \in Pairs(S) : p[1] = n => p = <<n, e.vl>>
        BY <1>1 DEF Pairs
    <2>4. Paired(Pairs(S), n) = e.vl
        BY <2>2, <2>3 DEF Paired
    <2> QED
        BY <2>1, <2>4
<1> QED
    BY <1>3, <1>4

(* The store holds the pairs of the objects a recovery would restore *)
LEMMA DurableIs ==
    ASSUME NEW S, NEW a, Catalogue(S, a), Restored = S
    PROVE  Durable = [n \in Names |-> Paired(Pairs(S), n)]
<1>1. ASSUME NEW n \in Names
      PROVE  ValueIn({e \in {x \in S : x.live} : e.nm = n}) = Paired(Pairs(S), n)
    <2>1. {e \in {x \in S : x.live} : e.nm = n} = {e \in S : e.live /\ e.nm = n}
        OBVIOUS
    <2> QED
        BY <2>1, ValueInPairs
<1> QED
    BY <1>1 DEF Durable

(* A recovery restores the data area while the descriptor is not valid *)
LEMMA RestoredData ==
    ASSUME NEW O \in SUBSET fl, NEW end \in Nat, Extents(fl), DataArea(fl, O, end), ~DescValid
    PROVE  /\ Restored = O /\ Durable = [n \in Names |-> Paired(Pairs(O), n)]
           /\ Occupied = <<ActiveSize(O), end>>
<1>1. Accepted(fl) = O /\ Restored = O
    BY AcceptedIs DEF Restored
<1>2. Catalogue(O, 0)
    BY DEF DataArea, Area
<1>3. ChainEnd(O) = end
    BY TilesEnd, ExtentsSubset DEF DataArea, Area
<1>4. Occupied = <<ActiveSize(O), end>>
    BY <1>1, <1>3 DEF Occupied
<1> QED
    BY <1>1, <1>2, <1>4, DurableIs

(* A recovery restores the swap area when the descriptor is valid *)
LEMMA RestoredSwap ==
    ASSUME NEW C \in SUBSET fl, Extents(fl), desc.start \in Int, DescValid,
           SwapArea(fl, C, desc.start)
    PROVE  /\ Restored = C /\ Durable = [n \in Names |-> Paired(Pairs(C), n)]
           /\ Occupied = <<ActiveSize(C), ActiveSize(C)>>
<1>1. desc.start \in Nat
    BY DEF DescValid
<1>2. Restored = C
    BY <1>1, SwapChainIs DEF Restored
<1>3. Catalogue(C, SwapData(desc.start))
    BY DEF SwapArea, Area
<1> QED
    BY <1>2, <1>3, DurableIs DEF Occupied

-----------------------------------------------------------------------------
(***************************************************************************)
(* The search                                                              *)
(***************************************************************************)
(* There is exactly one first object *)
LEMMA FirstExists ==
    ASSUME NEW S, Extents(S), S # {}
    PROVE  \E e \in S : First(S) = {e}
<1> DEFINE los == {e.lo : e \in S}
<1>1. los \in SUBSET Nat /\ los # {}
    BY DEF Extents, Extent
<1>2. PICK x \in los : \A y \in los : x <= y
    BY <1>1, Least
<1>3. PICK e \in S : x = e.lo
    OBVIOUS
<1>4. \A d \in S : e.lo <= d.lo
    BY <1>2, <1>3
<1>5. \A d \in S : d.lo <= e.lo => d = e
    BY <1>4 DEF Extents, Extent
<1> QED
    BY <1>4, <1>5 DEF First

(* The search finds the active object of the name, and the id of the name. *)
LEMMA SearchIs ==
    ASSUME Extents(fl), NEW a, Catalogue(fl, a), DataChain(fl) = fl, NEW nm
    PROVE  /\ Search(nm).obj = {e \in fl : e.live /\ e.nm = nm}
           /\ Search(nm).id = InvalidId \/ \E e \in fl : e.nm = nm /\ e.id = Search(nm).id
           /\ \A e \in fl : e.nm = nm => Search(nm).id = e.id
<1> DEFINE named == {e \in fl : e.nm = nm}
           first == First(named)
           id    == IF first = {} THEN InvalidId ELSE (CHOOSE e \in first : TRUE).id
           hits  == {e \in fl : /\ e.live /\ \E d \in first : d.lo <= e.lo
                                /\ IF id = InvalidId THEN e.nm = nm ELSE e.id = id}
           live  == {e \in fl : e.live /\ e.nm = nm}
<1>1. Search(nm) = [id |-> id, obj |-> First(hits)]
    BY DEF Search
<1>2. CASE named = {}
    <2>1. first = {}
        BY <1>2 DEF First
    <2>2. hits = {} /\ First(hits) = {} /\ live = {}
        BY <1>2, <2>1 DEF First
    <2> QED
        BY <1>1, <1>2, <2>1, <2>2
<1>3. CASE named # {}
    <2>1. Extents(named)
        BY ExtentsSubset
    <2>2. PICK e \in named : first = {e}
        BY <1>3, <2>1, FirstExists
    <2>3. id = e.id
        BY <2>2
    <2>4. \A d \in named : d.id = id
        BY <2>3 DEF Catalogue
    <2>5. \A d \in named : e.lo <= d.lo
        BY <2>2 DEF First
    <2>6. \A d \in fl : d.id = id <=> d.nm = nm
        BY <2>3 DEF Catalogue
    <2>7. hits = live
        <3> HIDE DEF id, first
        <3> QED
            BY <2>2, <2>5, <2>6
    <2>8. \A d, c \in live : d = c
        BY DEF Catalogue
    <2>9. First(live) = live
        <3>1. \A d \in live : d.lo <= d.lo
            BY DEF Extents, Extent
        <3> QED
            BY <2>8, <3>1 DEF First
    <2> HIDE DEF id, hits, live, first
    <2>10. Search(nm).obj = live /\ Search(nm).id = id
        BY <1>1, <2>7, <2>9
    <2> QED
        BY <2>2, <2>3, <2>4, <2>10 DEF live
<1> QED
    BY <1>2, <1>3

-----------------------------------------------------------------------------
(***************************************************************************)
(* Programming and erasing                                                 *)
(***************************************************************************)
(* The parts of an unreadable extent *)
LEMMA UnreadableIs ==
    ASSUME NEW lo \in Nat, NEW hi \in Nat, NEW k \in Kinds
    PROVE  LET e == Unreadable(k, lo, hi)
           IN  e \in Extent /\ e.lo = lo /\ e.hi = hi /\ e.k = k /\ ~e.live
BY DEF Unreadable, Extent

(* Programming blank flash adds the extent *)
LEMMA ProgramBlank ==
    ASSUME NEW f, NEW e, IsBlank(f, e.lo, e.hi)
    PROVE  Program(f, e) = f \cup {e}
BY DEF Program, IsBlank

(* An extent may be added where the flash is blank *)
LEMMA ExtentsAdd ==
    ASSUME NEW f, Extents(f), NEW e \in Extent, e.lo < e.hi, e.hi <= PartSize,
           \A d \in f : d.hi <= e.lo \/ e.hi <= d.lo
    PROVE  Extents(f \cup {e})
BY DEF Extents

(* Flash that no extent reaches is blank *)
LEMMA BlankBehind ==
    ASSUME NEW f, Extents(f), NEW lo \in Nat, NEW hi \in Nat,
           \A d \in f : d.hi <= lo \/ hi <= d.lo
    PROVE  IsBlank(f, lo, hi)
BY DEF IsBlank, Overlaps, Extents, Extent

(* A block erase removes what lies in the block and cuts what reaches out  *)
(* of it.                                                                  *)
LEMMA EraseShape ==
    ASSUME NEW f, Extents(f), NEW b \in Nat, NEW r \in EraseBlock(f, b)
    PROVE  \/ r \in f /\ (r.hi <= b \/ b + BlockSize <= r.lo)
           \/ \E e \in f :
                /\ r \in Extent /\ r.k = "junk" /\ e.lo < b + BlockSize /\ b < e.hi
                /\ \/ e.lo < b /\ r.lo = e.lo /\ r.hi = b
                   \/ b + BlockSize < e.hi /\ r.lo = b + BlockSize /\ r.hi = e.hi
<1>1. PICK e \in f : r \in Remains(e, b)
    BY DEF EraseBlock
<1>2. e.lo \in Nat /\ e.hi \in Nat /\ b + BlockSize \in Nat
    BY BlockSizeAssumption DEF Extents, Extent
<1>3. "junk" \in Kinds
    BY DEF Kinds
<1>4. CASE ~Overlaps(e, b, b + BlockSize)
    BY <1>1, <1>2, <1>4, BlockSizeAssumption DEF Remains, Overlaps
<1>5. CASE Overlaps(e, b, b + BlockSize)
    <2>1. PICK p \in {<<e.lo, b>>, <<b + BlockSize, e.hi>>} :
             p[1] < p[2] /\ r = Unreadable("junk", p[1], p[2])
        BY <1>1, <1>5 DEF Remains
    <2>2. e.lo < b + BlockSize /\ b < e.hi
        BY <1>5 DEF Overlaps
    <2>3. CASE p = <<e.lo, b>>
        <3>1. e.lo < b /\ r = Unreadable("junk", e.lo, b)
            BY <2>1, <2>3
        <3>2. r \in Extent /\ r.k = "junk" /\ r.lo = e.lo /\ r.hi = b
            BY <3>1, <1>2, <1>3, UnreadableIs
        <3> QED
            BY <3>1, <3>2, <2>2
    <2>4. CASE p = <<b + BlockSize, e.hi>>
        <3>1. b + BlockSize < e.hi /\ r = Unreadable("junk", b + BlockSize, e.hi)
            BY <2>1, <2>4
        <3>2. r \in Extent /\ r.k = "junk" /\ r.lo = b + BlockSize /\ r.hi = e.hi
            BY <3>1, <1>2, <1>3, UnreadableIs
        <3> QED
            BY <3>1, <3>2, <2>2
    <2> QED
        BY <2>1, <2>3, <2>4
<1> QED
    BY <1>4, <1>5

(* An erase leaves the extents outside its block *)
LEMMA EraseKeeps ==
    ASSUME NEW f, Extents(f), NEW b \in Nat, NEW e \in f, e.hi <= b \/ b + BlockSize <= e.lo
    PROVE  e \in EraseBlock(f, b)
<1>1. e.lo \in Nat /\ e.hi \in Nat /\ b + BlockSize \in Nat
    BY BlockSizeAssumption DEF Extents, Extent
<1>2. ~Overlaps(e, b, b + BlockSize)
    BY <1>1 DEF Overlaps
<1> QED
    BY <1>2 DEF EraseBlock, Remains

(* An erase leaves extents *)
LEMMA EraseExtents ==
    ASSUME NEW f, Extents(f), NEW b \in Nat, b + BlockSize <= PartSize
    PROVE  Extents(EraseBlock(f, b))
<1> DEFINE g == EraseBlock(f, b)
           end == b + BlockSize
           Low(r, e) == e.lo < b /\ r = Unreadable("junk", e.lo, b)
           High(r, e) == end < e.hi /\ r = Unreadable("junk", end, e.hi)
           Cut(r, e) == e.lo < end /\ b < e.hi /\ (Low(r, e) \/ High(r, e))
           Same(r, e) == r = e /\ (e.hi <= b \/ end <= e.lo)
<1>1. end \in Nat /\ b < end /\ end <= PartSize /\ PartSize \in Nat
    BY BlockSizeAssumption, PartSizeAssumption
<1>2. \A e \in f : e \in Extent /\ e.lo \in Nat /\ e.hi \in Nat /\ e.lo < e.hi /\ e.hi <= PartSize
    BY DEF Extents, Extent
<1>3. ASSUME NEW r \in g PROVE \E e \in f : Same(r, e) \/ Cut(r, e)
    <2>1. PICK e \in f : r \in Remains(e, b)
        BY DEF EraseBlock
    <2>2. CASE ~Overlaps(e, b, end)
        BY <2>1, <2>2, <1>1, <1>2 DEF Remains, Overlaps
    <2>3. CASE Overlaps(e, b, end)
        <3>1. PICK p \in {<<e.lo, b>>, <<end, e.hi>>} :
                 p[1] < p[2] /\ r = Unreadable("junk", p[1], p[2])
            BY <2>1, <2>3 DEF Remains
        <3>2. Low(r, e) \/ High(r, e)
            BY <3>1
        <3> QED
            BY <2>3, <3>2 DEF Overlaps
    <2> QED
        BY <2>2, <2>3
<1>4. ASSUME NEW e \in f, NEW r, Low(r, e)
      PROVE  r \in Extent /\ r.lo = e.lo /\ r.hi = b /\ e.lo < b
    BY <1>2, <1>4, UnreadableIs DEF Kinds
<1>5. ASSUME NEW e \in f, NEW r, High(r, e)
      PROVE  r \in Extent /\ r.lo = end /\ r.hi = e.hi /\ end < e.hi
    BY <1>1, <1>2, <1>5, UnreadableIs DEF Kinds
<1>6. ASSUME NEW e \in f, NEW p, NEW q, Low(p, e), Low(q, e) PROVE p = q
    BY <1>6
<1>7. ASSUME NEW e \in f, NEW p, NEW q, High(p, e), High(q, e) PROVE p = q
    BY <1>7
<1> HIDE DEF g, end, Low, High
<1>8. ASSUME NEW r \in g PROVE r \in Extent /\ r.lo < r.hi /\ r.hi <= PartSize
    BY <1>1, <1>2, <1>3, <1>4, <1>5
<1>9. ASSUME NEW p \in g, NEW q \in g PROVE p = q \/ p.hi <= q.lo \/ q.hi <= p.lo
    <2>1. PICK d \in f : Same(p, d) \/ Cut(p, d)
        BY <1>3
    <2>2. PICK e \in f : Same(q, e) \/ Cut(q, e)
        BY <1>3
    <2>3. CASE d # e
        <3>1. d.hi <= e.lo \/ e.hi <= d.lo
            BY <2>3 DEF Extents
        <3>2. d.lo <= p.lo /\ p.hi <= d.hi /\ p.lo \in Nat /\ p.hi \in Nat
            BY <2>1, <1>1, <1>2, <1>4, <1>5
        <3>3. e.lo <= q.lo /\ q.hi <= e.hi /\ q.lo \in Nat /\ q.hi \in Nat
            BY <2>2, <1>1, <1>2, <1>4, <1>5
        <3> QED
            BY <3>1, <3>2, <3>3, <1>2
    <2>4. CASE d = e
        <3>1. CASE Same(p, d) /\ Same(q, d)
            BY <3>1
        <3>2. CASE Same(p, d) /\ Cut(q, d)
            BY <3>2, <1>1, <1>2
        <3>3. CASE Cut(p, d) /\ Same(q, d)
            BY <3>3, <1>1, <1>2
        <3>4. CASE Low(p, d) /\ High(q, d)
            BY <3>4, <1>1, <1>4, <1>5
        <3>5. CASE High(p, d) /\ Low(q, d)
            BY <3>5, <1>1, <1>4, <1>5
        <3>6. CASE Low(p, d) /\ Low(q, d)
            BY <3>6, <1>6
        <3>7. CASE High(p, d) /\ High(q, d)
            BY <3>7, <1>7
        <3> QED
            BY <2>1, <2>2, <2>4, <3>1, <3>2, <3>3, <3>4, <3>5, <3>6, <3>7
    <2> QED
        BY <2>3, <2>4
<1> QED
    BY <1>8, <1>9 DEF Extents, g

-----------------------------------------------------------------------------
(***************************************************************************)
(* Objects added to an area, and objects made inactive                     *)
(***************************************************************************)
(* A new object adds its pair when it is active *)
LEMMA PairsAdd ==
    ASSUME NEW S, NEW e
    PROVE  /\ e.live => Pairs(S \cup {e}) = Pairs(S) \cup {<<e.nm, e.vl>>}
           /\ ~e.live => Pairs(S \cup {e}) = Pairs(S)
<1>1. ASSUME e.live PROVE {x \in S \cup {e} : x.live} = {x \in S : x.live} \cup {e}
    BY <1>1
<1>2. ASSUME ~e.live PROVE {x \in S \cup {e} : x.live} = {x \in S : x.live}
    BY <1>2
<1> QED
    BY <1>1, <1>2 DEF Pairs

(* An object whose id fits may be added to a catalogue *)
LEMMA CatalogueAdd ==
    ASSUME NEW S, NEW a, Catalogue(S, a), NEW e,
           e.good, e.nm \in Names, e.id >= 1, IdRoom(e.id, e.hi - a), MinSize <= SizeOf(e),
           e.live => e.vl \in Values /\ SizeOf(e) = ObjSize(LenOf[e.vl]),
           \A d \in S : d.nm = e.nm <=> d.id = e.id,
           e.live => \A d \in S : d.live => d.id # e.id
    PROVE  Catalogue(S \cup {e}, a)
BY DEF Catalogue

(* The parts of an object made inactive *)
LEMMA InactiveIs ==
    ASSUME NEW e \in Extent
    PROVE  LET d == Inactive(e)
           IN  /\ d \in Extent /\ d.lo = e.lo /\ d.hi = e.hi /\ d.k = e.k /\ d.id = e.id
               /\ d.nm = e.nm /\ d.good = e.good /\ ~d.live /\ d.vl = NoValue
BY DEF Inactive, Extent

(* An object made inactive takes its bytes and its pair out of the store *)
LEMMA InactivateOne ==
    ASSUME NEW f, Extents(f), NEW a \in Nat, NEW b \in Nat, Area(f, a, b), NEW o \in f, o.live
    PROVE  LET g == Inactivate(f, {o})
           IN  /\ Extents(g) /\ Area(g, a, b)
               /\ ActiveSize(g) = ActiveSize(f) - SizeOf(o)
               /\ Pairs(g) = {p \in Pairs(f) : p[1] # o.nm}
               /\ \A e \in g : \E d \in f : d.id = e.id
<1> DEFINE rest == f \ {o}
           d == Inactive(o)
           g == rest \cup {d}
<1>1. g = Inactivate(f, {o})
    BY DEF Inactivate
<1>2. f \subseteq Extent /\ o \in Extent
    BY DEF Extents
<1>3. /\ d \in Extent /\ d.lo = o.lo /\ d.hi = o.hi /\ d.k = o.k /\ d.id = o.id
      /\ d.nm = o.nm /\ d.good = o.good /\ ~d.live /\ d.vl = NoValue
    BY <1>2, InactiveIs
<1>4. \A e \in rest : e.hi <= o.lo \/ o.hi <= e.lo
    BY DEF Extents
<1>5. o.lo < o.hi /\ o.hi <= PartSize /\ Extents(rest)
    BY ExtentsSubset DEF Extents
<1> HIDE DEF d
<1>6. Extents(g)
    BY <1>3, <1>4, <1>5, ExtentsAdd
<1>7. Tiles(g, a, b)
    <2>1. Tiles(f, a, b)
        BY DEF Area
    <2>2. \A e \in g : e.k = "obj" /\ a <= e.lo /\ e.hi <= b
        BY <2>1, <1>3 DEF Tiles
    <2>3. {e.hi : e \in g} = {e.hi : e \in f} /\ \A x \in f : \E y \in g : y.lo = x.lo
        BY <1>3
    <2> HIDE DEF g, rest
    <2>4. a <= b /\ b \in {a} \cup {e.hi : e \in g}
        BY <2>1, <2>3 DEF Tiles
    <2>5. ASSUME NEW x \in {a} \cup {e.hi : e \in g}, x < b PROVE \E y \in g : y.lo = x
        <3>1. PICK y \in f : y.lo = x
            BY <2>1, <2>3, <2>5 DEF Tiles
        <3> QED
            BY <2>3, <3>1
    <2> QED
        BY <2>2, <2>4, <2>5 DEF Tiles
<1>8. Catalogue(g, a)
    <2>1. Catalogue(f, a)
        BY DEF Area
    <2>2. Catalogue(rest, a)
        BY <2>1 DEF Catalogue
    <2>3. o.good /\ o.nm \in Names /\ o.id >= 1 /\ IdRoom(o.id, o.hi - a) /\ MinSize <= SizeOf(o)
        BY <2>1 DEF Catalogue
    <2>4. d.good /\ d.nm \in Names /\ d.id >= 1 /\ IdRoom(d.id, d.hi - a) /\ MinSize <= SizeOf(d)
        BY <2>3, <1>3 DEF SizeOf
    <2>5. \A e \in rest : e.nm = d.nm <=> e.id = d.id
        BY <2>1, <1>3 DEF Catalogue
    <2> QED
        BY <2>2, <2>4, <2>5, <1>3, CatalogueAdd
<1>9. ActiveSize(g) = ActiveSize(f) - SizeOf(o)
    <2>1. ActiveSize(rest \cup {d}) = ActiveSize(rest)
        BY <1>3, SizeOfDead
    <2> QED
        BY <2>1, SizeWithout
<1>10. Pairs(g) = {p \in Pairs(f) : p[1] # o.nm}
    <2>1. Pairs(g) = Pairs(rest)
        BY <1>3, PairsAdd
    <2>2. \A e \in f : e.live /\ e.nm = o.nm => e = o
        BY DEF Area, Catalogue
    <2>3. Pairs(rest) = {p \in Pairs(f) : p[1] # o.nm}
        BY <2>2 DEF Pairs
    <2> QED
        BY <2>1, <2>3
<1>11. \A e \in g : \E x \in f : x.id = e.id
    BY <1>3
<1> HIDE DEF g
<1> QED
    BY <1>1, <1>6, <1>7, <1>8, <1>9, <1>10, <1>11 DEF Area

-----------------------------------------------------------------------------
(***************************************************************************)
(* The parts of the invariant that speak of other places                   *)
(***************************************************************************)
(* The parts of the invariant about places the code is not at *)
LEMMA Elsewhere ==
    /\ st' # "down" => DownInv'
    /\ ~(st' = "up" /\ pc' \in {"idle", "refuse", "del", "hdr"}) => ReadyInv'
    /\ pc' \notin {"hdr", "data", "commit", "inact"} => WritingInv'
    /\ pc' # "fmt" => FormatInv'
    /\ pc' # "scan" => ScanInv'
    /\ pc' \notin Saving => SavingInv'
    /\ pc' \notin Copying1 => CopyInv1'
    /\ pc' \notin Moving => MovingInv'
    /\ pc' \notin Copying2 => CopyInv2'
    /\ pc' # "c3erase" => CleaningInv'
<1>1. st' # "down" => DownInv'
    BY DEF DownInv
<1>2. ~(st' = "up" /\ pc' \in {"idle", "refuse", "del", "hdr"}) => ReadyInv'
    BY DEF ReadyInv
<1>3. pc' \notin {"hdr", "data", "commit", "inact"} => WritingInv'
    BY DEF WritingInv
<1>4. pc' # "fmt" => FormatInv'
    BY DEF FormatInv
<1>5. pc' # "scan" => ScanInv'
    BY DEF ScanInv
<1>6. pc' \notin Saving => SavingInv'
    BY DEF SavingInv
<1>7. pc' \notin Copying1 => CopyInv1'
    BY DEF CopyInv1
<1>8. pc' \notin Moving => MovingInv'
    BY DEF MovingInv
<1>9. pc' \notin Copying2 => CopyInv2'
    BY DEF CopyInv2
<1>10. pc' # "c3erase" => CleaningInv'
    BY DEF CleaningInv
<1> QED
    BY <1>1, <1>2, <1>3, <1>4, <1>5, <1>6, <1>7, <1>8, <1>9, <1>10

(* The local variables of an erase *)
LEMMA WorkAt ==
    ASSUME w \in Works, NEW x \in 0..PartSize
    PROVE  /\ [NoWork EXCEPT !.cur = x] \in Works /\ [NoWork EXCEPT !.cur = x].cur = x
           /\ [w EXCEPT !.cur = x] \in Works /\ [w EXCEPT !.cur = x].cur = x
BY PartSizeAssumption DEF NoWork, Works

(* Updates of the local variables *)
LEMMA WorkIs ==
    ASSUME w \in Works, NEW x \in 0..PartSize, NEW y \in 0..PartSize, NEW n \in Nat
    PROVE  /\ NoWork \in Works
           /\ [NoWork EXCEPT !.cur = x] \in Works /\ [NoWork EXCEPT !.cur = x].cur = x
           /\ [w EXCEPT !.cur = x] \in Works /\ [w EXCEPT !.cur = x].cur = x
           /\ [w EXCEPT !.cur = x].swap = w.swap
           /\ [NoWork EXCEPT !.swap = x] \in Works
           /\ [NoWork EXCEPT !.swap = x].swap = x /\ [NoWork EXCEPT !.swap = x].cur = 0
           /\ LET v == [NoWork EXCEPT !.swap = x, !.dst = y]
              IN  v \in Works /\ v.swap = x /\ v.dst = y /\ v.src = 0 /\ v.cid = 0
           /\ LET v == [NoWork EXCEPT !.swap = x, !.src = y]
              IN  v \in Works /\ v.swap = x /\ v.src = y /\ v.dst = 0 /\ v.cid = 0
           /\ LET v == [w EXCEPT !.cid = n]
              IN  v \in Works /\ v.swap = w.swap /\ v.src = w.src /\ v.dst = w.dst /\ v.cid = n
           /\ LET v == [w EXCEPT !.src = x]
              IN  v \in Works /\ v.swap = w.swap /\ v.src = x /\ v.dst = w.dst /\ v.cid = w.cid
           /\ LET v == [w EXCEPT !.src = x, !.dst = y]
              IN  v \in Works /\ v.swap = w.swap /\ v.src = x /\ v.dst = y /\ v.cid = w.cid
<1>1. PartSize \in Nat /\ 0 \in 0..PartSize
    BY PartSizeAssumption
<1>2. /\ NoWork \in Works
      /\ [NoWork EXCEPT !.cur = x] \in Works /\ [NoWork EXCEPT !.cur = x].cur = x
      /\ [w EXCEPT !.cur = x] \in Works /\ [w EXCEPT !.cur = x].cur = x
      /\ [w EXCEPT !.cur = x].swap = w.swap
    BY <1>1 DEF NoWork, Works
<1>3. /\ [NoWork EXCEPT !.swap = x] \in Works
      /\ [NoWork EXCEPT !.swap = x].swap = x /\ [NoWork EXCEPT !.swap = x].cur = 0
    BY <1>1 DEF NoWork, Works
<1>4. LET v == [NoWork EXCEPT !.swap = x, !.dst = y]
      IN  v \in Works /\ v.swap = x /\ v.dst = y /\ v.src = 0 /\ v.cid = 0
    BY <1>1 DEF NoWork, Works
<1>5. LET v == [NoWork EXCEPT !.swap = x, !.src = y]
      IN  v \in Works /\ v.swap = x /\ v.src = y /\ v.dst = 0 /\ v.cid = 0
    BY <1>1 DEF NoWork, Works
<1>6. LET v == [w EXCEPT !.cid = n]
      IN  v \in Works /\ v.swap = w.swap /\ v.src = w.src /\ v.dst = w.dst /\ v.cid = n
    BY DEF Works
<1>7. LET v == [w EXCEPT !.src = x]
      IN  v \in Works /\ v.swap = w.swap /\ v.src = x /\ v.dst = w.dst /\ v.cid = w.cid
    BY DEF Works
<1>8. LET v == [w EXCEPT !.src = x, !.dst = y]
      IN  v \in Works /\ v.swap = w.swap /\ v.src = x /\ v.dst = y /\ v.cid = w.cid
    BY DEF Works
<1> QED
    BY <1>2, <1>3, <1>4, <1>5, <1>6, <1>7, <1>8

(* The local variables of a write *)
LEMMA WorkObject ==
    ASSUME NEW n \in Nat, NEW S \in SUBSET Extent
    PROVE  LET v == [NoWork EXCEPT !.id = n, !.old = S]
           IN  v \in Works /\ v.id = n /\ v.old = S
<1>1. 0 \in 0..PartSize
    BY PartSizeAssumption
<1> QED
    BY <1>1 DEF NoWork, Works

(* The same of the next state *)
LEMMA WorkNext ==
    ASSUME w \in Works, NEW x \in 0..PartSize, NEW y \in 0..PartSize
    PROVE  /\ w' = [w EXCEPT !.cur = x] =>
                w' \in Works /\ w'.cur = x /\ w'.swap = w.swap /\ w'.src = w.src /\ w'.dst = w.dst
           /\ w' = [NoWork EXCEPT !.swap = x] => w' \in Works /\ w'.swap = x /\ w'.cur = 0
           /\ w' = [NoWork EXCEPT !.swap = x, !.src = y] =>
                w' \in Works /\ w'.swap = x /\ w'.src = y /\ w'.dst = 0 /\ w'.cid = 0
           /\ w' = [NoWork EXCEPT !.swap = x, !.dst = y] =>
                w' \in Works /\ w'.swap = x /\ w'.dst = y /\ w'.src = 0 /\ w'.cid = 0
<1>1. 0 \in 0..PartSize
    BY PartSizeAssumption
<1>2. w' = [w EXCEPT !.cur = x] =>
                w' \in Works /\ w'.cur = x /\ w'.swap = w.swap /\ w'.src = w.src /\ w'.dst = w.dst
    BY DEF Works
<1>3. w' = [NoWork EXCEPT !.swap = x] => w' \in Works /\ w'.swap = x /\ w'.cur = 0
    BY <1>1 DEF Works, NoWork
<1>4. w' = [NoWork EXCEPT !.swap = x, !.src = y] =>
                w' \in Works /\ w'.swap = x /\ w'.src = y /\ w'.dst = 0 /\ w'.cid = 0
    <2> SUFFICES ASSUME w' = [NoWork EXCEPT !.swap = x, !.src = y]
                 PROVE  w' \in Works /\ w'.swap = x /\ w'.src = y /\ w'.dst = 0 /\ w'.cid = 0
        OBVIOUS
    <2>1. w' = [cur |-> 0, swap |-> x, src |-> y, dst |-> 0, cid |-> 0, id |-> 0, old |-> {}]
        BY DEF NoWork
    <2>2. w' \in Works
        BY <1>1, <2>1 DEF Works
    <2>3. w'.swap = x /\ w'.cid = 0
        BY DEF NoWork
    <2>4. w'.src = y
        BY DEF NoWork
    <2>5. w'.dst = 0
        BY DEF NoWork
    <2> QED
        BY <2>2, <2>3, <2>4, <2>5
<1>5. w' = [NoWork EXCEPT !.swap = x, !.dst = y] =>
                w' \in Works /\ w'.swap = x /\ w'.dst = y /\ w'.src = 0 /\ w'.cid = 0
    <2> SUFFICES ASSUME w' = [NoWork EXCEPT !.swap = x, !.dst = y]
                 PROVE  w' \in Works /\ w'.swap = x /\ w'.dst = y /\ w'.src = 0 /\ w'.cid = 0
        OBVIOUS
    <2>1. w' = [cur |-> 0, swap |-> x, src |-> 0, dst |-> y, cid |-> 0, id |-> 0, old |-> {}]
        BY DEF NoWork
    <2>2. w' \in Works
        BY <1>1, <2>1 DEF Works
    <2>3. w'.swap = x /\ w'.cid = 0
        BY DEF NoWork
    <2>4. w'.src = 0
        BY DEF NoWork
    <2>5. w'.dst = y
        BY DEF NoWork
    <2> QED
        BY <2>2, <2>3, <2>4, <2>5
<1> QED
    BY <1>2, <1>3, <1>4, <1>5

(* The store maps names to values *)
LEMMA DurableType ==
    ASSUME Extents(fl)
    PROVE  Durable \in [Names -> Values \cup {NoValue}]
<1>1. Restored \subseteq fl
    BY DEF Restored, Chain, Accepted, DataChain
<1>2. ASSUME NEW S \in SUBSET fl PROVE ValueIn(S) \in Values \cup {NoValue}
    BY DEF ValueIn, Extents, Extent
<1>3. ASSUME NEW n \in Names
      PROVE  ValueIn({e \in {x \in Restored : x.live} : e.nm = n}) \in Values \cup {NoValue}
    <2>1. {e \in {x \in Restored : x.live} : e.nm = n} \in SUBSET fl
        BY <1>1
    <2> QED
        BY <2>1, <1>2
<1> QED
    BY <1>3 DEF Durable

(* The store depends on the flash alone *)
LEMMA DurableSame ==
    ASSUME fl' = fl, desc' = desc
    PROVE  Durable' = Durable /\ Occupied' = Occupied
BY DEF Durable, Occupied, Restored, DescValid, Accepted, DataChain, Chain

(* The same facts about the next state *)
LEMMA RestoredDataNext ==
    ASSUME NEW O \in SUBSET fl', NEW end \in Nat, Extents(fl'), DataArea(fl', O, end), ~Valid(desc')
    PROVE  /\ Durable' = [n \in Names |-> Paired(Pairs(O), n)]
           /\ Occupied' = <<ActiveSize(O), end>>
<1>1. ~DescValid' /\ Accepted(fl)' = O /\ Restored' = O
    BY AcceptedIs DEF Restored, DescValid, Valid
<1>2. Catalogue(O, 0)
    BY DEF DataArea, Area
<1>3. ASSUME NEW n \in Names
      PROVE  ValueIn({e \in {x \in O : x.live} : e.nm = n}) = Paired(Pairs(O), n)
    <2>1. {e \in {x \in O : x.live} : e.nm = n} = {e \in O : e.live /\ e.nm = n}
        OBVIOUS
    <2> QED
        BY <2>1, <1>2, ValueInPairs
<1>4. ChainEnd(O) = end
    BY TilesEnd, ExtentsSubset DEF DataArea, Area
<1>5. Occupied' = <<ActiveSize(O), end>>
    BY <1>1, <1>4 DEF Occupied
<1> QED
    BY <1>1, <1>3, <1>5 DEF Durable

(* RestoredSwap, of the next state *)
LEMMA RestoredSwapNext ==
    ASSUME NEW C \in SUBSET fl', Extents(fl'), desc'.start \in Nat, Valid(desc'),
           SwapArea(fl', C, desc'.start)
    PROVE  /\ Durable' = [n \in Names |-> Paired(Pairs(C), n)]
           /\ Occupied' = <<ActiveSize(C), ActiveSize(C)>>
<1>1. DescValid' /\ Restored' = C
    BY SwapChainIs DEF Restored, DescValid, Valid
<1>2. Catalogue(C, SwapData(desc'.start))
    BY DEF SwapArea, Area
<1>3. ASSUME NEW n \in Names
      PROVE  ValueIn({e \in {x \in C : x.live} : e.nm = n}) = Paired(Pairs(C), n)
    <2>1. {e \in {x \in C : x.live} : e.nm = n} = {e \in C : e.live /\ e.nm = n}
        OBVIOUS
    <2> QED
        BY <2>1, <1>2, ValueInPairs
<1> QED
    BY <1>1, <1>3 DEF Durable, Occupied

(* The two ways to say that the descriptor is valid *)
LEMMA ValidIs == DescValid <=> Valid(desc)
BY DEF DescValid, Valid

(* A blank descriptor is not valid *)
LEMMA BlankInvalid == ~Valid(BlankDesc) /\ BlankDesc \in Descriptors
BY DEF Valid, BlankDesc, Descriptors, NoStart

(* Nothing but counted objects *)
LEMMA CountedFacts ==
    ASSUME TypeInv, Counted(fl)
    PROVE  /\ DataArea(fl, fl, free) /\ Before(free) = fl /\ DataChain(fl) = fl
           /\ ~Valid(desc) /\ Durable = [n \in Names |-> Paired(Pairs(fl), n)]
           /\ free \in Nat /\ total \in Nat /\ total <= free /\ free <= PlannedSwap(total)
           /\ free < PartSize /\ total = ActiveSize(fl) /\ free <= SwapStart(total)
           /\ \A e \in fl : e.lo < free /\ e.hi <= free
<1>1. Extents(fl) /\ free \in Nat /\ total \in Nat /\ total = ActiveSize(fl) /\ free <= PlannedSwap(total)
    BY PartSizeAssumption DEF TypeInv, Counted
<1>2. DataArea(fl, fl, free)
    BY <1>1 DEF Counted, DataArea
<1>3. /\ free < PartSize /\ total <= free /\ free <= SwapStart(total)
      /\ \A e \in fl : e.lo < free /\ e.hi <= free
    BY <1>1, <1>2, DataAreaFacts
<1>4. DataChain(fl) = fl
    BY <1>1, <1>2, DataChainIs DEF ObjectsAt
<1>5. ~Valid(desc)
    BY BlankInvalid DEF Counted
<1>6. Durable = [n \in Names |-> Paired(Pairs(fl), n)]
    BY <1>1, <1>2, <1>5, RestoredData, ValidIs
<1> QED
    BY <1>1, <1>2, <1>3, <1>4, <1>5, <1>6 DEF Before

(* What the room for the object admitted means *)
LEMMA RoomMeans ==
    ASSUME op \in Calls, op.kind = "set", op.vl \in Values, LenOf[op.vl] <= op.max,
           NEW x \in Nat, NEW t \in Nat, Room(x, t)
    PROVE  LET size == ObjSize(LenOf[op.vl])
           IN  /\ size \in Nat /\ MinSize <= size /\ size <= ObjSize(op.max)
               /\ ObjSize(op.max) \in Nat
               /\ x + ObjSize(op.max) <= PlannedSwap(t)
               /\ x + size <= PlannedSwap(t + size) /\ x + size <= PlannedSwap(t)
               /\ x + MinSize <= PlannedSwap(t)
               /\ PlannedSwap(t) \in Int /\ PlannedSwap(t) <= PartSize
<1> DEFINE size == ObjSize(LenOf[op.vl])
           max == ObjSize(op.max)
<1>1. LenOf[op.vl] \in Nat /\ op.max \in Nat
    BY PsmAssumption DEF Calls
<1>2. size \in Nat /\ max \in Nat /\ MinSize <= size /\ size <= max /\ MinSize \in Nat
    BY <1>1, ObjSizes
<1>3. x + max <= PlannedSwap(t + max)
    BY DEF Room
<1> HIDE DEF size, max
<1>4. /\ PlannedSwap(t + max) <= PlannedSwap(t + size) /\ PlannedSwap(t + size) <= PlannedSwap(t)
      /\ PlannedSwap(t + max) \in Int /\ PlannedSwap(t + size) \in Int /\ PlannedSwap(t) \in Int
    <2>1. t + size \in Nat /\ t + max \in Nat /\ t + size <= t + max /\ t <= t + size
        BY <1>2
    <2> QED
        BY <2>1, SwapMonotone
<1>5. PlannedSwap(t) <= PartSize
    BY SwapBounds, PartSizeAssumption DEF DescSize, Demarc
<1> QED
    BY <1>2, <1>3, <1>4, <1>5 DEF size, max

-----------------------------------------------------------------------------
(***************************************************************************)
(* Calls                                                                   *)
(***************************************************************************)
(* What is known when no call is in progress *)
LEMMA IdleMeans ==
    ASSUME Core, Idle
    PROVE  Counted(fl) /\ IdRoom(high, free) /\ st = "up" /\ pc = "idle" /\ op = NoCall
BY DEF Core, Idle, ReadyInv

(* Admission: a call that starts changes no flash, and has room for its    *)
(* object                                                                  *)
LEMMA BeginSetKeeps ==
    ASSUME Core, NEW nm \in Names, NEW v \in Values, NEW slack \in Slacks, BeginSet(nm, v, slack)
    PROVE  Core' /\ Durable' = Durable /\ Occupied' = Occupied
<1> DEFINE max == LenOf[v] + slack
           size == ObjSize(max)
<1>1. Counted(fl) /\ IdRoom(high, free) /\ st = "up" /\ pc = "idle" /\ op = NoCall /\ TypeInv
    BY IdleMeans DEF BeginSet, Core
<1>2. /\ DataArea(fl, fl, free) /\ Before(free) = fl /\ ~Valid(desc) /\ free \in Nat /\ total \in Nat
      /\ total <= free /\ free <= PlannedSwap(total) /\ free < PartSize /\ total = ActiveSize(fl)
      /\ free <= SwapStart(total)
    BY <1>1, CountedFacts
<1>3. /\ max \in Nat /\ LenOf[v] \in Nat /\ LenOf[v] <= max /\ size \in Nat /\ size > 0
    <2>1. max \in Nat /\ LenOf[v] \in Nat /\ LenOf[v] <= max
        BY PsmAssumption
    <2> QED
        BY <2>1, ObjSizes
<1>4. /\ op' = [kind |-> "set", nm |-> nm, vl |-> v, max |-> max, was |-> Durable[nm]]
      /\ UNCHANGED <<fl, desc, total, free, high, st>> /\ ret' = "none"
    BY DEF BeginSet
<1>5. /\ op' \in Calls /\ op'.kind = "set" /\ op'.nm \in Names /\ op'.vl \in Values
      /\ LenOf[op'.vl] <= op'.max /\ op'.max = max
    <2>1. Durable[nm] \in Values \cup {NoValue}
        BY DurableType, <1>1 DEF TypeInv
    <2> QED
        BY <1>3, <1>4, <2>1 DEF Calls
<1>6. Durable' = Durable /\ Occupied' = Occupied
    BY <1>4, DurableSame
<1>7. w \in Works /\ PartSize \in Nat /\ high \in 0..MaxObjects
    BY <1>1, PartSizeAssumption DEF TypeInv
<1>8. total <= PlannedSwap(total) /\ PlannedSwap(total) \in Int /\ SwapStart(total) \in Int
      /\ SwapStart(total) < PartSize
    BY <1>2, SwapBounds, PartSizeAssumption DEF DescSize
<1>9. /\ Admission(total, free, size) = "fits" => free + size <= PlannedSwap(total + size)
      /\ Admission(total, free, size) = "compact" => total + size <= PlannedSwap(total + size)
    BY <1>2, <1>3, <1>8, AdmissionMeans
<1>10. Counted(fl)'
    BY <1>1, <1>4 DEF Counted
<1> HIDE DEF max, size
<1>11. \/ pc' = "refuse" /\ w' = NoWork
       \/ pc' = "hdr" /\ w' = NoWork /\ Admission(total, free, size) = "fits"
       \/ /\ pc' = "c0erase" /\ w' = [NoWork EXCEPT !.cur = SwapStart(total)]
          /\ Admission(total, free, size) = "compact"
    BY <1>4 DEF BeginSet, StartCompaction, size, max
<1>12. w' \in Works
    <2>1. SwapStart(total) \in 0..PartSize /\ 0 \in 0..PartSize
        BY <1>2, <1>7, <1>8
    <2> QED
        BY <1>7, <1>11, <2>1, WorkIs
<1>13. TypeInv'
    BY <1>1, <1>4, <1>5, <1>11, <1>12 DEF TypeInv, Places
<1>14. CallInv'
    BY <1>1, <1>4, <1>5, <1>11, <1>12 DEF CallInv, Saving, Moving, Copying1, Copying2
<1>15. CASE pc' = "refuse"
    <2>1. ReadyInv'
        BY <1>1, <1>4, <1>10 DEF ReadyInv
    <2> QED
        BY <1>1, <1>4, <1>6, <1>13, <1>14, <1>15, <2>1, Elsewhere DEF Core, Saving, Copying1, Copying2, Moving
<1>16. CASE pc' = "hdr"
    <2>1. ReadyInv'
        BY <1>1, <1>4, <1>10 DEF ReadyInv
    <2>2. Room(free, total)'
        BY <1>4, <1>5, <1>9, <1>11, <1>16 DEF Room, size
    <2>3. WritingInv'
        BY <1>16, <2>2 DEF WritingInv
    <2> QED
        BY <1>1, <1>4, <1>6, <1>13, <1>14, <1>16, <2>1, <2>3, Elsewhere DEF Core, Saving, Copying1, Copying2, Moving
<1>17. CASE pc' = "c0erase"
    <2>1. Room(total, total)'
        BY <1>4, <1>5, <1>9, <1>11, <1>17 DEF Room, size
    <2>2. total < PlannedSwap(total)
        <3>1. total + size \in Nat /\ total <= total + size
            BY <1>2, <1>3
        <3>2. PlannedSwap(total + size) <= PlannedSwap(total) /\ PlannedSwap(total + size) \in Int
            BY <1>2, <3>1, SwapMonotone
        <3> QED
            BY <1>2, <1>3, <1>8, <1>9, <1>11, <1>17, <3>2
    <2>3. w'.cur = SwapStart(total) /\ Aligned(SwapStart(total))
        <3>1. SwapStart(total) \in 0..PartSize /\ 0 \in 0..PartSize
            BY <1>2, <1>7, <1>8
        <3>2. w' = [NoWork EXCEPT !.cur = SwapStart(total)]
            BY <1>11, <1>17
        <3> QED
            BY <1>2, <3>1, <3>2, WorkIs, <1>7, LayoutAligned
    <2>4. SavingInv'
        <3>1. /\ Before(free)' = fl /\ fl' = fl /\ free' = free /\ total' = total /\ desc' = desc
            BY <1>2, <1>4 DEF Before
        <3>2. SwapStart(total) <= w'.cur
            BY <2>3, <1>8
        <3>3. fl \ fl = {}
            OBVIOUS
        <3> QED
            BY <1>2, <1>8, <1>17, <2>1, <2>2, <2>3, <3>1, <3>2, <3>3 DEF SavingInv, Copying1
    <2> QED
        BY <1>1, <1>4, <1>6, <1>13, <1>14, <1>17, <2>4, Elsewhere DEF Core, Saving, Copying1, Copying2, Moving
<1> QED
    BY <1>11, <1>15, <1>16, <1>17

(* A refused call changes nothing *)
LEMMA RefuseKeeps ==
    ASSUME Core, Refuse
    PROVE  Core' /\ Durable' = Durable /\ Occupied' = Occupied
<1>1. /\ pc = "refuse" /\ pc' = "idle" /\ op' = NoCall /\ ret' = "err" /\ w' = NoWork
      /\ UNCHANGED <<fl, desc, total, free, high, st>>
    BY DEF Refuse, Return
<1>2. st = "up"
    BY <1>1 DEF Core, CallInv, TypeInv, NoCall
<1>3. Counted(fl)' /\ IdRoom(high, free)'
    BY <1>1, <1>2 DEF Core, ReadyInv, Counted
<1>4. ReadyInv'
    BY <1>3 DEF ReadyInv
<1>5. NoWork \in Works /\ NoCall \in Calls
    BY PartSizeAssumption DEF NoWork, Works, NoCall, Calls
<1>6. TypeInv'
    BY <1>1, <1>5 DEF Core, TypeInv, Places
<1>7. CallInv'
    BY <1>1, <1>2 DEF CallInv, NoCall, Saving, Moving, Copying1, Copying2
<1>8. Durable' = Durable /\ Occupied' = Occupied
    BY <1>1, DurableSame
<1> QED
    BY <1>1, <1>2, <1>4, <1>6, <1>7, <1>8, Elsewhere DEF Core, Saving, Copying1, Copying2, Moving

(* The start of psm_object_delete *)
LEMMA BeginDeleteKeeps ==
    ASSUME Core, NEW nm \in Names, BeginDelete(nm)
    PROVE  Core' /\ Durable' = Durable /\ Occupied' = Occupied
<1>1. /\ Counted(fl) /\ IdRoom(high, free) /\ st = "up" /\ pc = "idle" /\ op = NoCall /\ TypeInv
    BY IdleMeans DEF BeginDelete, Core
<1>2. /\ pc' = "del" /\ op' = [NoCall EXCEPT !.kind = "del", !.nm = nm, !.was = Durable[nm]]
      /\ UNCHANGED <<fl, desc, total, free, high, st, w>> /\ ret' = "none"
    BY DEF BeginDelete
<1>3. op' \in Calls /\ op'.kind = "del" /\ op'.nm \in Names /\ op'.vl = NoValue
    <2>1. Durable[nm] \in Values \cup {NoValue}
        BY DurableType, <1>1 DEF TypeInv
    <2> QED
        BY <1>2, <2>1 DEF Calls, NoCall
<1>4. ReadyInv'
    BY <1>1, <1>2 DEF ReadyInv, Counted
<1>5. TypeInv'
    BY <1>1, <1>2, <1>3 DEF TypeInv, Places
<1>6. CallInv'
    BY <1>1, <1>2, <1>3 DEF CallInv, Saving, Moving, Copying1, Copying2
<1>7. Durable' = Durable /\ Occupied' = Occupied
    BY <1>2, DurableSame
<1> QED
    BY <1>1, <1>2, <1>4, <1>5, <1>6, <1>7, Elsewhere DEF Core, Saving, Copying1, Copying2, Moving

(* The start of psm_format *)
LEMMA BeginFormatKeeps ==
    ASSUME Core, BeginFormat
    PROVE  Core' /\ Durable' = Durable /\ Occupied' = Occupied
<1>1. /\ Counted(fl) /\ IdRoom(high, free) /\ st = "up" /\ pc = "idle" /\ op = NoCall /\ TypeInv
    BY IdleMeans DEF BeginFormat, Core
<1>2. /\ pc' = "fmt" /\ op' = [NoCall EXCEPT !.kind = "fmt"] /\ w' = NoWork
      /\ UNCHANGED <<fl, desc, total, free, high, st>> /\ ret' = "none"
    BY DEF BeginFormat
<1>3. op' \in Calls /\ op'.kind = "fmt" /\ op'.vl = NoValue
    BY <1>2 DEF Calls, NoCall
<1>4. NoWork \in Works /\ NoWork.cur = 0
    BY PartSizeAssumption DEF NoWork, Works
<1>5. TypeInv'
    BY <1>1, <1>2, <1>3, <1>4 DEF TypeInv, Places
<1>6. CallInv'
    BY <1>1, <1>2, <1>3 DEF CallInv, Saving, Moving, Copying1, Copying2
<1>7. FormatInv'
    <2>1. \A e \in fl : e.lo >= 0
        BY <1>1 DEF TypeInv, Extents, Extent
    <2>2. 0 < PartSize
        BY PartSizeAssumption, BlockSizeAssumption
    <2>3. desc' = BlankDesc
        BY <1>1, <1>2 DEF Counted
    <2> QED
        BY <1>2, <1>4, <2>1, <2>2, <2>3, LayoutAligned DEF FormatInv
<1>8. Durable' = Durable /\ Occupied' = Occupied
    BY <1>2, DurableSame
<1> QED
    BY <1>1, <1>2, <1>5, <1>6, <1>7, <1>8, Elsewhere DEF Core, Saving, Copying1, Copying2, Moving

-----------------------------------------------------------------------------
(***************************************************************************)
(* Writing an object                                                       *)
(***************************************************************************)
(* A name that has a pair is paired with one of them *)
LEMMA PairedSome ==
    ASSUME NEW R, NEW nm, \E p \in R : p[1] = nm
    PROVE  \E p \in R : p[1] = nm /\ Paired(R, nm) = p[2]
BY DEF Paired

(* A name without pair has no value *)
LEMMA PairedNone ==
    ASSUME NEW R, NEW nm, \A p \in R : p[1] # nm
    PROVE  Paired(R, nm) = NoValue
BY DEF Paired

(* Only the pairs of the name matter *)
LEMMA PairedSame ==
    ASSUME NEW P, NEW R, NEW n, \A p \in R : p[1] = n => p \in P, \A p \in P : p[1] = n => p \in R
    PROVE  Paired(R, n) = Paired(P, n)
<1>1. \A p : (p \in R /\ p[1] = n) <=> (p \in P /\ p[1] = n)
    OBVIOUS
<1>2. (CHOOSE p \in R : p[1] = n) = (CHOOSE p \in P : p[1] = n)
    BY <1>1
<1> QED
    BY <1>1, <1>2 DEF Paired

(* Where the object in progress goes *)
LEMMA WritingMeans ==
    ASSUME Core, pc \in {"hdr", "data", "commit", "inact"}
    PROVE  LET O == Before(free)
           IN  /\ st = "up" /\ op \in Calls /\ op.kind = "set" /\ op.vl \in Values /\ op.nm \in Names
               /\ LenOf[op.vl] <= op.max
               /\ O \subseteq fl /\ Extents(fl) /\ Extents(O) /\ Counted(O) /\ Room(free, total)
               /\ DataArea(O, O, free) /\ ~Valid(desc)
               /\ free \in Nat /\ total \in Nat /\ total = ActiveSize(O) /\ free < PartSize
               /\ free <= PlannedSwap(total) /\ PlannedSwap(total) <= PartSize - BlockSize
               /\ PlannedSwap(total) \in Int /\ w \in Works /\ high \in 0..MaxObjects
               /\ \A e \in O : e.lo < free /\ e.hi <= free
<1> DEFINE O == Before(free)
<1>1. st = "up"
    BY DEF Core, CallInv, TypeInv, NoCall
<1>2. TypeInv /\ CallInv
    BY DEF Core
<1>3. op \in Calls /\ op.kind = "set" /\ op.vl \in Values /\ op.nm \in Names /\ LenOf[op.vl] <= op.max
    BY <1>2 DEF TypeInv, CallInv
<1>4. Counted(O) /\ Room(free, total)
    <2>1. CASE pc = "hdr"
        <3>1. Counted(fl) /\ Room(free, total)
            BY <2>1, <1>1 DEF Core, ReadyInv, WritingInv
        <3> QED
            BY <3>1, <1>2, CountedFacts
    <2>2. CASE pc \in {"data", "commit", "inact"}
        BY <2>2 DEF Core, WritingInv
    <2> QED
        BY <2>1, <2>2
<1>5. O \subseteq fl /\ Extents(fl) /\ Extents(O)
    BY <1>2, ExtentsSubset DEF Before, TypeInv
<1>6. free \in Nat /\ total \in Nat /\ total = ActiveSize(O) /\ free <= PlannedSwap(total)
    BY <1>2, <1>4, PartSizeAssumption DEF TypeInv, Counted
<1>7. DataArea(O, O, free)
    BY <1>4, <1>6 DEF Counted, DataArea
<1>8. /\ free < PartSize /\ PlannedSwap(total) <= PartSize - BlockSize /\ PlannedSwap(total) \in Int
      /\ \A e \in O : e.lo < free /\ e.hi <= free
    BY <1>5, <1>6, <1>7, DataAreaFacts
<1>9. ~Valid(desc)
    BY <1>4, BlankInvalid DEF Counted
<1> QED
    BY <1>1, <1>2, <1>3, <1>4, <1>5, <1>6, <1>7, <1>8, <1>9 DEF TypeInv

(* An extent that is put behind the counted objects *)
LEMMA BehindCounted ==
    ASSUME NEW O, Extents(O), NEW end \in Nat, DataArea(O, O, end),
           NEW r \in Extent, r.lo = end, r.lo < r.hi, r.hi <= PlannedSwap(ActiveSize(O)),
           end + MinSize <= PlannedSwap(ActiveSize(O)),
           r.k = "obj" => r.live /\ \E o \in O : o.live /\ o.id = r.id
    PROVE  /\ Extents(O \cup {r}) /\ DataArea(O \cup {r}, O, end)
           /\ Unfinished(r, O, end)
<1>1. /\ \A e \in O : e.hi <= end
      /\ PlannedSwap(ActiveSize(O)) <= PartSize - BlockSize /\ PlannedSwap(ActiveSize(O)) \in Int
    BY DataAreaFacts
<1>2. r.hi <= PartSize /\ r.hi \in Nat
    BY <1>1, PartSizeAssumption, BlockSizeAssumption DEF Extent
<1>3. Extents(O \cup {r})
    BY <1>1, <1>2, ExtentsAdd
<1>4. Unfinished(r, O, end)
    BY DEF Unfinished
<1>5. DataArea(O \cup {r}, O, end)
    BY <1>4 DEF DataArea
<1> QED
    BY <1>3, <1>4, <1>5

(* The contents are those of the counted objects *)
LEMMA DurableBehind ==
    ASSUME Core, pc \in {"hdr", "data", "commit", "inact"}
    PROVE  /\ DataArea(fl, Before(free), free)
           /\ Durable = [n \in Names |-> Paired(Pairs(Before(free)), n)]
           /\ \A r \in fl \ Before(free) : Unfinished(r, Before(free), free)
<1> DEFINE O == Before(free)
<1>1. /\ op \in Calls /\ op.kind = "set" /\ op.vl \in Values /\ op.nm \in Names
      /\ LenOf[op.vl] <= op.max /\ O \subseteq fl /\ Extents(fl) /\ Extents(O) /\ Counted(O)
      /\ Room(free, total) /\ DataArea(O, O, free) /\ ~Valid(desc) /\ free \in Nat /\ total \in Nat
      /\ total = ActiveSize(O) /\ PlannedSwap(total) \in Int /\ st = "up" /\ w \in Works
    BY WritingMeans
<1>2. /\ ObjSize(LenOf[op.vl]) \in Nat
      /\ free + ObjSize(LenOf[op.vl]) <= PlannedSwap(total)
      /\ free + MinSize <= PlannedSwap(total)
    BY <1>1, RoomMeans
<1>3. \A r \in fl \ O : Unfinished(r, O, free)
    <2>1. CASE pc = "hdr"
        <3>1. Counted(fl)
            BY <1>1, <2>1 DEF Core, ReadyInv
        <3>2. O = fl
            BY <3>1, CountedFacts DEF Core
        <3> QED
            BY <3>2
    <2>2. CASE pc \in {"data", "commit"}
        <3>1. PICK r \in fl : /\ fl = O \cup {r} /\ r.k = "torn" /\ r.lo = free
                              /\ r.hi <= free + ObjSize(LenOf[op.vl])
            BY <2>2 DEF Core, WritingInv
        <3>2. r.hi \in Nat
            BY <1>1, <3>1 DEF Extents, Extent
        <3> QED
            BY <1>1, <1>2, <3>1, <3>2 DEF Unfinished
    <2>3. CASE pc = "inact"
        <3>1. /\ fl = O \cup {NewObject} /\ w.old = {e \in O : e.live /\ e.nm = op.nm}
              /\ w.old # {} /\ \A e \in O : e.nm = op.nm <=> e.id = w.id
            BY <2>3 DEF Core, WritingInv
        <3>2. /\ NewObject.lo = free /\ NewObject.hi = free + ObjSize(LenOf[op.vl])
              /\ NewObject.live /\ NewObject.id = w.id
            BY DEF NewObject, Obj
        <3>3. \E o \in O : o.live /\ o.id = NewObject.id
            BY <3>1, <3>2
        <3> QED
            BY <1>1, <1>2, <3>1, <3>2, <3>3 DEF Unfinished
    <2> QED
        BY <2>1, <2>2, <2>3
<1>4. DataArea(fl, O, free)
    BY <1>1, <1>3 DEF DataArea
<1>5. Durable = [n \in Names |-> Paired(Pairs(O), n)]
    BY <1>1, <1>4, RestoredData, ValidIs
<1> QED
    BY <1>3, <1>4, <1>5

(* The object behind the counted ones has begun *)
LEMMA HeaderIs ==
    ASSUME Core, ValidIds, IdsLeft, WriteHeader
    PROVE  \E id \in Nat, found \in SUBSET fl :
             /\ UNCHANGED <<desc, total, free, st, op, ret>>
             /\ w' = [NoWork EXCEPT !.id = id, !.old = found]
             /\ found = {e \in fl : e.live /\ e.nm = op.nm}
             /\ high' \in {high, high + 1} /\ id \in 1..high' /\ high' <= MaxObjects
             /\ IdRoom(high', free + MinSize)
             /\ \A e \in fl : e.nm = op.nm <=> e.id = id
             /\ fl' = Program(fl, Unreadable("torn", free, free + MinSize))
             /\ pc' \in {"data", "commit"}
<1> DEFINE found == Search(op.nm)
           fresh == found.obj = {} /\ found.id = InvalidId
<1>1. /\ pc = "hdr" /\ TypeInv /\ st = "up"
      /\ Counted(fl) /\ IdRoom(high, free)
    BY WritingMeans DEF WriteHeader, Core, ReadyInv
<1>2. DataArea(fl, fl, free) /\ DataChain(fl) = fl /\ free \in Nat /\ free < PartSize /\ Extents(fl)
    BY <1>1, CountedFacts DEF TypeInv
<1>3. Catalogue(fl, 0) /\ \A e \in fl : e.id <= high
    BY <1>1 DEF Counted, Area
<1>4. /\ found.obj = {e \in fl : e.live /\ e.nm = op.nm}
      /\ found.id = InvalidId \/ \E e \in fl : e.nm = op.nm /\ e.id = found.id
      /\ \A e \in fl : e.nm = op.nm => found.id = e.id
    BY <1>2, <1>3, SearchIs
<1>5. /\ high \in Nat /\ MaxObjects \in Nat /\ MaxObjects < InvalidId /\ high <= MaxObjects
      /\ fresh => high < MaxObjects /\ high < InvalidId - 1
    <2>1. high \in Nat /\ MaxObjects \in Nat /\ MaxObjects < InvalidId /\ high <= MaxObjects
        BY <1>1, PsmAssumption DEF TypeInv, ValidIds
    <2>2. fresh => high < MaxObjects
        BY <1>1 DEF IdsLeft
    <2> QED
        BY <2>1, <2>2 DEF InvalidId
<1>6. \A e \in fl : e.id \in Nat /\ e.id >= 1 /\ e.id # InvalidId
    BY <1>2, <1>3, <1>5 DEF Extents, Extent, Catalogue
<1>7. fresh <=> \A e \in fl : e.nm # op.nm
    BY <1>4, <1>6
<1>8. MinSize \in Nat /\ MinSize >= 13
    BY ObjSizes
<1> DEFINE id == IF fresh THEN high + 1 ELSE found.id
<1>9. /\ UNCHANGED <<desc, total, free, st, op, ret>>
      /\ fl' = Program(fl, Unreadable("torn", free, free + MinSize))
      /\ high' = IF fresh THEN high + 1 ELSE high
      /\ w' = [NoWork EXCEPT !.id = id, !.old = found.obj]
      /\ pc' \in {"data", "commit"}
    <2>1. ~(fresh /\ high = InvalidId - 1)
        BY <1>5
    <2>2. fresh => NextId = high + 1
        BY <1>5 DEF NextId
    <2> HIDE DEF fresh
    <2> QED
        BY <1>5, <2>1, <2>2 DEF WriteHeader, MinSize, fresh
<1>10. /\ high' \in {high, high + 1} /\ id \in Nat /\ id \in 1..high' /\ high' <= MaxObjects
       /\ IdRoom(high', free + MinSize) /\ \A e \in fl : e.nm = op.nm <=> e.id = id
    <2>1. CASE fresh
        <3>1. id = high + 1 /\ high' = high + 1
            BY <1>9, <2>1
        <3>2. high + 1 <= MaxObjects
            BY <1>5, <2>1
        <3>3. IdRoom(high + 1, free + MinSize)
            BY <1>1, <1>2, <1>5, <1>8, <3>2, IdRoomNext
        <3>4. \A e \in fl : e.nm = op.nm <=> e.id = id
            BY <1>2, <1>3, <1>5, <1>6, <1>7, <2>1, <3>1
        <3>5. id \in Nat /\ id \in 1..high' /\ high' <= MaxObjects
            BY <1>5, <3>1, <3>2
        <3> QED
            BY <3>1, <3>3, <3>4, <3>5
    <2>2. CASE ~fresh
        <3>1. id = found.id /\ high' = high
            BY <1>9, <2>2
        <3>2. PICK o \in fl : o.nm = op.nm /\ o.id = found.id
            BY <1>4, <1>7, <2>2
        <3>3. \A e \in fl : e.nm = op.nm <=> e.id = id
            BY <1>3, <3>1, <3>2 DEF Catalogue
        <3>4. id \in Nat /\ id \in 1..high' /\ high' <= MaxObjects
            BY <1>3, <1>5, <1>6, <3>1, <3>2
        <3>5. IdRoom(high, free + MinSize)
            BY <1>1, <1>2, <1>5, <1>8, IdRoomMore
        <3> QED
            BY <3>1, <3>3, <3>4, <3>5
    <2> QED
        BY <2>1, <2>2
<1>11. found.obj \in SUBSET fl
    BY <1>4
<1> HIDE DEF found, fresh, id
<1> QED
    BY <1>4, <1>9, <1>10, <1>11

(* The header of the new object *)
LEMMA WriteHeaderKeeps ==
    ASSUME Core, ValidIds, IdsLeft, WriteHeader
    PROVE  Core' /\ Durable' = Durable
<1>1. PICK id \in Nat, found \in SUBSET fl :
             /\ UNCHANGED <<desc, total, free, st, op, ret>>
             /\ w' = [NoWork EXCEPT !.id = id, !.old = found]
             /\ found = {e \in fl : e.live /\ e.nm = op.nm}
             /\ high' \in {high, high + 1} /\ id \in 1..high' /\ high' <= MaxObjects
             /\ IdRoom(high', free + MinSize)
             /\ \A e \in fl : e.nm = op.nm <=> e.id = id
             /\ fl' = Program(fl, Unreadable("torn", free, free + MinSize))
             /\ pc' \in {"data", "commit"}
    BY HeaderIs
<1> DEFINE torn == Unreadable("torn", free, free + MinSize)
<1>2. pc = "hdr"
    BY DEF WriteHeader
<1>3. /\ st = "up" /\ op \in Calls /\ op.kind = "set" /\ op.vl \in Values /\ op.nm \in Names
      /\ LenOf[op.vl] <= op.max /\ Extents(fl) /\ Room(free, total) /\ ~Valid(desc)
      /\ free \in Nat /\ total \in Nat /\ w \in Works /\ high \in 0..MaxObjects
    BY <1>2, WritingMeans
<1>4. /\ Counted(fl) /\ TypeInv /\ CallInv
    BY <1>2, <1>3 DEF Core, ReadyInv
<1>5. /\ DataArea(fl, fl, free) /\ Durable = [n \in Names |-> Paired(Pairs(fl), n)]
      /\ total = ActiveSize(fl) /\ \A e \in fl : e.lo < free /\ e.hi <= free
    BY <1>4, CountedFacts
<1>6. /\ free + MinSize <= PlannedSwap(total) /\ PlannedSwap(total) \in Int
      /\ MinSize <= ObjSize(LenOf[op.vl])
    BY <1>3, RoomMeans
<1>7. MinSize \in Nat /\ MinSize > 0 /\ ObjSize(LenOf[op.vl]) \in Nat
    BY ObjSizes, <1>3, PsmAssumption
<1>8. torn \in Extent /\ torn.lo = free /\ torn.hi = free + MinSize /\ torn.k = "torn" /\ ~torn.live
    BY <1>3, <1>7, UnreadableIs DEF Kinds
<1> HIDE DEF torn
<1>9. fl' = fl \cup {torn}
    <2>1. IsBlank(fl, torn.lo, torn.hi)
        BY <1>3, <1>5, <1>7, <1>8, BlankBehind
    <2> QED
        BY <1>1, <2>1, ProgramBlank DEF torn
<1>10. Extents(fl') /\ DataArea(fl', fl, free)
    BY <1>3, <1>5, <1>6, <1>7, <1>8, <1>9, BehindCounted
<1>11. Durable' = Durable
    BY <1>1, <1>3, <1>5, <1>9, <1>10, RestoredDataNext
<1>12. w' \in Works /\ w'.id = id /\ w'.old = found
    <2>1. found \in SUBSET Extent
        BY <1>3 DEF Extents
    <2>2. id \in Nat /\ w' = [NoWork EXCEPT !.id = id, !.old = found]
        BY <1>1
    <2> QED
        BY <2>1, <2>2, WorkObject
<1>13. TypeInv'
    BY <1>1, <1>4, <1>10, <1>12, PsmAssumption DEF TypeInv, Places
<1>14. CallInv'
    BY <1>1, <1>2, <1>3, <1>4 DEF CallInv, Saving, Moving, Copying1, Copying2
<1>15. Before(free)' = fl /\ torn \in fl'
    BY <1>1, <1>3, <1>5, <1>8, <1>9 DEF Before
<1>16. WritingInv'
    <2>1. \A e \in fl : e.id <= high'
        BY <1>1, <1>3, <1>4 DEF Counted, Extents, Extent
    <2>3. /\ Area(fl, 0, free') /\ total' = ActiveSize(fl) /\ free' <= PlannedSwap(total')
          /\ desc' = BlankDesc
        BY <1>1, <1>4 DEF Counted
    <2>4. /\ Room(free, total)'
          /\ w'.id \in 1..high'
          /\ \A e \in fl : e.nm = op'.nm <=> e.id = w'.id
          /\ w'.old = {e \in fl : e.live /\ e.nm = op'.nm}
          /\ IdRoom(high', free' + MinSize)
        BY <1>1, <1>3, <1>12 DEF Room
    <2>5. /\ fl' = fl \cup {torn} /\ torn.k = "torn" /\ torn.lo = free'
          /\ torn.hi <= free' + ObjSize(LenOf[op'.vl])
        BY <1>1, <1>3, <1>6, <1>7, <1>8, <1>9
    <2> QED
        BY <1>1, <1>15, <2>1, <2>3, <2>4, <2>5 DEF WritingInv, Counted
<1> QED
    BY <1>1, <1>3, <1>11, <1>13, <1>14, <1>16, Elsewhere DEF Core, Saving, Copying1, Copying2, Moving

(* Whether there is data or not, the flash holds the objects and the torn one *)
LEMMA GrowingIs ==
    ASSUME Core, pc \in {"data", "commit"}
    PROVE  /\ fl \ Growing = Before(free) /\ Growing # {}
           /\ IdRoom(high, free + MinSize) /\ w.id \in 1..high
           /\ \A e \in Before(free) : e.nm = op.nm <=> e.id = w.id
           /\ w.old = {e \in Before(free) : e.live /\ e.nm = op.nm}
<1>1. /\ IdRoom(high, free + MinSize) /\ w.id \in 1..high
      /\ \A e \in Before(free) : e.nm = op.nm <=> e.id = w.id
      /\ w.old = {e \in Before(free) : e.live /\ e.nm = op.nm}
      /\ \E r \in fl : /\ fl = Before(free) \cup {r} /\ r.k = "torn" /\ r.lo = free
    BY DEF Core, WritingInv
<1>2. free \in Nat
    BY WritingMeans
<1> QED
    BY <1>1, <1>2 DEF Growing, Before

(* The data of the new object *)
LEMMA WriteDataKeeps ==
    ASSUME Core, WriteData
    PROVE  Core' /\ Durable' = Durable
<1> DEFINE O == Before(free)
           size == ObjSize(LenOf[op.vl])
           torn == Unreadable("torn", free, free + size)
<1>1. /\ pc = "data" /\ pc' = "commit" /\ fl' = Program(fl \ Growing, torn)
      /\ UNCHANGED <<desc, total, free, high, st, op, ret, w>>
    BY DEF WriteData
<1>2. /\ st = "up" /\ op \in Calls /\ op.kind = "set" /\ op.vl \in Values /\ op.nm \in Names
      /\ LenOf[op.vl] <= op.max /\ O \subseteq fl /\ Extents(fl) /\ Extents(O) /\ Counted(O)
      /\ Room(free, total) /\ DataArea(O, O, free) /\ ~Valid(desc)
      /\ free \in Nat /\ total \in Nat /\ total = ActiveSize(O) /\ w \in Works
      /\ \A e \in O : e.lo < free /\ e.hi <= free
    BY <1>1, WritingMeans
<1>3. size \in Nat /\ size > 0 /\ free + size <= PlannedSwap(total) /\ free + MinSize <= PlannedSwap(total)
    <2>1. size \in Nat /\ MinSize <= size /\ free + size <= PlannedSwap(total) /\ free + MinSize <= PlannedSwap(total)
        BY <1>2, RoomMeans
    <2> QED
        BY <2>1, ObjSizes
<1>4. /\ fl \ Growing = O
      /\ IdRoom(high, free + MinSize) /\ w.id \in 1..high
      /\ \A e \in O : e.nm = op.nm <=> e.id = w.id
      /\ w.old = {e \in O : e.live /\ e.nm = op.nm}
    BY <1>1, GrowingIs
<1> HIDE DEF size
<1>5. torn \in Extent /\ torn.lo = free /\ torn.hi = free + size /\ torn.k = "torn" /\ ~torn.live
    BY <1>2, <1>3, UnreadableIs DEF Kinds
<1> HIDE DEF torn, O
<1>6. fl' = O \cup {torn}
    <2>1. IsBlank(O, torn.lo, torn.hi)
        BY <1>2, <1>3, <1>5, BlankBehind
    <2> QED
        BY <1>1, <1>4, <2>1, ProgramBlank
<1>7. Extents(fl') /\ DataArea(fl', O, free)
    <2>1. torn.lo < torn.hi /\ torn.hi <= PlannedSwap(ActiveSize(O)) /\ free + MinSize <= PlannedSwap(ActiveSize(O))
        BY <1>2, <1>3, <1>5
    <2>2. Extents(O \cup {torn}) /\ DataArea(O \cup {torn}, O, free)
        BY <1>2, <1>5, <2>1, BehindCounted
    <2> QED
        BY <1>6, <2>2
<1>8. Durable' = Durable
    <2>1. Durable = [n \in Names |-> Paired(Pairs(O), n)]
        BY <1>1, DurableBehind DEF O
    <2> QED
        BY <1>1, <1>2, <1>6, <1>7, <2>1, RestoredDataNext
<1>9. TypeInv'
    BY <1>1, <1>7 DEF TypeInv, Places, Core
<1>10. CallInv'
    BY <1>1, <1>2 DEF CallInv, Saving, Moving, Copying1, Copying2, Core
<1>11. Before(free)' = O /\ torn \in fl'
    <2>1. Before(free)' = {e \in fl' : e.lo < free}
        BY <1>1 DEF Before
    <2> QED
        BY <2>1, <1>2, <1>5, <1>6
<1>12. WritingInv'
    <2>2. /\ Area(O, 0, free') /\ total' = ActiveSize(O) /\ free' <= PlannedSwap(total')
          /\ desc' = BlankDesc /\ \A e \in O : e.id <= high'
        BY <1>1, <1>2 DEF Counted
    <2>3. /\ Room(free, total)'
          /\ w'.id \in 1..high'
          /\ \A e \in O : e.nm = op'.nm <=> e.id = w'.id
          /\ w'.old = {e \in O : e.live /\ e.nm = op'.nm}
          /\ IdRoom(high', free' + MinSize)
        BY <1>1, <1>2, <1>4 DEF Room
    <2>4. /\ fl' = O \cup {torn} /\ torn.k = "torn" /\ torn.lo = free'
          /\ torn.hi <= free' + ObjSize(LenOf[op'.vl])
        <3>1. ObjSize(LenOf[op'.vl]) = size /\ free' = free
            BY <1>1 DEF size
        <3> QED
            BY <1>2, <1>3, <1>5, <1>6, <3>1
    <2> QED
        BY <1>1, <1>11, <2>2, <2>3, <2>4 DEF WritingInv, Counted
<1> QED
    BY <1>1, <1>2, <1>8, <1>9, <1>10, <1>12, Elsewhere DEF Core, Saving, Copying1, Copying2, Moving

(* A complete object behind the others *)
LEMMA AddObject ==
    ASSUME NEW g, Extents(g), NEW end \in Nat, Area(g, 0, end),
           NEW e \in Extent, e.k = "obj", e.lo = end, e.lo < e.hi, e.hi <= PartSize,
           e.good, e.live, e.nm \in Names, e.vl \in Values, SizeOf(e) = ObjSize(LenOf[e.vl]),
           e.id >= 1, IdRoom(e.id, e.hi),
           \A d \in g : d.nm = e.nm <=> d.id = e.id,
           \A d \in g : d.live => d.nm # e.nm
    PROVE  /\ Extents(g \cup {e}) /\ Area(g \cup {e}, 0, e.hi)
           /\ ActiveSize(g \cup {e}) = ActiveSize(g) + SizeOf(e)
           /\ Pairs(g \cup {e}) = Pairs(g) \cup {<<e.nm, e.vl>>}
           /\ \A p \in Pairs(g) : p[1] # e.nm
<1>1. Tiles(g, 0, end) /\ Catalogue(g, 0) /\ \A d \in g : d.hi <= end
    BY DEF Area, Tiles
<1>2. Extents(g \cup {e})
    BY <1>1, ExtentsAdd
<1>3. Tiles(g \cup {e}, 0, e.hi)
    BY <1>1, TilesAdd
<1>4. Catalogue(g \cup {e}, 0)
    <2>1. MinSize <= SizeOf(e)
        BY ObjSizes, PsmAssumption
    <2>2. IdRoom(e.id, e.hi - 0)
        BY DEF Extent
    <2>3. \A d \in g : d.live => d.id # e.id
        OBVIOUS
    <2> QED
        BY <1>1, <2>1, <2>2, <2>3, CatalogueAdd
<1>5. e \notin g
    OBVIOUS
<1>6. ActiveSize(g \cup {e}) = ActiveSize(g) + SizeOf(e)
    BY <1>2, <1>5, SizeAdd
<1>7. Pairs(g \cup {e}) = Pairs(g) \cup {<<e.nm, e.vl>>}
    BY PairsAdd
<1>8. \A p \in Pairs(g) : p[1] # e.nm
    BY DEF Pairs
<1> QED
    BY <1>2, <1>3, <1>4, <1>6, <1>7, <1>8 DEF Area

(* The parts of the object being written *)
LEMMA NewObjectIs ==
    ASSUME Core, pc \in {"commit", "inact"}
    PROVE  LET e == NewObject  size == ObjSize(LenOf[op.vl])
           IN  /\ e \in Extent /\ e.k = "obj" /\ e.lo = free /\ e.hi = free + size /\ e.lo < e.hi
               /\ e.hi <= PartSize /\ e.good /\ e.live /\ e.nm = op.nm /\ e.vl = op.vl
               /\ SizeOf(e) = size /\ e.id = w.id /\ w.id >= 1 /\ IdRoom(w.id, e.hi)
               /\ IdRoom(high, e.hi) /\ w.id <= high /\ high \in Nat /\ w.id \in Nat
               /\ size \in Nat /\ free + size <= PlannedSwap(total + size)
               /\ free + size <= PlannedSwap(total) /\ free + MinSize <= PlannedSwap(total)
<1> DEFINE size == ObjSize(LenOf[op.vl])
<1>1. /\ op \in Calls /\ op.kind = "set" /\ op.vl \in Values /\ op.nm \in Names
      /\ LenOf[op.vl] <= op.max /\ Room(free, total)
      /\ free \in Nat /\ total \in Nat /\ w \in Works /\ high \in 0..MaxObjects
      /\ PlannedSwap(total) <= PartSize - BlockSize /\ PlannedSwap(total) \in Int
    BY WritingMeans
<1>2. /\ size \in Nat /\ MinSize <= size
      /\ free + size <= PlannedSwap(total + size) /\ free + size <= PlannedSwap(total)
      /\ free + MinSize <= PlannedSwap(total)
    BY <1>1, RoomMeans
<1>3. IdRoom(high, free + MinSize) /\ w.id \in 1..high
    BY DEF Core, WritingInv
<1>4. high \in Nat /\ w.id \in Nat /\ w.id <= high /\ w.id >= 1 /\ MinSize \in Nat /\ MinSize > 0
    BY <1>1, <1>3, ObjSizes DEF Works
<1> HIDE DEF size
<1>5. IdRoom(high, free + size)
    <2>1. free + MinSize \in Int /\ free + size \in Int /\ free + MinSize <= free + size
        BY <1>1, <1>2, <1>4
    <2> QED
        BY <1>3, <1>4, <2>1, IdRoomMore
<1>6. IdRoom(w.id, free + size)
    BY <1>1, <1>2, <1>4, <1>5, IdRoomFewer
<1>7. free + size <= PartSize
    BY <1>1, <1>2, PartSizeAssumption, BlockSizeAssumption
<1>8. LET e == NewObject
      IN  /\ e \in Extent /\ e.lo = free /\ e.hi = free + size /\ e.k = "obj" /\ e.id = w.id
          /\ e.nm = op.nm /\ e.vl = op.vl /\ e.live /\ e.good = TRUE /\ SizeOf(e) = size
    <2>1. NewObject = Obj(free, size, w.id, op.nm, op.vl, TRUE)
        BY DEF NewObject, size
    <2> QED
        BY <1>1, <1>2, <1>4, <2>1 DEF Obj, Extent, Kinds, SizeOf
<1> QED
    BY <1>1, <1>2, <1>4, <1>5, <1>6, <1>7, <1>8 DEF size

(* The call returns with the new object behind the objects g, none of      *)
(* which is active under its name.                                         *)
LEMMA FinishKeeps ==
    ASSUME Core, pc \in {"commit", "inact"}, NEW g, Extents(g), Area(g, 0, free),
           \A e \in g : e.id <= high, \A e \in g : e.nm = op.nm <=> e.id = w.id,
           \A e \in g : e.live => e.nm # op.nm,
           ActiveSize(g) <= total,
           Pairs(g) = {p \in Pairs(Before(free)) : p[1] # op.nm},
           fl' = g \cup {NewObject}, total' = ActiveSize(g) + ObjSize(LenOf[op.vl]),
           free' = free + ObjSize(LenOf[op.vl]), Return("ok"), UNCHANGED <<desc, high, st>>
    PROVE  Core' /\ Durable' = [Durable EXCEPT ![op.nm] = op.vl]
<1> DEFINE e == NewObject
           size == ObjSize(LenOf[op.vl])
           O == Before(free)
<1>1. /\ st = "up" /\ op \in Calls /\ op.kind = "set" /\ op.vl \in Values /\ op.nm \in Names
      /\ Counted(O) /\ free \in Nat /\ total \in Nat /\ ~Valid(desc)
      /\ PlannedSwap(total) <= PartSize - BlockSize /\ PlannedSwap(total) \in Int
    BY WritingMeans
<1>2. /\ e \in Extent /\ e.k = "obj" /\ e.lo = free /\ e.hi = free + size /\ e.lo < e.hi
      /\ e.hi <= PartSize /\ e.good /\ e.live /\ e.nm = op.nm /\ e.vl = op.vl
      /\ SizeOf(e) = size /\ e.id = w.id /\ w.id >= 1 /\ IdRoom(w.id, e.hi)
      /\ IdRoom(high, e.hi) /\ w.id <= high /\ high \in Nat /\ w.id \in Nat
      /\ size \in Nat /\ free + size <= PlannedSwap(total + size)
    BY NewObjectIs
<1> HIDE DEF e, size
<1>3. fl' = g \cup {e} /\ total' = ActiveSize(g) + size /\ free' = free + size
    BY DEF e, size
<1>4. /\ Extents(g \cup {e}) /\ Area(g \cup {e}, 0, e.hi)
      /\ ActiveSize(g \cup {e}) = ActiveSize(g) + size
      /\ Pairs(g \cup {e}) = Pairs(g) \cup {<<op.nm, op.vl>>}
      /\ \A p \in Pairs(g) : p[1] # op.nm
    <2>1. \A d \in g : d.nm = e.nm <=> d.id = e.id
        BY <1>2
    <2>2. \A d \in g : d.live => d.nm # e.nm
        BY <1>2
    <2>3. SizeOf(e) = ObjSize(LenOf[e.vl])
        BY <1>2 DEF size
    <2>4. e.nm \in Names /\ e.vl \in Values /\ e.id >= 1 /\ IdRoom(e.id, e.hi)
        BY <1>1, <1>2
    <2>5. /\ e \in Extent /\ e.k = "obj" /\ e.lo = free /\ free \in Nat /\ e.lo < e.hi
          /\ e.hi <= PartSize /\ e.good /\ e.live
        BY <1>1, <1>2
    <2>6. /\ Extents(g \cup {e}) /\ Area(g \cup {e}, 0, e.hi)
          /\ ActiveSize(g \cup {e}) = ActiveSize(g) + SizeOf(e)
          /\ Pairs(g \cup {e}) = Pairs(g) \cup {<<e.nm, e.vl>>}
          /\ \A p \in Pairs(g) : p[1] # e.nm
        BY <2>1, <2>2, <2>3, <2>4, <2>5, AddObject
    <2>7. SizeOf(e) = size /\ e.nm = op.nm /\ e.vl = op.vl
        BY <1>2
    <2> QED
        BY <2>6, <2>7
<1>5. ActiveSize(g) \in Nat
    BY SizeType
<1>6. free' <= PlannedSwap(total') /\ total' = ActiveSize(fl')
    <2>1. ActiveSize(g) + size \in Nat /\ total + size \in Nat /\ ActiveSize(g) + size <= total + size
        BY <1>1, <1>2, <1>5
    <2>2. /\ PlannedSwap(total + size) <= PlannedSwap(ActiveSize(g) + size)
          /\ PlannedSwap(total + size) \in Int /\ PlannedSwap(ActiveSize(g) + size) \in Int
        BY <2>1, SwapMonotone
    <2>3. total' = ActiveSize(fl')
        BY <1>3, <1>4
    <2>4. free + size <= PlannedSwap(ActiveSize(g) + size)
        BY <1>1, <1>2, <2>2
    <2> QED
        BY <1>3, <2>3, <2>4
<1>7. Extents(fl') /\ Area(fl', 0, free') /\ IdRoom(high', free') /\ high' = high
    BY <1>2, <1>3, <1>4
<1>8. \A d \in fl' : d.id <= high'
    BY <1>2, <1>3
<1>9. DataArea(fl', fl', free') /\ free' \in Nat
    BY <1>1, <1>2, <1>3, <1>6, <1>7 DEF DataArea
<1>10. Counted(fl)' /\ Extents(fl)'
    <2>1. desc' = BlankDesc
        BY <1>1 DEF Counted
    <2> QED
        BY <1>6, <1>7, <1>8, <2>1 DEF Counted
<1>11. /\ pc' = "idle" /\ op' = NoCall /\ ret' = "ok" /\ w' = NoWork /\ st' = "up" /\ desc' = desc
    BY <1>1 DEF Return
<1>12. TypeInv'
    <2>1. NoWork \in Works /\ NoCall \in Calls
        BY PartSizeAssumption DEF NoWork, Works, NoCall, Calls
    <2>2. free' \in 0..PartSize
        BY <1>2, <1>3, <1>9
    <2>3. total' \in 0..PartSize
        <3>1. ActiveSize(fl') \in Nat /\ ActiveSize(fl') <= PartSize
            BY <1>7, SizeType
        <3> QED
            BY <3>1, <1>6, PartSizeAssumption
    <2>4. desc' \in Descriptors /\ high' \in 0..MaxObjects
        BY <1>11 DEF Core, TypeInv
    <2> QED
        BY <1>7, <1>11, <2>1, <2>2, <2>3, <2>4 DEF TypeInv, Places
<1>13. CallInv'
    BY <1>11 DEF CallInv, NoCall, Saving, Moving, Copying1, Copying2
<1>14. ReadyInv'
    BY <1>7, <1>10 DEF ReadyInv
<1>15. Durable' = [Durable EXCEPT ![op.nm] = op.vl]
    <2>1. Durable = [n \in Names |-> Paired(Pairs(O), n)]
        BY DurableBehind
    <2>2. Durable' = [n \in Names |-> Paired(Pairs(fl'), n)]
        BY <1>1, <1>7, <1>9, <1>11, RestoredDataNext
    <2>3. Pairs(fl') = Pairs(g) \cup {<<op.nm, op.vl>>}
        BY <1>3, <1>4
    <2>4. Pairs(fl') = {p \in Pairs(O) : p[1] # op.nm} \cup {<<op.nm, op.vl>>}
        BY <2>3
    <2>5. [n \in Names |-> Paired(Pairs(fl'), n)]
             = [[n \in Names |-> Paired(Pairs(O), n)] EXCEPT ![op.nm] = op.vl]
        <3> DEFINE P == Pairs(O)
                   R == Pairs(fl')
                   nm == op.nm
                   v == op.vl
                   q == <<nm, v>>
        <3>1. q[1] = nm /\ q[2] = v /\ nm \in Names
            BY <1>1
        <3>2. R = {p \in P : p[1] # nm} \cup {q}
            BY <2>4
        <3> HIDE DEF P, R, q, nm, v
        <3>3. Paired(R, nm) = v /\ \A n \in Names : n # nm => Paired(R, n) = Paired(P, n)
            <4>1. Paired(R, nm) = v
                <5>1. \E p \in R : p[1] = nm
                    BY <3>1, <3>2
                <5>2. \A p \in R : p[1] = nm => p[2] = v
                    BY <3>1, <3>2
                <5> QED
                    BY <5>1, <5>2, PairedSome
            <4>2. ASSUME NEW n \in Names, n # nm PROVE Paired(R, n) = Paired(P, n)
                <5>1. \A p \in R : p[1] = n => p \in P
                    BY <3>1, <3>2, <4>2
                <5>2. \A p \in P : p[1] = n => p \in R
                    BY <3>1, <3>2, <4>2
                <5> QED
                    BY <5>1, <5>2, PairedSame
            <4> QED
                BY <4>1, <4>2
        <3> QED
            BY <3>3 DEF P, R, q, nm, v
    <2> QED
        BY <2>1, <2>2, <2>5
<1> QED
    BY <1>11, <1>12, <1>13, <1>14, <1>15, Elsewhere DEF Core, Saving, Copying1, Copying2, Moving

(* The first object of a name is complete *)
LEMMA CommitFirst ==
    ASSUME Core, Commit, w.old = {}
    PROVE  Core' /\ Durable' = [Durable EXCEPT ![op.nm] = op.vl]
<1> DEFINE O == Before(free)
<1>1. pc = "commit"
    BY DEF Commit
<1>2. /\ fl \ Growing = O /\ Growing # {}
      /\ \A e \in O : e.nm = op.nm <=> e.id = w.id
      /\ w.old = {e \in O : e.live /\ e.nm = op.nm}
    BY <1>1, GrowingIs
<1>3. /\ Extents(O) /\ Counted(O) /\ total \in Nat /\ total = ActiveSize(O) /\ op.vl \in Values
    BY <1>1, WritingMeans
<1>4. /\ fl' = O \cup {NewObject} /\ UNCHANGED <<desc, high, st>>
      /\ total' = total + ObjSize(LenOf[op.vl]) - 0 /\ free' = free + ObjSize(LenOf[op.vl])
      /\ Return("ok")
    BY <1>2 DEF Commit, FinishSet, NewObject
<1>5. total' = ActiveSize(O) + ObjSize(LenOf[op.vl])
    BY <1>3, <1>4, ObjSizes, PsmAssumption
<1>6. Area(O, 0, free) /\ \A e \in O : e.id <= high
    BY <1>3 DEF Counted
<1>7. \A e \in O : e.live => e.nm # op.nm
    BY <1>2
<1>8. Pairs(O) = {p \in Pairs(O) : p[1] # op.nm}
    BY <1>7 DEF Pairs
<1> QED
    BY <1>1, <1>2, <1>3, <1>4, <1>5, <1>6, <1>7, <1>8, FinishKeeps

(* An object that replaces another is complete *)
LEMMA CommitAnother ==
    ASSUME Core, Commit, w.old # {}
    PROVE  Core' /\ Durable' = Durable
<1> DEFINE O == Before(free)
<1>1. pc = "commit"
    BY DEF Commit
<1>2. /\ fl \ Growing = O /\ Growing # {}
      /\ IdRoom(high, free + MinSize) /\ w.id \in 1..high
      /\ \A e \in O : e.nm = op.nm <=> e.id = w.id
      /\ w.old = {e \in O : e.live /\ e.nm = op.nm}
    BY <1>1, GrowingIs
<1>3. /\ st = "up" /\ op \in Calls /\ op.kind = "set" /\ op.vl \in Values /\ op.nm \in Names
      /\ Extents(O) /\ Counted(O) /\ Room(free, total) /\ DataArea(O, O, free) /\ ~Valid(desc)
      /\ free \in Nat /\ total = ActiveSize(O) /\ \A e \in O : e.lo < free
    BY <1>1, WritingMeans
<1>4. /\ fl' = O \cup {NewObject} /\ pc' = "inact"
      /\ UNCHANGED <<desc, high, st, total, free, op, ret, w>>
    BY <1>2 DEF Commit, NewObject
<1> DEFINE e == NewObject
<1>5. /\ e \in Extent /\ e.k = "obj" /\ e.lo = free /\ e.lo < e.hi /\ e.live /\ e.id = w.id
      /\ e.hi <= PlannedSwap(ActiveSize(O)) /\ free + MinSize <= PlannedSwap(ActiveSize(O))
    BY <1>1, <1>3, NewObjectIs
<1> HIDE DEF e
<1>6. Extents(fl') /\ DataArea(fl', O, free)
    <2>1. \E o \in O : o.live /\ o.id = e.id
        BY <1>2, <1>5
    <2>2. Extents(O \cup {e}) /\ DataArea(O \cup {e}, O, free)
        BY <1>3, <1>5, <2>1, BehindCounted
    <2> QED
        BY <1>4, <2>2 DEF e
<1>7. Durable' = Durable
    <2>1. Durable = [n \in Names |-> Paired(Pairs(O), n)]
        BY <1>1, DurableBehind
    <2>2. O \subseteq fl'
        BY <1>4
    <2> QED
        BY <1>3, <1>4, <1>6, <2>1, <2>2, RestoredDataNext
<1>8. TypeInv'
    BY <1>4, <1>6 DEF TypeInv, Places, Core
<1>9. CallInv'
    BY <1>1, <1>3, <1>4 DEF CallInv, Saving, Moving, Copying1, Copying2, Core
<1>10. WritingInv'
    <2>1. Before(free)' = O
        <3>1. Before(free)' = {x \in fl' : x.lo < free}
            BY <1>4 DEF Before
        <3> QED
            BY <3>1, <1>3, <1>4, <1>5 DEF e
    <2>3. NewObject' = NewObject
        BY <1>4 DEF NewObject
    <2>4. /\ Area(O, 0, free') /\ total' = ActiveSize(O) /\ free' <= PlannedSwap(total')
          /\ desc' = BlankDesc /\ \A x \in O : x.id <= high'
        BY <1>3, <1>4 DEF Counted
    <2>5. /\ Room(free, total)'
          /\ w'.id \in 1..high'
          /\ \A x \in O : x.nm = op'.nm <=> x.id = w'.id
          /\ w'.old = {x \in O : x.live /\ x.nm = op'.nm}
          /\ IdRoom(high', free' + MinSize)
        BY <1>2, <1>3, <1>4 DEF Room
    <2>6. fl' = O \cup {NewObject'} /\ w'.old # {}
        BY <1>4, <2>3
    <2> QED
        BY <1>4, <2>1, <2>4, <2>5, <2>6 DEF WritingInv, Counted
<1> QED
    BY <1>3, <1>4, <1>7, <1>8, <1>9, <1>10, Elsewhere DEF Core, Saving, Copying1, Copying2, Moving

(* An object made inactive *)
LEMMA InactivateIs ==
    ASSUME NEW f, Extents(f), NEW a, Catalogue(f, a), NEW o \in f, o.live
    PROVE  LET g == Inactivate(f, {o})
           IN  /\ \A e \in g : (e \in f /\ e # o) \/ e = Inactive(o)
               /\ \A e \in g : e.live => e.nm # o.nm
               /\ \A e \in g : \E d \in f : e.id = d.id /\ e.nm = d.nm
<1> DEFINE g == Inactivate(f, {o})
<1>1. \A e \in g : (e \in f /\ e # o) \/ e = Inactive(o)
    BY DEF Inactivate
<1>2. Inactive(o).id = o.id /\ Inactive(o).nm = o.nm /\ ~Inactive(o).live
    BY InactiveIs DEF Extents
<1>3. \A e \in f : e.live /\ e.nm = o.nm => e = o
    BY DEF Catalogue
<1> HIDE DEF g
<1>4. \A e \in g : e.live => e.nm # o.nm
    BY <1>1, <1>2, <1>3
<1>5. \A e \in g : \E d \in f : e.id = d.id /\ e.nm = d.nm
    BY <1>1, <1>2
<1> QED
    BY <1>1, <1>4, <1>5 DEF g

(* There is one object to replace *)
LEMMA OldIs ==
    ASSUME Core, pc = "inact"
    PROVE  LET O == Before(free)
           IN  \E o \in O : /\ w.old = {o} /\ o.live /\ o.nm = op.nm
                            /\ Inactivate(fl, w.old) = Inactivate(O, {o}) \cup {NewObject}
<1> DEFINE O == Before(free)
<1>1. /\ fl = O \cup {NewObject} /\ w.old # {}
      /\ \A e \in O : e.nm = op.nm <=> e.id = w.id
      /\ w.old = {e \in O : e.live /\ e.nm = op.nm}
    BY DEF Core, WritingInv
<1>2. Catalogue(O, 0) /\ free \in Nat /\ \A e \in O : e.lo < free
    BY WritingMeans DEF Counted, Area
<1>3. PICK o \in O : o.live /\ o.nm = op.nm
    BY <1>1
<1>4. w.old = {o}
    BY <1>1, <1>2, <1>3 DEF Catalogue
<1>5. NewObject.lo = free
    BY DEF NewObject, Obj
<1>6. NewObject # o
    BY <1>2, <1>5
<1>7. Inactivate(fl, {o}) = Inactivate(O, {o}) \cup {NewObject}
    BY <1>1, <1>6 DEF Inactivate
<1> QED
    BY <1>3, <1>4, <1>7

(* The replaced object is made inactive *)
LEMMA InactivateOldKeeps ==
    ASSUME Core, InactivateOld
    PROVE  Core' /\ Durable' = [Durable EXCEPT ![op.nm] = op.vl]
<1> DEFINE O == Before(free)
<1>1. pc = "inact"
    BY DEF InactivateOld
<1>2. PICK o \in O : /\ w.old = {o} /\ o.live /\ o.nm = op.nm
                     /\ Inactivate(fl, w.old) = Inactivate(O, {o}) \cup {NewObject}
    BY <1>1, OldIs
<1> DEFINE g == Inactivate(O, {o})
<1>3. /\ Extents(O) /\ Counted(O) /\ total \in Nat /\ total = ActiveSize(O) /\ op.vl \in Values
      /\ free \in Nat
    BY <1>1, WritingMeans
<1>4. /\ \A e \in O : e.nm = op.nm <=> e.id = w.id
    BY <1>1 DEF Core, WritingInv
<1>5. Area(O, 0, free) /\ Catalogue(O, 0) /\ \A e \in O : e.id <= high
    BY <1>3 DEF Counted, Area
<1>6. /\ Extents(g) /\ Area(g, 0, free)
      /\ ActiveSize(g) = ActiveSize(O) - SizeOf(o)
      /\ Pairs(g) = {p \in Pairs(O) : p[1] # o.nm}
    BY <1>2, <1>3, <1>5, InactivateOne
<1>7. /\ \A e \in g : e.live => e.nm # o.nm
      /\ \A e \in g : \E d \in O : e.id = d.id /\ e.nm = d.nm
    BY <1>2, <1>3, <1>5, InactivateIs
<1> HIDE DEF g
<1>8. /\ fl' = g \cup {NewObject} /\ UNCHANGED <<desc, high, st>> /\ Return("ok")
      /\ total' = total + ObjSize(LenOf[op.vl]) - SizeOf(o) /\ free' = free + ObjSize(LenOf[op.vl])
    BY <1>2 DEF InactivateOld, FinishSet, g
<1>9. SizeOf(o) \in Nat /\ ObjSize(LenOf[op.vl]) \in Nat
    <2>1. o.lo \in Nat /\ o.hi \in Nat /\ o.lo < o.hi
        BY <1>3 DEF Extents, Extent
    <2>2. LenOf[op.vl] \in Nat
        BY <1>3, PsmAssumption
    <2> QED
        BY <2>1, <2>2, ObjSizes DEF SizeOf
<1>10. total' = ActiveSize(g) + ObjSize(LenOf[op.vl]) /\ ActiveSize(g) <= total
    BY <1>3, <1>6, <1>8, <1>9
<1>11. /\ \A e \in g : e.id <= high
       /\ \A e \in g : e.nm = op.nm <=> e.id = w.id
       /\ \A e \in g : e.live => e.nm # op.nm
    <2>1. ASSUME NEW e \in g
          PROVE  e.id <= high /\ (e.nm = op.nm <=> e.id = w.id) /\ (e.live => e.nm # op.nm)
        <3>1. PICK d \in O : e.id = d.id /\ e.nm = d.nm
            BY <1>7
        <3> QED
            BY <1>2, <1>4, <1>5, <1>7, <3>1
    <2> QED
        BY <2>1
<1>12. Pairs(g) = {p \in Pairs(O) : p[1] # op.nm}
    BY <1>2, <1>6
<1> QED
    BY <1>1, <1>6, <1>8, <1>10, <1>11, <1>12, FinishKeeps

-----------------------------------------------------------------------------
(***************************************************************************)
(* Deleting an object                                                      *)
(***************************************************************************)
(* What is known when an object is deleted *)
LEMMA DeleteMeans ==
    ASSUME Core, pc = "del"
    PROVE  st = "up" /\ Counted(fl) /\ IdRoom(high, free) /\ op.nm \in Names /\ op.kind = "del"
           /\ op.vl = NoValue
<1>1. op.kind = "del" /\ op.nm \in Names /\ op.vl = NoValue /\ st = "up"
    BY DEF Core, CallInv, TypeInv, NoCall
<1> QED
    BY <1>1 DEF Core, ReadyInv

(* The deleted object, when there is one, and the counters *)
LEMMA DeleteIs ==
    ASSUME Core, DeleteObject
    PROVE  /\ Extents(fl') /\ Area(fl', 0, free) /\ total' = ActiveSize(fl') /\ total' <= total
           /\ \A e \in fl' : \E d \in fl : d.id = e.id
           /\ Pairs(fl') = {p \in Pairs(fl) : p[1] # op.nm}
           /\ \E old \in {0} \cup {ObjSize(LenOf[v]) : v \in Values} :
                old <= total /\ total' = total - old
<1>1. pc = "del" /\ Counted(fl) /\ Extents(fl) /\ TypeInv
    BY DeleteMeans DEF DeleteObject, Core, TypeInv
<1>2. Area(fl, 0, free) /\ Catalogue(fl, 0)
    BY <1>1 DEF Counted, Area
<1>3. total = ActiveSize(fl) /\ total \in Nat /\ DataChain(fl) = fl /\ free \in Nat
    BY <1>1, CountedFacts
<1> DEFINE found == {e \in fl : e.live /\ e.nm = op.nm}
<1>4. Search(op.nm).obj = found
    BY <1>1, <1>2, <1>3, SearchIs
<1>5. fl' = Inactivate(fl, found) /\ total' = total - ActiveSize(found)
    BY <1>4 DEF DeleteObject
<1>6. CASE found = {}
    <2>1. fl' = fl
        BY <1>5, <1>6 DEF Inactivate
    <2>2. total' = total
        BY <1>3, <1>5, <1>6, SizeEmpty
    <2>3. Pairs(fl) = {p \in Pairs(fl) : p[1] # op.nm}
        BY <1>6 DEF Pairs
    <2>4. 0 <= total /\ total' = total - 0
        BY <1>3, <2>2
    <2> QED
        BY <1>1, <1>2, <1>3, <2>1, <2>2, <2>3, <2>4
<1>7. CASE found # {}
    <2>1. PICK o \in fl : o.live /\ o.nm = op.nm
        BY <1>7
    <2>2. found = {o}
        BY <1>2, <2>1 DEF Catalogue
    <2>3. fl' = Inactivate(fl, {o})
        BY <1>5, <2>2
    <2>4. /\ Extents(fl') /\ Area(fl', 0, free)
          /\ ActiveSize(fl') = ActiveSize(fl) - SizeOf(o)
          /\ Pairs(fl') = {p \in Pairs(fl) : p[1] # op.nm}
          /\ \A e \in fl' : \E d \in fl : d.id = e.id
        BY <1>1, <1>2, <1>3, <2>1, <2>3, InactivateOne
    <2>5. SizeOf(o) \in Nat
        BY <1>1 DEF Extents, Extent, SizeOf
    <2>6. ActiveSize({o}) = SizeOf(o)
        <3>1. Extents({} \cup {o})
            BY <1>1, ExtentsSubset
        <3>2. ActiveSize({} \cup {o}) = ActiveSize({}) + SizeOf(o)
            BY <2>1, <3>1, SizeAdd
        <3>3. {} \cup {o} = {o}
            OBVIOUS
        <3> QED
            BY <2>5, <3>2, <3>3, SizeEmpty
    <2>7. /\ o.vl \in Values /\ SizeOf(o) = ObjSize(LenOf[o.vl])
          /\ SizeOf(o) <= total /\ total' = total - SizeOf(o)
        <3>1. o.vl \in Values /\ SizeOf(o) = ObjSize(LenOf[o.vl])
            BY <1>2, <2>1 DEF Catalogue
        <3>2. ActiveSize(fl') \in Nat
            BY <2>4, SizeType
        <3>3. total' = total - SizeOf(o)
            BY <1>5, <2>2, <2>6
        <3>4. SizeOf(o) <= total
            BY <1>3, <2>4, <2>5, <3>2
        <3> QED
            BY <3>1, <3>3, <3>4
    <2>8. \E old \in {0} \cup {ObjSize(LenOf[v]) : v \in Values} : old <= total /\ total' = total - old
        BY <2>7
    <2> HIDE DEF found
    <2>9. total' = ActiveSize(fl') /\ total' <= total
        BY <1>3, <2>4, <2>5, <2>7
    <2> QED
        BY <2>4, <2>8, <2>9
<1> QED
    BY <1>6, <1>7

(* psm_object_delete *)
LEMMA DeleteObjectKeeps ==
    ASSUME Core, DeleteObject
    PROVE  Core' /\ Durable' = [Durable EXCEPT ![op.nm] = NoValue]
<1>1. /\ pc = "del" /\ st = "up" /\ Counted(fl) /\ IdRoom(high, free) /\ op.nm \in Names /\ TypeInv
    BY DeleteMeans DEF DeleteObject, Core
<1>2. /\ Extents(fl') /\ Area(fl', 0, free) /\ total' = ActiveSize(fl') /\ total' <= total
      /\ \A e \in fl' : \E d \in fl : d.id = e.id
      /\ Pairs(fl') = {p \in Pairs(fl) : p[1] # op.nm}
    BY DeleteIs
<1>3. /\ pc' = "idle" /\ op' = NoCall /\ ret' = "ok" /\ w' = NoWork
      /\ UNCHANGED <<desc, free, high, st>>
    BY DEF DeleteObject, Return
<1>4. /\ Durable = [n \in Names |-> Paired(Pairs(fl), n)] /\ free \in Nat /\ total \in Nat
      /\ free <= PlannedSwap(total) /\ ~Valid(desc)
    BY <1>1, CountedFacts
<1>5. total' \in Nat /\ total' <= PartSize
    BY <1>2, SizeType
<1>6. free <= PlannedSwap(total')
    <2>1. PlannedSwap(total) <= PlannedSwap(total') /\ PlannedSwap(total) \in Int /\ PlannedSwap(total') \in Int
        BY <1>2, <1>4, <1>5, SwapMonotone
    <2> QED
        BY <1>4, <2>1
<1>7. Counted(fl)'
    <2>1. \A e \in fl' : e.id <= high
        BY <1>1, <1>2 DEF Counted
    <2> QED
        BY <1>1, <1>2, <1>3, <1>6, <2>1 DEF Counted
<1>8. DataArea(fl', fl', free)
    BY <1>2, <1>6 DEF DataArea
<1>9. TypeInv'
    <2>1. NoWork \in Works /\ NoCall \in Calls
        BY PartSizeAssumption DEF NoWork, Works, NoCall, Calls
    <2>2. total' \in 0..PartSize
        BY <1>5, PartSizeAssumption
    <2> QED
        BY <1>1, <1>2, <1>3, <2>1, <2>2 DEF TypeInv, Places
<1>10. CallInv'
    BY <1>1, <1>3 DEF CallInv, NoCall, Saving, Moving, Copying1, Copying2
<1>11. ReadyInv'
    BY <1>1, <1>3, <1>7 DEF ReadyInv
<1>12. Durable' = [Durable EXCEPT ![op.nm] = NoValue]
    <2> DEFINE P == Pairs(fl)
               R == Pairs(fl')
               nm == op.nm
    <2>1. Durable' = [n \in Names |-> Paired(R, n)]
        BY <1>2, <1>3, <1>4, <1>8, RestoredDataNext
    <2>2. R = {p \in P : p[1] # nm} /\ nm \in Names /\ Durable = [n \in Names |-> Paired(P, n)]
        BY <1>1, <1>2, <1>4
    <2> HIDE DEF P, R, nm
    <2>3. Paired(R, nm) = NoValue
        BY <2>2, PairedNone
    <2>4. ASSUME NEW n \in Names, n # nm PROVE Paired(R, n) = Paired(P, n)
        <3>1. \A p \in R : p[1] = n => p \in P
            BY <2>2
        <3>2. \A p \in P : p[1] = n => p \in R
            BY <2>2, <2>4
        <3> QED
            BY <3>1, <3>2, PairedSame
    <2>5. Durable' = [Durable EXCEPT ![nm] = NoValue]
        BY <2>1, <2>2, <2>3, <2>4
    <2> QED
        BY <2>5 DEF nm
<1> QED
    BY <1>1, <1>3, <1>9, <1>10, <1>11, <1>12, Elsewhere DEF Core, Saving, Copying1, Copying2, Moving

-----------------------------------------------------------------------------
(***************************************************************************)
(* Erasing                                                                 *)
(***************************************************************************)
(* Steps that keep the good area keep the contents *)
LEMMA DataKept ==
    ASSUME NEW O \in SUBSET fl, O \subseteq fl', NEW end \in Nat,
           Extents(fl), Extents(fl'), DataArea(fl, O, end), DataArea(fl', O, end),
           ~Valid(desc), ~Valid(desc')
    PROVE  Durable' = Durable /\ Occupied' = Occupied
<1>1. Durable = [n \in Names |-> Paired(Pairs(O), n)] /\ Occupied = <<ActiveSize(O), end>>
    BY RestoredData, ValidIs
<1>2. Durable' = [n \in Names |-> Paired(Pairs(O), n)] /\ Occupied' = <<ActiveSize(O), end>>
    BY RestoredDataNext
<1> QED
    BY <1>1, <1>2

(* The contents in the swap area stay when the copies and the descriptor   *)
(* do                                                                      *)
LEMMA SwapKept ==
    ASSUME NEW C \in SUBSET fl, C \subseteq fl', Extents(fl), Extents(fl'), desc \in Descriptors,
           Valid(desc), desc' = desc, SwapArea(fl, C, desc.start), SwapArea(fl', C, desc.start)
    PROVE  Durable' = Durable /\ Occupied' = Occupied
<1>1. desc.start \in Nat /\ desc.start \in Int
    BY PartSizeAssumption DEF Descriptors, Valid, NoStart, BadStart
<1>2. Durable = [n \in Names |-> Paired(Pairs(C), n)] /\ Occupied = <<ActiveSize(C), ActiveSize(C)>>
    BY <1>1, RestoredSwap, ValidIs
<1>3. Durable' = [n \in Names |-> Paired(Pairs(C), n)] /\ Occupied' = <<ActiveSize(C), ActiveSize(C)>>
    BY <1>1, RestoredSwapNext
<1> QED
    BY <1>2, <1>3

(* A block behind the data is erased *)
LEMMA EraseRest ==
    ASSUME NEW f, Extents(f), NEW O \in SUBSET f, NEW end \in Nat, DataArea(f, O, end),
           NEW b \in Nat, b + BlockSize <= PartSize, end <= b,
           \A r \in f \ O : \/ Unfinished(r, O, end) /\ r.hi <= b
                            \/ Residue(r, O) /\ r.lo >= b
    PROVE  LET g == EraseBlock(f, b)
           IN  /\ Extents(g) /\ O \subseteq g /\ DataArea(g, O, end)
               /\ \A r \in g \ O : \/ r \in f /\ Unfinished(r, O, end) /\ r.hi <= b
                                   \/ Residue(r, O) /\ r.lo >= b + BlockSize
               /\ (\A r \in f \ O : r.hi <= b) => g \subseteq f
<1> DEFINE g == EraseBlock(f, b)
<1>1. Extents(g)
    BY EraseExtents
<1>2. \A e \in O : e.hi <= end /\ e.hi \in Nat
    <2>1. \A e \in O : e.hi <= end
        BY DataAreaFacts
    <2> QED
        BY <2>1 DEF Extents, Extent
<1>3. O \subseteq g
    BY <1>2, EraseKeeps
<1>4. SwapStart(ActiveSize(O)) \in Int /\ BlockSize \in Nat /\ BlockSize > 0
    <2>1. SwapStart(ActiveSize(O)) \in Int
        BY DataAreaFacts
    <2> QED
        BY <2>1, BlockSizeAssumption
<1>5. ASSUME NEW r \in g \ O
      PROVE  /\ \/ r \in f /\ Unfinished(r, O, end) /\ r.hi <= b
                \/ Residue(r, O) /\ r.lo >= b + BlockSize
             /\ r \in f \/ \E e \in f \ O : e.hi > b
    <2>1. CASE r \in f /\ (r.hi <= b \/ b + BlockSize <= r.lo)
        <3>1. r \in f \ O /\ r.lo \in Nat /\ r.hi \in Nat /\ r.lo < r.hi
            BY <1>5, <2>1 DEF Extents, Extent
        <3>2. \/ Unfinished(r, O, end) /\ r.hi <= b
              \/ Residue(r, O) /\ r.lo >= b
            BY <3>1
        <3> QED
            BY <1>4, <2>1, <3>1, <3>2
    <2>2. CASE \E e \in f :
                /\ r \in Extent /\ r.k = "junk" /\ e.lo < b + BlockSize /\ b < e.hi
                /\ \/ e.lo < b /\ r.lo = e.lo /\ r.hi = b
                   \/ b + BlockSize < e.hi /\ r.lo = b + BlockSize /\ r.hi = e.hi
        <3>1. PICK e \in f :
                /\ r \in Extent /\ r.k = "junk" /\ e.lo < b + BlockSize /\ b < e.hi
                /\ \/ e.lo < b /\ r.lo = e.lo /\ r.hi = b
                   \/ b + BlockSize < e.hi /\ r.lo = b + BlockSize /\ r.hi = e.hi
            BY <2>2
        <3>2. e.lo \in Nat /\ e.hi \in Nat /\ e \notin O
            BY <1>2, <3>1 DEF Extents, Extent
        <3>3. Residue(e, O) /\ e.lo >= b
            BY <3>1, <3>2
        <3>4. r.lo = b + BlockSize /\ e.hi > b
            BY <3>1, <3>2, <3>3
        <3>5. Residue(r, O)
            BY <1>4, <3>1, <3>2, <3>3, <3>4 DEF Residue, Demarc
        <3> QED
            BY <1>4, <3>2, <3>4, <3>5
    <2> QED
        BY <2>1, <2>2, EraseShape
<1>6. DataArea(g, O, end)
    BY <1>3, <1>5 DEF DataArea
<1>7. (\A r \in f \ O : r.hi <= b) => g \subseteq f
    <2> SUFFICES ASSUME \A r \in f \ O : r.hi <= b, NEW r \in g PROVE r \in f
        OBVIOUS
    <2>1. CASE r \in O
        BY <2>1
    <2>2. CASE r \notin O
        <3>1. r \in f \/ \E e \in f \ O : e.hi > b
            BY <1>5, <2>2
        <3>2. \A e \in f \ O : e.hi \in Nat /\ e.hi <= b
            BY DEF Extents, Extent
        <3> QED
            BY <3>1, <3>2
    <2> QED
        BY <2>1, <2>2
<1> QED
    BY <1>1, <1>3, <1>5, <1>6, <1>7

(* What one erase changes *)
LEMMA EraseAtIs ==
    ASSUME NEW last, NEW next, NEW wNext, EraseAt(last, next, wNext)
    PROVE  /\ fl' = EraseBlock(fl, w.cur)
           /\ UNCHANGED <<total, free, high, st, op, ret>>
           /\ desc' = IF w.cur + BlockSize = PartSize THEN BlankDesc ELSE desc
           /\ IF w.cur + BlockSize < last
              THEN pc' = pc /\ w' = [w EXCEPT !.cur = w.cur + BlockSize]
              ELSE pc' = next /\ w' = wNext
BY DEF EraseAt

(* CHECKPOINT_0: a block of the swap area is erased *)
LEMMA EraseSwapKeeps ==
    ASSUME Core, EraseSwap
    PROVE  Core' /\ Durable' = Durable /\ Occupied' = Occupied
<1> DEFINE O == Before(free)
           b == w.cur
<1>1. /\ pc = "c0erase" /\ fl' = EraseBlock(fl, b)
      /\ UNCHANGED <<total, free, high, st, op, ret>>
      /\ desc' = IF b + BlockSize = PartSize THEN BlankDesc ELSE desc
      /\ IF b + BlockSize < PartSize
         THEN pc' = "c0erase" /\ w' = [w EXCEPT !.cur = b + BlockSize]
         ELSE pc' = "c0desc" /\ w' = w
    BY EraseAtIs DEF EraseSwap
<1>2. /\ DataArea(fl, O, free) /\ total = ActiveSize(O)
      /\ total < PlannedSwap(total) /\ Room(total, total)
      /\ ~Valid(desc) /\ Aligned(b) /\ SwapStart(total) <= b /\ b < PartSize
      /\ \A r \in fl \ O : Unfinished(r, O, free) \/ r.lo >= b
      /\ desc = BlankDesc => \A r \in fl \ O : Unfinished(r, O, free)
    BY <1>1 DEF Core, SavingInv, Saving
<1>3. /\ Extents(fl) /\ w \in Works /\ free \in Nat /\ b \in Nat /\ O \subseteq fl /\ TypeInv /\ CallInv
      /\ PartSize \in Nat /\ BlockSize \in Nat /\ BlockSize > 0
    BY PartSizeAssumption, BlockSizeAssumption DEF Core, TypeInv, Works, Before
<1> HIDE DEF O, b
<1>4. /\ free <= PlannedSwap(total) /\ PlannedSwap(total) <= SwapStart(total)
      /\ PlannedSwap(total) \in Int /\ SwapStart(total) \in Int /\ \A e \in O : e.lo < free
    BY <1>2, <1>3, DataAreaFacts
<1>5. b + BlockSize <= PartSize /\ Aligned(b + BlockSize)
    BY <1>2, <1>3, NextBlock, LayoutAligned
<1>6. \A r \in fl \ O : /\ \/ Unfinished(r, O, free) /\ r.hi <= b
                           \/ Residue(r, O) /\ r.lo >= b
                        /\ Unfinished(r, O, free) => r.hi <= b
    <2> SUFFICES ASSUME NEW r \in fl \ O
                 PROVE  /\ \/ Unfinished(r, O, free) /\ r.hi <= b
                           \/ Residue(r, O) /\ r.lo >= b
                        /\ Unfinished(r, O, free) => r.hi <= b
        OBVIOUS
    <2>1. r.hi \in Nat /\ r.lo \in Nat
        BY <1>3 DEF Extents, Extent
    <2>2. Unfinished(r, O, free) => r.hi <= b
        BY <1>2, <1>3, <1>4, <2>1 DEF Unfinished
    <2>3. Unfinished(r, O, free) \/ Residue(r, O)
        BY <1>2 DEF DataArea
    <2> QED
        BY <1>2, <2>2, <2>3
<1>7. free <= b
    BY <1>2, <1>3, <1>4
<1>8. /\ Extents(fl') /\ O \subseteq fl' /\ DataArea(fl', O, free)
      /\ \A r \in fl' \ O : \/ Unfinished(r, O, free)
                            \/ r.lo >= b + BlockSize
      /\ (\A r \in fl \ O : r.hi <= b) => fl' \subseteq fl
    BY <1>1, <1>2, <1>3, <1>5, <1>6, <1>7, EraseRest
<1>9. ~Valid(desc') /\ desc' \in Descriptors
    BY <1>1, <1>2, <1>3, BlankInvalid DEF TypeInv
<1>10. Durable' = Durable /\ Occupied' = Occupied
    BY <1>2, <1>3, <1>8, <1>9, DataKept
<1>11. Before(free)' = O
    <2>1. Before(free)' = {e \in fl' : e.lo < free}
        BY <1>1 DEF Before
    <2>2. \A r \in fl' \ O : r.lo >= free
        BY <1>3, <1>8, RestFacts
    <2>3. \A r \in fl' : r.lo \in Nat
        BY <1>8 DEF Extents, Extent
    <2> QED
        BY <1>3, <1>4, <1>8, <2>1, <2>2, <2>3
<1>12. desc = BlankDesc => \A r \in fl' \ O : Unfinished(r, O, free)
    BY <1>2, <1>6, <1>8
<1>13. Room(total, total)'
    BY <1>1, <1>2 DEF Room
<1>14. CASE b + BlockSize < PartSize
    <2>1. pc' = "c0erase" /\ desc' = desc
        BY <1>1, <1>3, <1>14
    <2>2. w' \in Works /\ w'.cur = b + BlockSize
        <3>1. b + BlockSize \in 0..PartSize
            BY <1>3, <1>5
        <3> QED
            BY <1>1, <1>3, <1>14, <3>1, WorkAt
    <2>3. SavingInv'
        <3>1. SwapStart(total) <= b + BlockSize
            BY <1>2, <1>3, <1>4
        <3> QED
            BY <1>1, <1>2, <1>5, <1>8, <1>9, <1>11, <1>12, <1>13, <1>14, <2>1, <2>2, <3>1
            DEF SavingInv, Copying1
    <2>4. TypeInv'
        BY <1>1, <1>3, <1>8, <1>9, <2>1, <2>2 DEF TypeInv
    <2>5. CallInv'
        BY <1>1, <1>3, <2>1 DEF CallInv, Saving, Moving, Copying1, Copying2
    <2>6. st' # "down"
        BY <1>1, <1>3 DEF CallInv
    <2> QED
        BY <1>10, <2>1, <2>3, <2>4, <2>5, <2>6, Elsewhere DEF Core, Saving, Copying1, Copying2, Moving
<1>15. CASE ~(b + BlockSize < PartSize)
    <2>1. b + BlockSize = PartSize
        BY <1>3, <1>5, <1>15
    <2>2. pc' = "c0desc" /\ desc' = BlankDesc /\ w' = w
        BY <1>1, <1>15, <2>1
    <2>3. \A r \in fl' \ O : Unfinished(r, O, free)
        <3>1. \A r \in fl' : r.lo \in Nat /\ r.lo < PartSize
            BY <1>3, <1>8 DEF Extents, Extent
        <3> QED
            BY <1>3, <1>8, <2>1, <3>1
    <2>4. SavingInv'
        BY <1>1, <1>2, <1>8, <1>9, <1>11, <1>13, <2>2, <2>3 DEF SavingInv, Copying1
    <2>5. TypeInv'
        BY <1>1, <1>3, <1>8, <1>9, <2>2 DEF TypeInv, Places
    <2>6. CallInv'
        BY <1>1, <1>3, <2>2 DEF CallInv, Saving, Moving, Copying1, Copying2
    <2>7. st' # "down"
        BY <1>1, <1>3 DEF CallInv
    <2> QED
        BY <1>10, <2>2, <2>4, <2>5, <2>6, <2>7, Elsewhere DEF Core, Saving, Copying1, Copying2, Moving
<1> QED
    BY <1>14, <1>15

(* CHECKPOINT_3: a block of the swap area is erased *)
LEMMA CleanSwapKeeps ==
    ASSUME Core, CleanSwap
    PROVE  Core' /\ Durable' = Durable /\ Occupied' = Occupied
<1> DEFINE b == w.cur
           O == Before(b)
<1>1. /\ pc = "c3erase" /\ fl' = EraseBlock(fl, b)
      /\ UNCHANGED <<total, free, high, st, op, ret>>
      /\ desc' = IF b + BlockSize = PartSize THEN BlankDesc ELSE desc
      /\ IF b + BlockSize < PartSize
         THEN pc' = "c3erase" /\ w' = [w EXCEPT !.cur = b + BlockSize]
         ELSE pc' = "scan" /\ w' = NoWork
    BY EraseAtIs DEF CleanSwap
<1>2. /\ ~Valid(desc) /\ desc # BlankDesc /\ Aligned(b) /\ b < PartSize
      /\ Room(ActiveSize(O), ActiveSize(O))
      /\ \A r \in fl \ O : Residue(r, O)
      /\ \E end \in 0..PartSize :
           /\ DataArea(fl, O, end) /\ end <= b
           /\ op.kind = "set" => end = ActiveSize(O)
    BY <1>1 DEF Core, CleaningInv
<1>3. /\ Extents(fl) /\ w \in Works /\ b \in Nat /\ O \subseteq fl /\ TypeInv /\ CallInv
      /\ PartSize \in Nat /\ BlockSize \in Nat /\ BlockSize > 0
      /\ \A e \in fl : e \in O <=> e.lo < b
    BY PartSizeAssumption, BlockSizeAssumption DEF Core, TypeInv, Works, Before
<1> HIDE DEF O, b
<1>4. PICK end \in 0..PartSize :
           /\ DataArea(fl, O, end) /\ end <= b
           /\ op.kind = "set" => end = ActiveSize(O)
    BY <1>2
<1>5. b + BlockSize <= PartSize /\ Aligned(b + BlockSize)
    BY <1>2, <1>3, NextBlock, LayoutAligned
<1>6. end \in Nat /\ \A r \in fl \ O : Residue(r, O) /\ r.lo >= b
    BY <1>2, <1>3, <1>4 DEF Extents, Extent
<1>7. /\ Extents(fl') /\ O \subseteq fl' /\ DataArea(fl', O, end)
      /\ \A r \in fl' \ O : \/ r \in fl /\ Unfinished(r, O, end) /\ r.hi <= b
                            \/ Residue(r, O) /\ r.lo >= b + BlockSize
    BY <1>1, <1>3, <1>4, <1>5, <1>6, EraseRest
<1>8. \A r \in fl' \ O : Residue(r, O) /\ r.lo >= b + BlockSize
    <2>1. \A r \in fl' : r.lo \in Nat /\ r.hi \in Nat /\ r.lo < r.hi
        BY <1>7 DEF Extents, Extent
    <2> QED
        BY <1>3, <1>7, <2>1
<1>9. ~Valid(desc') /\ desc' \in Descriptors
    BY <1>1, <1>2, <1>3, BlankInvalid DEF TypeInv
<1>10. Durable' = Durable /\ Occupied' = Occupied
    BY <1>2, <1>3, <1>4, <1>6, <1>7, <1>9, DataKept
<1>11. \A e \in O : e.lo < b + BlockSize
    BY <1>3 DEF Extents, Extent
<1>12. op'.kind = "set" => ActiveSize(O) + ObjSize(op'.max) <= PlannedSwap(ActiveSize(O) + ObjSize(op'.max))
    BY <1>1, <1>2 DEF Room
<1>13. st' # "down"
    BY <1>1, <1>3 DEF CallInv
<1>14. CASE b + BlockSize < PartSize
    <2>1. pc' = "c3erase" /\ desc' = desc
        BY <1>1, <1>3, <1>14
    <2>2. w' \in Works /\ w'.cur = b + BlockSize
        <3>1. b + BlockSize \in 0..PartSize
            BY <1>3, <1>5
        <3> QED
            BY <1>1, <1>3, <1>14, <3>1, WorkAt
    <2>3. Before(w.cur)' = O
        <3>1. Before(w.cur)' = {e \in fl' : e.lo < b + BlockSize}
            BY <2>2 DEF Before
        <3>2. \A r \in fl' : r.lo \in Nat
            BY <1>7 DEF Extents, Extent
        <3> QED
            BY <1>3, <1>7, <1>8, <1>11, <3>1, <3>2
    <2>4. end <= b + BlockSize
        BY <1>3, <1>4, <1>6
    <2>6. CleaningInv'
        BY <1>1, <1>2, <1>4, <1>5, <1>7, <1>8, <1>9, <1>12, <1>14, <2>1, <2>2, <2>3, <2>4
        DEF CleaningInv, Room
    <2>7. TypeInv'
        BY <1>1, <1>3, <1>7, <1>9, <2>1, <2>2 DEF TypeInv
    <2>8. CallInv'
        BY <1>1, <1>3, <2>1 DEF CallInv, Saving, Moving, Copying1, Copying2
    <2> QED
        BY <1>10, <1>13, <2>1, <2>6, <2>7, <2>8, Elsewhere DEF Core, Saving, Copying1, Copying2, Moving
<1>15. CASE ~(b + BlockSize < PartSize)
    <2>1. b + BlockSize = PartSize
        BY <1>3, <1>5, <1>15
    <2>2. pc' = "scan" /\ desc' = BlankDesc /\ w' = NoWork
        BY <1>1, <1>15, <2>1
    <2>3. fl' = O
        <3>1. \A r \in fl' : r.lo \in Nat /\ r.hi \in Nat /\ r.lo < r.hi /\ r.hi <= PartSize
            BY <1>7 DEF Extents, Extent
        <3> QED
            <4>1. ASSUME NEW r \in fl' \ O PROVE FALSE
                <5>1. r.lo >= b + BlockSize
                    BY <1>8
                <5> QED
                    BY <1>3, <2>1, <3>1, <5>1
            <4> QED
                BY <1>7, <4>1
    <2>4. op.kind # "fmt"
        BY <1>1, <1>3 DEF CallInv
    <2>5. ScanInv'
        <3>1. DataArea(fl', fl', end) /\ (op'.kind = "set" => end = ActiveSize(fl'))
            BY <1>1, <1>4, <1>7, <2>3
        <3>2. Room(ActiveSize(fl), ActiveSize(fl))'
            BY <1>12, <2>3 DEF Room
        <3> QED
            BY <1>1, <2>2, <2>4, <3>1, <3>2 DEF ScanInv
    <2>6. TypeInv'
        <3>1. NoWork \in Works
            BY PartSizeAssumption DEF NoWork, Works
        <3> QED
            BY <1>1, <1>3, <1>7, <1>9, <2>2, <3>1 DEF TypeInv, Places
    <2>7. CallInv'
        BY <1>1, <1>3, <2>2 DEF CallInv, Saving, Moving, Copying1, Copying2
    <2> QED
        BY <1>10, <1>13, <2>2, <2>5, <2>6, <2>7, Elsewhere DEF Core, Saving, Copying1, Copying2, Moving
<1> QED
    BY <1>14, <1>15

(* The swap area lies inside the partition, behind the data to come *)
LEMMA SwapAreaFacts ==
    ASSUME NEW f, Extents(f), NEW C \in SUBSET f, NEW s \in Nat, SwapArea(f, C, s)
    PROVE  /\ Extents(C) /\ ActiveSize(C) \in Nat
           /\ SwapData(s) = s + 4 /\ Aligned(s) /\ 0 < s /\ s < PartSize
           /\ ActiveSize(C) < PlannedSwap(ActiveSize(C)) /\ PlannedSwap(ActiveSize(C)) <= s
           /\ PlannedSwap(ActiveSize(C)) \in Int
           /\ SwapData(s) + ActiveSize(C) + 1 < SwapLimit /\ SwapLimit \in Int /\ SwapLimit < PartSize
           /\ \A e \in C : e.lo >= s + 4 /\ e.hi <= s + 4 + ActiveSize(C)
           /\ \A r \in f \ C : r.hi <= s /\ r.lo < s
           /\ \A r \in f : r \in C <=> r.lo >= s
<1>1. Extents(C) /\ ActiveSize(C) \in Nat
    BY ExtentsSubset, SizeType
<1> DEFINE t == ActiveSize(C)
<1>2. /\ s = SwapStart(t) /\ t < PlannedSwap(t) /\ SwapData(s) + t + 1 < SwapLimit
      /\ Tiles(C, SwapData(s), SwapData(s) + t) /\ \A r \in f \ C : r.hi <= s
    BY DEF SwapArea, Area
<1> HIDE DEF t
<1>3. SwapData(s) = s + 4 /\ SwapLimit \in Int /\ SwapLimit < PartSize
    BY PartSizeAssumption DEF SwapData, Demarc, SwapLimit, DescSize
<1>4. PlannedSwap(t) \in Int /\ PlannedSwap(t) <= s /\ s < PartSize /\ Aligned(s)
    <2>1. /\ SwapStart(t) \in Int /\ PlannedSwap(t) \in Int /\ PlannedSwap(t) <= SwapStart(t)
          /\ SwapStart(t) <= PartSize - DescSize - t
        BY <1>1, SwapBounds DEF t
    <2> QED
        BY <1>1, <1>2, <2>1, LayoutAligned, PartSizeAssumption DEF DescSize, t
<1>5. 0 < s
    BY <1>1, <1>2, <1>4 DEF t
<1>6. \A e \in C : e.lo >= s + 4 /\ e.hi <= s + 4 + t
    BY <1>2, <1>3 DEF Tiles
<1>7. \A r \in f : r.lo \in Nat /\ r.hi \in Nat /\ r.lo < r.hi
    BY DEF Extents, Extent
<1>8. \A r \in f \ C : r.hi <= s /\ r.lo < s
    BY <1>2, <1>7
<1>9. \A r \in f : r \in C <=> r.lo >= s
    BY <1>6, <1>7, <1>8
<1> QED
    BY <1>1, <1>2, <1>3, <1>4, <1>5, <1>6, <1>8, <1>9 DEF t

(* A block before the swap area is erased *)
LEMMA EraseFront ==
    ASSUME NEW f, Extents(f), NEW C \in SUBSET f, NEW s \in Nat, SwapArea(f, C, s),
           NEW b \in Nat, b + BlockSize <= s, \A r \in f \ C : r.lo >= b
    PROVE  LET g == EraseBlock(f, b)
           IN  /\ Extents(g) /\ C \subseteq g /\ SwapArea(g, C, s)
               /\ \A r \in g \ C : r.lo >= b + BlockSize
<1> DEFINE g == EraseBlock(f, b)
<1>1. /\ s < PartSize /\ \A e \in C : e.lo >= s + 4
      /\ \A r \in f \ C : r.hi <= s
    BY SwapAreaFacts
<1>2. BlockSize \in Nat /\ BlockSize > 0 /\ PartSize \in Nat
    BY BlockSizeAssumption, PartSizeAssumption
<1>3. Extents(g)
    BY <1>1, <1>2, EraseExtents
<1>4. C \subseteq g
    <2>1. \A e \in C : e.lo \in Nat /\ b + BlockSize <= e.lo
        BY <1>1, <1>2 DEF Extents, Extent
    <2> QED
        BY <2>1, EraseKeeps
<1>5. ASSUME NEW r \in g \ C PROVE r.lo >= b + BlockSize /\ r.hi <= s
    <2>1. CASE r \in f /\ (r.hi <= b \/ b + BlockSize <= r.lo)
        <3>1. r.lo \in Nat /\ r.hi \in Nat /\ r.lo < r.hi /\ r \in f \ C
            BY <1>5, <2>1 DEF Extents, Extent
        <3> QED
            BY <1>1, <1>2, <2>1, <3>1
    <2>2. CASE \E e \in f :
                /\ r \in Extent /\ r.k = "junk" /\ e.lo < b + BlockSize /\ b < e.hi
                /\ \/ e.lo < b /\ r.lo = e.lo /\ r.hi = b
                   \/ b + BlockSize < e.hi /\ r.lo = b + BlockSize /\ r.hi = e.hi
        <3>1. PICK e \in f :
                /\ r \in Extent /\ r.k = "junk" /\ e.lo < b + BlockSize /\ b < e.hi
                /\ \/ e.lo < b /\ r.lo = e.lo /\ r.hi = b
                   \/ b + BlockSize < e.hi /\ r.lo = b + BlockSize /\ r.hi = e.hi
            BY <2>2
        <3>2. e.lo \in Nat /\ e.hi \in Nat
            BY DEF Extents, Extent
        <3>3. e \notin C
            BY <1>1, <1>2, <3>1, <3>2
        <3>4. e.lo >= b /\ e.hi <= s
            BY <1>1, <3>3
        <3> QED
            BY <1>2, <3>1, <3>2, <3>4
    <2> QED
        BY <2>1, <2>2, EraseShape
<1>6. SwapArea(g, C, s)
    BY <1>4, <1>5 DEF SwapArea
<1> QED
    BY <1>3, <1>4, <1>5, <1>6

(* CHECKPOINT_2 *)
LEMMA MovingMeans ==
    ASSUME Core, pc \in Moving
    PROVE  LET C == From(w.swap)
           IN  /\ Extents(fl) /\ C \subseteq fl /\ Valid(desc) /\ desc \in Descriptors
               /\ desc.start = w.swap /\ w.swap \in Nat /\ w \in Works
               /\ SwapArea(fl, C, w.swap) /\ Room(ActiveSize(C), ActiveSize(C))
               /\ fl \ C = Before(w.swap) /\ TypeInv /\ CallInv /\ st # "down"
               /\ desc.start \in Int
<1>1. TypeInv /\ CallInv
    BY DEF Core
<1>2. /\ Extents(fl) /\ desc \in Descriptors /\ w \in Works /\ w.swap \in Nat
    BY <1>1, PartSizeAssumption DEF TypeInv, Works
<1>3. /\ Valid(desc) /\ desc.start = w.swap /\ SwapArea(fl, From(w.swap), w.swap)
      /\ Room(ActiveSize(From(w.swap)), ActiveSize(From(w.swap)))
    BY DEF Core, MovingInv
<1>4. \A e \in fl : e.lo \in Nat
    BY <1>2 DEF Extents, Extent
<1>5. fl \ From(w.swap) = Before(w.swap)
    BY <1>2, <1>4 DEF From, Before
<1>6. st # "down"
    BY <1>1 DEF CallInv, Moving, Copying2
<1> QED
    BY <1>1, <1>2, <1>3, <1>5, <1>6 DEF From

(* Nothing copied yet *)
LEMMA CopyNothing ==
    ASSUME NEW D, D = {}, NEW b \in Nat
    PROVE  CopyOf({}, b, D, b, 0)
<1>1. Area({}, b, b)
    BY AreaEmpty
<1>2. ActiveSize({}) = 0 /\ b = b + 0 /\ IdRoom(0, b - b)
    BY SizeEmpty, IdRoomNone
<1> QED
    BY <1>1, <1>2 DEF CopyOf

(* CHECKPOINT_2: a block before the swap area is erased *)
LEMMA EraseDataKeeps ==
    ASSUME Core, EraseData
    PROVE  Core' /\ Durable' = Durable /\ Occupied' = Occupied
<1> DEFINE s == w.swap
           C == From(s)
           b == w.cur
<1>1. /\ pc = "c2erase" /\ fl' = EraseBlock(fl, b)
      /\ UNCHANGED <<total, free, high, st, op, ret>>
      /\ desc' = IF b + BlockSize = PartSize THEN BlankDesc ELSE desc
      /\ IF b + BlockSize < s
         THEN pc' = "c2erase" /\ w' = [w EXCEPT !.cur = b + BlockSize]
         ELSE pc' = "c2copy" /\ w' = [NoWork EXCEPT !.swap = s, !.src = SwapData(s)]
    BY EraseAtIs DEF EraseData
<1>2. /\ Extents(fl) /\ C \subseteq fl /\ Valid(desc) /\ desc \in Descriptors
      /\ desc.start = s /\ s \in Nat /\ w \in Works /\ SwapArea(fl, C, s)
      /\ Room(ActiveSize(C), ActiveSize(C)) /\ fl \ C = Before(s) /\ TypeInv /\ CallInv
      /\ st # "down"
    BY <1>1, MovingMeans DEF Moving
<1>3. /\ Aligned(b) /\ b < s /\ \A r \in Before(s) : r.lo >= b
    BY <1>1 DEF Core, MovingInv, Moving
<1>4. /\ b \in Nat /\ PartSize \in Nat /\ BlockSize \in Nat /\ BlockSize > 0
    BY <1>2, PartSizeAssumption, BlockSizeAssumption DEF Works
<1> HIDE DEF s, C, b
<1>5. /\ Aligned(s) /\ s < PartSize /\ SwapData(s) = s + 4 /\ SwapData(s) + ActiveSize(C) + 1 < SwapLimit
      /\ SwapLimit \in Int /\ SwapLimit < PartSize /\ ActiveSize(C) \in Nat
    BY <1>2, SwapAreaFacts
<1>6. b + BlockSize <= s /\ Aligned(b + BlockSize)
    BY <1>2, <1>3, <1>4, <1>5, NextBlock
<1>7. /\ Extents(fl') /\ C \subseteq fl' /\ SwapArea(fl', C, s)
      /\ \A r \in fl' \ C : r.lo >= b + BlockSize
    BY <1>1, <1>2, <1>3, <1>4, <1>6, EraseFront
<1>8. /\ \A r \in fl' : r \in C <=> r.lo >= s
      /\ \A e \in C : e.lo >= s + 4
      /\ \A r \in fl' \ C : r.lo < s
    BY <1>2, <1>7, SwapAreaFacts
<1>9. desc' = desc
    <2>1. b + BlockSize # PartSize
        BY <1>2, <1>4, <1>5, <1>6
    <2> QED
        BY <1>1, <2>1
<1>10. Durable' = Durable /\ Occupied' = Occupied
    BY <1>2, <1>7, <1>9, SwapKept
<1>11. op'.kind = "set" => ActiveSize(C) + ObjSize(op'.max) <= PlannedSwap(ActiveSize(C) + ObjSize(op'.max))
    BY <1>1, <1>2 DEF Room
<1>12. st' # "down"
    BY <1>1, <1>2
<1>13. CASE b + BlockSize < s
    <2>1. /\ pc' = "c2erase" /\ w' \in Works /\ w'.cur = b + BlockSize /\ w'.swap = s
        <3>1. b + BlockSize \in 0..PartSize
            BY <1>2, <1>4, <1>5, <1>6
        <3> QED
            BY <1>1, <1>2, <1>13, <3>1, WorkNext DEF s
    <2>2. From(w.swap)' = C
        <3>1. From(w.swap)' = {e \in fl' : e.lo >= s}
            BY <2>1 DEF From
        <3> QED
            BY <1>7, <1>8, <3>1
    <2>3. \A r \in Before(w.swap)' : r.lo >= w'.cur
        <3>1. Before(w.swap)' = {e \in fl' : e.lo < s}
            BY <2>1 DEF Before
        <3>2. \A r \in fl' : r.lo \in Nat
            BY <1>7 DEF Extents, Extent
        <3> QED
            BY <1>2, <1>7, <1>8, <2>1, <3>1, <3>2
    <2>4. MovingInv'
        BY <1>2, <1>6, <1>7, <1>9, <1>11, <1>13, <2>1, <2>2, <2>3 DEF MovingInv, Room
    <2>5. TypeInv'
        BY <1>1, <1>2, <1>7, <1>9, <2>1 DEF TypeInv
    <2>6. CallInv'
        BY <1>1, <1>2, <2>1 DEF CallInv, Saving, Moving, Copying1, Copying2
    <2> QED
        BY <1>10, <1>12, <2>1, <2>4, <2>5, <2>6, Elsewhere DEF Core, Saving, Copying1, Copying2, Moving
<1>14. CASE ~(b + BlockSize < s)
    <2>1. /\ pc' = "c2copy" /\ w' \in Works /\ w'.swap = s /\ w'.src = SwapData(s) /\ w'.dst = 0
          /\ w'.cid = 0
        <3>1. s \in 0..PartSize /\ SwapData(s) \in 0..PartSize
            BY <1>2, <1>5, <1>4
        <3> QED
            BY <1>1, <1>2, <1>14, <3>1, WorkNext
    <2>2. From(w.swap)' = C
        <3>1. From(w.swap)' = {e \in fl' : e.lo >= s}
            BY <2>1 DEF From
        <3> QED
            BY <1>7, <1>8, <3>1
    <2>3. Before(w.swap)' = {}
        <3>1. Before(w.swap)' = {e \in fl' : e.lo < s}
            BY <2>1 DEF Before
        <3>2. \A r \in fl' : r.lo \in Nat
            BY <1>7 DEF Extents, Extent
        <3> QED
            BY <1>2, <1>4, <1>6, <1>7, <1>8, <1>14, <3>1, <3>2
    <2>4. MovingInv'
        BY <1>2, <1>7, <1>9, <1>11, <2>1, <2>2 DEF MovingInv, Room
    <2>5. CopyInv2'
        <3>1. \A e \in C : e.lo \in Int /\ e.lo >= SwapData(s)
            BY <1>5, <1>7, <1>8 DEF Extents, Extent
        <3>2. CopyOf({}, 0, {e \in C : e.lo < SwapData(s)}, 0, 0)
            <4>1. {e \in C : e.lo < SwapData(s)} = {}
                BY <1>2, <1>5, <3>1
            <4> QED
                BY <4>1, CopyNothing
        <3>3. Progress(w, pc = "c2crc", From(w.swap), SwapData(w.swap), Before(w.swap), 0)'
            BY <2>1, <2>2, <2>3, <3>2 DEF Progress
        <3> QED
            BY <2>1, <3>3 DEF CopyInv2
    <2>6. TypeInv'
        BY <1>1, <1>2, <1>7, <1>9, <2>1 DEF TypeInv, Places
    <2>7. CallInv'
        BY <1>1, <1>2, <2>1 DEF CallInv, Saving, Moving, Copying1, Copying2
    <2> QED
        BY <1>10, <1>12, <2>1, <2>4, <2>5, <2>6, <2>7, Elsewhere DEF Core, Saving, Copying1, Copying2, Moving
<1> QED
    BY <1>13, <1>14

(* psm_format erases a block: the first erase empties the store *)
LEMMA FormatEraseKeeps ==
    ASSUME Core, FormatErase
    PROVE  Core' /\ Durable' = [n \in Names |-> NoValue] /\ Occupied' = <<0, 0>>
<1> DEFINE b == w.cur
<1>1. /\ pc = "fmt" /\ fl' = EraseBlock(fl, b)
      /\ UNCHANGED <<total, free, high, st, op, ret>>
      /\ desc' = IF b + BlockSize = PartSize THEN BlankDesc ELSE desc
      /\ IF b + BlockSize < PartSize
         THEN pc' = "fmt" /\ w' = [w EXCEPT !.cur = b + BlockSize]
         ELSE pc' = "scan" /\ w' = NoWork
    BY EraseAtIs DEF FormatErase
<1>2. /\ Aligned(b) /\ b < PartSize /\ desc = BlankDesc /\ \A e \in fl : e.lo >= b
    BY <1>1 DEF Core, FormatInv
<1>3. /\ Extents(fl) /\ w \in Works /\ b \in Nat /\ TypeInv /\ CallInv
      /\ PartSize \in Nat /\ BlockSize \in Nat /\ BlockSize > 0
    BY PartSizeAssumption, BlockSizeAssumption DEF Core, TypeInv, Works
<1> HIDE DEF b
<1>4. b + BlockSize <= PartSize /\ Aligned(b + BlockSize)
    BY <1>2, <1>3, NextBlock, LayoutAligned
<1>5. Extents(fl')
    BY <1>1, <1>3, <1>4, EraseExtents
<1>6. ASSUME NEW r \in fl' PROVE r.lo >= b + BlockSize
    <2>1. CASE r \in fl /\ (r.hi <= b \/ b + BlockSize <= r.lo)
        <3>1. r.lo \in Nat /\ r.hi \in Nat /\ r.lo < r.hi
            BY <2>1, <1>3 DEF Extents, Extent
        <3> QED
            BY <1>2, <1>3, <2>1, <3>1
    <2>2. CASE \E e \in fl :
                /\ r \in Extent /\ r.k = "junk" /\ e.lo < b + BlockSize /\ b < e.hi
                /\ \/ e.lo < b /\ r.lo = e.lo /\ r.hi = b
                   \/ b + BlockSize < e.hi /\ r.lo = b + BlockSize /\ r.hi = e.hi
        <3>1. \A e \in fl : e.lo \in Nat
            BY <1>3 DEF Extents, Extent
        <3> QED
            BY <1>2, <1>3, <2>2, <3>1
    <2> QED
        BY <1>1, <1>3, <2>1, <2>2, EraseShape
<1>7. desc' = BlankDesc
    BY <1>1, <1>2
<1>8. \A r \in fl' : r.lo \in Nat /\ r.lo > 0 /\ r.lo < PartSize
    <2>1. \A r \in fl' : r.lo \in Nat /\ r.lo < PartSize
        BY <1>3, <1>5 DEF Extents, Extent
    <2> QED
        BY <1>3, <1>6, <2>1
<1>9. Durable' = [n \in Names |-> NoValue] /\ Occupied' = <<0, 0>>
    <2>1. Chain(fl', 0, ObjectOffsetLimit) = {}
        <3>1. Tiles({}, 0, 0)
            BY AreaEmpty DEF Area
        <3>2. ObjectOffsetLimit \in Int
            BY <1>3 DEF ObjectOffsetLimit, ObjHdr
        <3>3. {} \in SUBSET fl' /\ 0 \in Nat
            OBVIOUS
        <3>4. \A e \in fl' \ {} : (e.lo >= 0 \/ e.hi <= 0) /\ (e.lo = 0 => e.k # "obj")
            BY <1>8
        <3> QED
            BY <1>5, <3>1, <3>2, <3>3, <3>4, ChainIs
    <2>2. Restored' = {} /\ Accepted(fl)' = {} /\ ~DescValid'
        BY <2>1, <1>7 DEF Restored, DescValid, BlankDesc, Accepted, DataChain
    <2>3. \A n : ValueIn({e \in {x \in {} : x.live} : e.nm = n}) = NoValue
        BY DEF ValueIn
    <2>4. ChainEnd({}) = 0
        <3>1. Extents({}) /\ Tiles({}, 0, 0)
            BY AreaEmpty DEF Area, Extents
        <3> QED
            BY <3>1, TilesEnd
    <2> QED
        BY <2>2, <2>3, <2>4, SizeEmpty DEF Durable, Occupied
<1>10. st' # "down" /\ op'.kind = "fmt"
    BY <1>1, <1>3 DEF CallInv
<1>11. CASE b + BlockSize < PartSize
    <2>1. pc' = "fmt" /\ w' \in Works /\ w'.cur = b + BlockSize
        <3>1. b + BlockSize \in 0..PartSize
            BY <1>3, <1>4
        <3> QED
            BY <1>1, <1>3, <1>11, <3>1, WorkNext
    <2>2. FormatInv'
        BY <1>4, <1>6, <1>7, <1>11, <2>1 DEF FormatInv
    <2>3. TypeInv'
        BY <1>1, <1>3, <1>5, <1>7, <2>1, BlankInvalid DEF TypeInv
    <2>4. CallInv'
        BY <1>1, <1>3, <2>1 DEF CallInv, Saving, Moving, Copying1, Copying2
    <2> QED
        BY <1>9, <1>10, <2>1, <2>2, <2>3, <2>4, Elsewhere DEF Core, Saving, Copying1, Copying2, Moving
<1>12. CASE ~(b + BlockSize < PartSize)
    <2>1. pc' = "scan" /\ w' = NoWork /\ b + BlockSize = PartSize
        BY <1>1, <1>3, <1>4, <1>12
    <2>2. fl' = {}
        <3>1. ASSUME NEW r \in fl' PROVE FALSE
            BY <1>3, <1>6, <1>8, <2>1
        <3> QED
            BY <3>1
    <2>3. ScanInv'
        <3>1. DataArea({}, {}, 0)
            BY AreaEmpty, EmptyFits, SizeEmpty DEF DataArea
        <3>2. 0 \in 0..PartSize
            BY <1>3
        <3>3. Room(ActiveSize(fl), ActiveSize(fl))'
            BY <1>10 DEF Room
        <3> QED
            BY <1>7, <1>10, <2>1, <2>2, <3>1, <3>2, <3>3 DEF ScanInv
    <2>4. NoWork \in Works
        BY PartSizeAssumption DEF NoWork, Works
    <2>5. TypeInv'
        BY <1>1, <1>3, <1>5, <1>7, <2>1, <2>4, BlankInvalid DEF TypeInv, Places
    <2>6. CallInv'
        BY <1>1, <1>3, <2>1 DEF CallInv, Saving, Moving, Copying1, Copying2
    <2> QED
        BY <1>9, <1>10, <2>1, <2>3, <2>5, <2>6, Elsewhere DEF Core, Saving, Copying1, Copying2, Moving
<1> QED
    BY <1>11, <1>12

-----------------------------------------------------------------------------
(***************************************************************************)
(* Compaction                                                              *)
(***************************************************************************)
(* What is known while the data area is copied *)
LEMMA SavingMeans ==
    ASSUME Core, pc \in Saving
    PROVE  LET O == Before(free)
           IN  /\ Extents(fl) /\ O \subseteq fl /\ DataArea(fl, O, free) /\ total = ActiveSize(O)
               /\ total < PlannedSwap(total) /\ Room(total, total) /\ ~Valid(desc)
               /\ TypeInv /\ CallInv /\ st # "down" /\ free \in Nat /\ total \in Nat /\ w \in Works
               /\ PartSize \in Nat /\ BlockSize \in Nat /\ BlockSize > 0 /\ desc \in Descriptors
               /\ free <= SwapStart(total) /\ PlannedSwap(total) <= SwapStart(total) /\ total <= free
               /\ SwapStart(total) \in Int /\ PlannedSwap(total) \in Int /\ SwapStart(total) < PartSize
               /\ SwapStart(total) >= 0 /\ Aligned(SwapStart(total)) /\ SwapStart(total) > total
               /\ \A e \in O : e.lo < free /\ e.hi <= free
               /\ \A e \in fl : e \in O <=> e.lo < free
<1> DEFINE O == Before(free)
<1>1. TypeInv /\ CallInv
    BY DEF Core
<1>2. /\ Extents(fl) /\ desc \in Descriptors /\ w \in Works /\ free \in Nat /\ total \in Nat
      /\ PartSize \in Nat /\ BlockSize \in Nat /\ BlockSize > 0
    BY <1>1, PartSizeAssumption, BlockSizeAssumption DEF TypeInv
<1>3. /\ DataArea(fl, O, free) /\ total = ActiveSize(O)
      /\ total < PlannedSwap(total) /\ Room(total, total) /\ ~Valid(desc)
    BY DEF Core, SavingInv
<1>4. st # "down"
    BY <1>1 DEF CallInv, Saving, Copying1
<1>5. O \subseteq fl /\ \A e \in fl : e \in O <=> e.lo < free
    BY DEF Before
<1> HIDE DEF O
<1>6. /\ total <= free /\ free <= PlannedSwap(total) /\ free <= SwapStart(total)
      /\ PlannedSwap(total) <= SwapStart(total)
      /\ SwapStart(total) \in Int /\ PlannedSwap(total) \in Int
      /\ \A e \in O : e.lo < free /\ e.hi <= free
    BY <1>2, <1>3, <1>5, DataAreaFacts
<1>7. SwapStart(total) < PartSize /\ Aligned(SwapStart(total))
    <2>1. SwapStart(total) <= PartSize - DescSize - total
        BY <1>2, SwapBounds
    <2> QED
        BY <1>2, <1>6, <2>1, LayoutAligned DEF DescSize
<1>8. SwapStart(total) >= 0 /\ SwapStart(total) > total
    BY <1>2, <1>3, <1>6
<1> QED
    BY <1>1, <1>2, <1>3, <1>4, <1>5, <1>6, <1>7, <1>8 DEF O

(* CHECKPOINT_0: swap_start_offset is written *)
LEMMA WriteSwapStartKeeps ==
    ASSUME Core, OffTheEdge, WriteSwapStart
    PROVE  Core' /\ Durable' = Durable /\ Occupied' = Occupied
<1> DEFINE O == Before(free)
           s == SwapStart(total)
<1>1. /\ pc = "c0desc" /\ pc' = "c1copy" /\ desc' = [desc EXCEPT !.start = s]
      /\ w' = [NoWork EXCEPT !.swap = s, !.dst = SwapData(s)]
      /\ UNCHANGED <<fl, total, free, high, st, op, ret>>
    BY DEF WriteSwapStart
<1>2. /\ Extents(fl) /\ O \subseteq fl /\ DataArea(fl, O, free) /\ total = ActiveSize(O)
      /\ total < PlannedSwap(total) /\ Room(total, total) /\ ~Valid(desc)
      /\ TypeInv /\ CallInv /\ st # "down" /\ free \in Nat /\ total \in Nat /\ w \in Works
      /\ PartSize \in Nat /\ free <= s /\ PlannedSwap(total) <= s
      /\ s \in Int /\ PlannedSwap(total) \in Int /\ s < PartSize /\ s >= 0
      /\ \A e \in O : e.lo < free
    BY <1>1, SavingMeans DEF Saving
<1>3. desc = BlankDesc /\ \A r \in fl \ O : Unfinished(r, O, free)
    BY <1>1 DEF Core, SavingInv, Saving
<1> HIDE DEF O
<1>4. SwapData(s) + total + 1 < SwapLimit /\ SwapData(s) \in 0..PartSize /\ SwapData(s) = s + 4
    <2>1. SwapData(s) = s + 4 /\ SwapLimit = PartSize - 12
        BY DEF SwapData, Demarc, SwapLimit, DescSize
    <2>2. ~(SwapData(s) + total >= SwapLimit) /\ SwapData(s) + total # SwapLimit - 1
        BY <1>1 DEF OffTheEdge, CopiesOverflowSwap, CopiesTouchDescriptor
    <2> HIDE DEF s
    <2> QED
        BY <1>2, <2>1, <2>2
<1>5. w' \in Works /\ w'.swap = s /\ w'.dst = SwapData(s) /\ w'.src = 0 /\ w'.cid = 0
    <2>1. s \in 0..PartSize
        BY <1>2
    <2> HIDE DEF s
    <2> QED
        BY <1>1, <1>2, <1>4, <2>1, WorkNext
<1> HIDE DEF s
<1>6. /\ desc' \in Descriptors /\ ~Valid(desc') /\ desc' # BlankDesc
      /\ desc' = [BlankDesc EXCEPT !.start = s]
    BY <1>1, <1>2, <1>3 DEF BlankDesc, Descriptors, Valid, NoStart
<1>7. Durable' = Durable /\ Occupied' = Occupied
    BY <1>1, <1>2, <1>6, DataKept
<1>8. Before(free)' = O
    BY <1>1 DEF Before, O
<1>9. SavingInv'
    <2>1. Room(total, total)'
        BY <1>1, <1>2 DEF Room
    <2>2. s = SwapStart(total)
        BY DEF s
    <2> QED
        BY <1>1, <1>2, <1>4, <1>5, <1>6, <1>8, <2>1, <2>2 DEF SavingInv
<1>10. From(w.swap)' = {}
    <2>1. From(w.swap)' = {e \in fl : e.lo >= s}
        BY <1>1, <1>5 DEF From
    <2>2. ASSUME NEW e \in fl PROVE e.lo < s
        <3>1. e.lo \in Nat /\ e.hi \in Nat /\ e.lo < e.hi
            BY <1>2 DEF Extents, Extent
        <3>2. CASE e \in O
            BY <1>2, <3>1, <3>2
        <3>3. CASE e \notin O
            BY <1>2, <1>3, <3>1, <3>3 DEF Unfinished
        <3> QED
            BY <3>2, <3>3
    <2>3. \A e \in fl : e.lo \in Nat
        BY <1>2 DEF Extents, Extent
    <2> QED
        BY <1>2, <2>1, <2>2, <2>3
<1>11. CopyInv1'
    <2>1. {e \in O : e.lo < 0} = {}
        BY <1>2 DEF Extents, Extent
    <2>2. CopyOf({}, SwapData(s), {e \in O : e.lo < 0}, SwapData(s), 0)
        BY <1>2, <1>4, <2>1, CopyNothing
    <2>3. Progress(w, pc = "c1crc", Before(free), 0, From(w.swap), SwapData(w.swap))'
        BY <1>1, <1>5, <1>8, <1>10, <2>2 DEF Progress
    <2> QED
        BY <1>1, <2>3 DEF CopyInv1
<1>12. TypeInv'
    BY <1>1, <1>2, <1>5, <1>6 DEF TypeInv, Places
<1>13. CallInv'
    BY <1>1, <1>2 DEF CallInv, Saving, Moving, Copying1, Copying2
<1> QED
    BY <1>1, <1>2, <1>7, <1>9, <1>11, <1>12, <1>13, Elsewhere DEF Core, Saving, Copying1, Copying2, Moving

(* The copies in the swap area are complete *)
LEMMA CopiedOut ==
    ASSUME Core, pc = "c1mark"
    PROVE  LET S == From(w.swap)  O == Before(free)
           IN  /\ S \subseteq fl /\ SwapArea(fl, S, w.swap) /\ Pairs(S) = Pairs(O)
               /\ ActiveSize(S) = total /\ w.swap \in Nat /\ desc = [BlankDesc EXCEPT !.start = w.swap]
               /\ w.swap = SwapStart(total)
<1> DEFINE s == w.swap
           S == From(s)
           O == Before(free)
<1>1. /\ Extents(fl) /\ O \subseteq fl /\ DataArea(fl, O, free) /\ total = ActiveSize(O)
      /\ total < PlannedSwap(total) /\ free \in Nat /\ total \in Nat
      /\ SwapStart(total) \in Int /\ PlannedSwap(total) \in Int /\ SwapStart(total) >= 0
      /\ free <= SwapStart(total) /\ PlannedSwap(total) <= SwapStart(total)
      /\ \A e \in O : e.lo < free /\ e.hi <= free
    BY SavingMeans DEF Saving, Copying1
<1>2. /\ s = SwapStart(total) /\ desc = [BlankDesc EXCEPT !.start = s]
      /\ SwapData(s) + total + 1 < SwapLimit
    BY DEF Core, SavingInv, Saving, Copying1
<1>3. Progress(w, FALSE, O, 0, S, SwapData(s)) /\ w.src = free
    BY DEF Core, CopyInv1, Copying1
<1>4. CopyOf(S, SwapData(s), {e \in O : e.lo < free}, w.dst, w.cid)
    BY <1>3 DEF Progress
<1>5. {e \in O : e.lo < free} = O
    BY <1>1
<1>6. /\ Area(S, SwapData(s), w.dst) /\ w.dst = SwapData(s) + ActiveSize(S)
      /\ \A e \in S : e.live
      /\ Pairs(S) = Pairs(O) /\ ActiveSize(S) = total
    BY <1>1, <1>4, <1>5 DEF CopyOf
<1>7. S \subseteq fl /\ \A r \in fl \ S : ~(r.lo >= s)
    BY DEF From
<1> HIDE DEF s, S, O
<1>8. ASSUME NEW r \in fl \ S PROVE r.hi <= s
    <2>1. r.lo \in Nat /\ r.hi \in Nat /\ r.lo < s
        BY <1>1, <1>2, <1>7 DEF Extents, Extent
    <2>2. CASE r \in O
        BY <1>1, <1>2, <2>1, <2>2
    <2>3. CASE r \notin O
        <3>1. Unfinished(r, O, free)
            <4>1. Unfinished(r, O, free) \/ Residue(r, O)
                BY <1>1, <2>3 DEF DataArea
            <4>2. ~Residue(r, O)
                BY <1>1, <1>2, <2>1 DEF Residue, Demarc
            <4> QED
                BY <4>1, <4>2
        <3> QED
            BY <1>1, <1>2, <2>1, <3>1 DEF Unfinished
    <2> QED
        BY <2>2, <2>3
<1>9. SwapArea(fl, S, s)
    BY <1>1, <1>2, <1>6, <1>7, <1>8 DEF SwapArea
<1> QED
    BY <1>1, <1>2, <1>6, <1>7, <1>9 DEF s, S, O

(* CHECKPOINT_1: with the marker the swap area becomes the good one *)
LEMMA WriteMarkerKeeps ==
    ASSUME Core, WriteMarker
    PROVE  Core' /\ Durable' = Durable /\ Occupied = <<total, free>> /\ Occupied' = <<total, total>>
<1> DEFINE s == w.swap
           S == From(s)
           O == Before(free)
<1>1. /\ pc = "c1mark" /\ desc' = [desc EXCEPT !.mark = "ok"] /\ pc' = "c2erase"
      /\ w' = [NoWork EXCEPT !.swap = s]
      /\ UNCHANGED <<fl, total, free, high, st, op, ret>>
    BY DEF WriteMarker
<1>2. /\ S \subseteq fl /\ SwapArea(fl, S, s) /\ Pairs(S) = Pairs(O)
      /\ ActiveSize(S) = total /\ s \in Nat /\ desc = [BlankDesc EXCEPT !.start = s]
      /\ s = SwapStart(total)
    BY <1>1, CopiedOut
<1>3. /\ Extents(fl) /\ O \subseteq fl /\ DataArea(fl, O, free) /\ Room(total, total) /\ ~Valid(desc)
      /\ total = ActiveSize(O)
      /\ TypeInv /\ CallInv /\ st # "down" /\ free \in Nat /\ w \in Works /\ SwapStart(total) < PartSize
      /\ PartSize \in Nat /\ Aligned(SwapStart(total)) /\ SwapStart(total) > total /\ total \in Nat
    BY <1>1, SavingMeans DEF Saving, Copying1
<1> HIDE DEF O
<1>4. desc' \in Descriptors /\ Valid(desc') /\ desc'.start = s
    <2>1. s \in 0..PartSize
        BY <1>2, <1>3
    <2> HIDE DEF s
    <2>2. desc' = [start |-> s, mark |-> "ok"]
        BY <1>1, <1>2 DEF BlankDesc
    <2>3. desc' \in Descriptors
        BY <2>1, <2>2 DEF Descriptors
    <2>4. desc'.mark = "ok" /\ desc'.start = s /\ s >= 0
        BY <1>2, <2>2
    <2> QED
        BY <2>3, <2>4 DEF Valid
<1>5. w' \in Works /\ w'.swap = s /\ w'.cur = 0
    <2>1. s \in 0..PartSize
        BY <1>2, <1>3
    <2> HIDE DEF s
    <2> QED
        BY <1>1, <1>3, <2>1, WorkNext
<1> HIDE DEF s, S
<1>6. Durable' = Durable /\ Occupied = <<total, free>> /\ Occupied' = <<total, total>>
    <2>1. Durable = [n \in Names |-> Paired(Pairs(O), n)] /\ Occupied = <<total, free>>
        BY <1>3, RestoredData, ValidIs
    <2>2. /\ Durable' = [n \in Names |-> Paired(Pairs(S), n)]
          /\ Occupied' = <<total, total>>
        BY <1>1, <1>2, <1>3, <1>4, RestoredSwapNext
    <2> QED
        BY <1>2, <2>1, <2>2
<1>7. From(w.swap)' = S
    BY <1>1, <1>5 DEF From, S
<1>8. MovingInv'
    <2>1. \A r \in Before(w.swap)' : r.lo >= 0
        <3>1. Before(w.swap)' \subseteq fl
            BY <1>1 DEF Before
        <3> QED
            BY <1>3, <3>1 DEF Extents, Extent
    <2>2. op'.kind = "set" => ActiveSize(S) + ObjSize(op'.max) <= PlannedSwap(ActiveSize(S) + ObjSize(op'.max))
        BY <1>1, <1>2, <1>3 DEF Room
    <2>3. 0 < s
        BY <1>2, <1>3
    <2> QED
        BY <1>1, <1>2, <1>4, <1>5, <1>7, <2>1, <2>2, <2>3, LayoutAligned DEF MovingInv, Room
<1>9. TypeInv'
    BY <1>1, <1>3, <1>4, <1>5 DEF TypeInv, Places
<1>10. CallInv'
    BY <1>1, <1>3 DEF CallInv, Saving, Moving, Copying1, Copying2
<1> QED
    BY <1>1, <1>3, <1>6, <1>8, <1>9, <1>10, Elsewhere DEF Core, Saving, Copying1, Copying2, Moving

(* The copies in the data area are complete *)
LEMMA CopiedBack ==
    ASSUME Core, pc = "c2inval"
    PROVE  LET C == From(w.swap)  S == Before(w.swap)
           IN  /\ S \subseteq fl /\ DataArea(fl, S, ActiveSize(S)) /\ Pairs(S) = Pairs(C)
               /\ ActiveSize(S) = ActiveSize(C) /\ ActiveSize(S) \in Nat /\ ActiveSize(S) <= w.swap
               /\ \A r \in fl \ S : Residue(r, S)
<1> DEFINE s == w.swap
           C == From(s)
           S == Before(s)
           t == ActiveSize(C)
<1>1. /\ Extents(fl) /\ C \subseteq fl /\ s \in Nat /\ SwapArea(fl, C, s) /\ fl \ C = S
    BY MovingMeans DEF Moving, Copying2
<1>2. Progress(w, FALSE, C, SwapData(s), S, 0) /\ w.src = SwapData(s) + t
    BY DEF Core, CopyInv2, Copying2
<1>3. /\ t \in Nat /\ SwapData(s) = s + 4 /\ t < PlannedSwap(t) /\ PlannedSwap(t) <= s
      /\ PlannedSwap(t) \in Int /\ \A e \in C : e.lo >= s + 4 /\ e.hi <= s + 4 + t
    BY <1>1, SwapAreaFacts
<1>4. CopyOf(S, 0, {e \in C : e.lo < w.src}, w.dst, w.cid)
    BY <1>2 DEF Progress
<1>5. {e \in C : e.lo < w.src} = C
    <2>1. ASSUME NEW e \in C PROVE e.lo < w.src
        <3>1. e.lo \in Nat /\ e.hi \in Nat /\ e.lo < e.hi /\ e.hi <= s + 4 + t
            BY <1>1, <1>3 DEF Extents, Extent
        <3> HIDE DEF s, t, C
        <3> QED
            BY <1>1, <1>2, <1>3, <3>1
    <2> QED
        BY <2>1
<1>6. /\ Area(S, 0, w.dst) /\ w.dst = 0 + ActiveSize(S)
      /\ Pairs(S) = Pairs(C) /\ ActiveSize(S) = t
    BY <1>4, <1>5 DEF CopyOf
<1>7. S \subseteq fl
    BY <1>1
<1>8. \A r \in fl \ S : Residue(r, S)
    <2> SUFFICES ASSUME NEW r \in fl \ S PROVE Residue(r, S)
        OBVIOUS
    <2>1. r \in C
        BY <1>1
    <2>2. s = SwapStart(t) /\ r.lo >= s + 4
        BY <1>1, <1>3, <2>1 DEF SwapArea
    <2> QED
        BY <1>6, <2>2 DEF Residue, Demarc
<1>9. DataArea(fl, S, ActiveSize(S))
    <2>1. w.dst = ActiveSize(S)
        BY <1>3, <1>6
    <2>2. ActiveSize(S) <= PlannedSwap(ActiveSize(S))
        BY <1>3, <1>6
    <2> QED
        BY <1>6, <1>7, <1>8, <2>1, <2>2 DEF DataArea
<1>10. ActiveSize(S) \in Nat /\ ActiveSize(S) <= s
    <2> HIDE DEF S, s, t
    <2> QED
        BY <1>1, <1>3, <1>6
<1> QED
    BY <1>6, <1>7, <1>8, <1>9, <1>10

(* CHECKPOINT_2: without the descriptor the data area is the good one *)
LEMMA InvalidateDescriptorKeeps ==
    ASSUME Core, InvalidateDescriptor
    PROVE  Core' /\ Durable' = Durable /\ Occupied' = Occupied
<1> DEFINE s == w.swap
           C == From(s)
           S == Before(s)
<1>1. /\ pc = "c2inval" /\ desc' = [start |-> BadStart, mark |-> "bad"] /\ pc' = "c3erase"
      /\ w' = [w EXCEPT !.cur = s]
      /\ UNCHANGED <<fl, total, free, high, st, op, ret>>
    BY DEF InvalidateDescriptor
<1>2. /\ S \subseteq fl /\ DataArea(fl, S, ActiveSize(S)) /\ Pairs(S) = Pairs(C)
      /\ ActiveSize(S) = ActiveSize(C) /\ ActiveSize(S) \in Nat /\ ActiveSize(S) <= s
      /\ \A r \in fl \ S : Residue(r, S)
    BY <1>1, CopiedBack
<1>3. /\ Extents(fl) /\ C \subseteq fl /\ Valid(desc) /\ desc \in Descriptors
      /\ desc.start = s /\ s \in Nat /\ w \in Works /\ SwapArea(fl, C, s)
      /\ Room(ActiveSize(C), ActiveSize(C)) /\ TypeInv /\ CallInv /\ st # "down" /\ desc.start \in Int
    BY <1>1, MovingMeans DEF Moving, Copying2
<1> HIDE DEF C, S, s
<1>4. Aligned(s) /\ s < PartSize /\ PartSize \in Nat
    BY <1>3, SwapAreaFacts, PartSizeAssumption
<1>5. desc' \in Descriptors /\ ~Valid(desc') /\ desc' # BlankDesc
    BY <1>1 DEF Descriptors, Valid, BlankDesc
<1>6. w' \in Works /\ w'.cur = s
    <2>1. s \in 0..PartSize
        BY <1>3, <1>4
    <2> QED
        BY <1>1, <1>3, <2>1, WorkNext
<1>7. Durable' = Durable /\ Occupied' = Occupied
    <2>1. Durable = [n \in Names |-> Paired(Pairs(C), n)] /\ Occupied = <<ActiveSize(C), ActiveSize(C)>>
        BY <1>3, RestoredSwap, ValidIs
    <2>2. /\ Durable' = [n \in Names |-> Paired(Pairs(S), n)]
          /\ Occupied' = <<ActiveSize(S), ActiveSize(S)>>
        BY <1>1, <1>2, <1>3, <1>5, RestoredDataNext
    <2> QED
        BY <1>2, <2>1, <2>2
<1>8. Before(w.cur)' = S
    BY <1>1, <1>6 DEF Before, S
<1>9. CleaningInv'
    <2>1. op'.kind = "set" => ActiveSize(S) + ObjSize(op'.max) <= PlannedSwap(ActiveSize(S) + ObjSize(op'.max))
        BY <1>1, <1>2, <1>3 DEF Room
    <2>2. ActiveSize(S) \in 0..PartSize
        BY <1>2, <1>3, <1>4
    <2>3. \E end \in 0..PartSize : /\ DataArea(fl', S, end) /\ end <= w'.cur
                                   /\ op'.kind = "set" => end = ActiveSize(S)
        BY <1>1, <1>2, <1>6, <2>2
    <2> QED
        BY <1>1, <1>2, <1>4, <1>5, <1>6, <1>8, <2>1, <2>3 DEF CleaningInv, Room
<1>10. TypeInv'
    BY <1>1, <1>3, <1>5, <1>6 DEF TypeInv, Places
<1>11. CallInv'
    BY <1>1, <1>3 DEF CallInv, Saving, Moving, Copying1, Copying2
<1> QED
    BY <1>1, <1>3, <1>7, <1>9, <1>10, <1>11, Elsewhere DEF Core, Saving, Copying1, Copying2, Moving

-----------------------------------------------------------------------------
(***************************************************************************)
(* Scans and start-up                                                      *)
(***************************************************************************)
(* The counters that a scan of good objects leaves *)
LEMMA ScanCounts ==
    ASSUME NEW f, NEW O \in SUBSET f, NEW end \in Nat, Extents(f), DataArea(f, O, end)
    PROVE  /\ Scan(f).total \in 0..PartSize /\ Scan(f).free \in 0..PartSize
           /\ Scan(f).high \in 0..MaxObjects
<1>1. /\ Scan(f).total = ActiveSize(O) /\ Scan(f).free = end
      /\ Scan(f).high \in Nat /\ IdRoom(Scan(f).high, end)
    BY ScanIs
<1>2. end < PartSize /\ ActiveSize(O) \in Nat /\ ActiveSize(O) <= end
    BY DataAreaFacts
<1>3. PartSize \in Nat /\ MaxObjects \in Nat
    BY PartSizeAssumption, PsmAssumption
<1>4. Scan(f).high <= MaxObjects
    BY <1>1 DEF IdRoom
<1> QED
    BY <1>1, <1>2, <1>3, <1>4

(* What the scan at the end finds *)
LEMMA RescanMeans ==
    ASSUME Core, Rescan
    PROVE  /\ pc = "scan" /\ fl' = fl /\ UNCHANGED desc /\ Extents(fl) /\ TypeInv /\ CallInv
           /\ total' = ActiveSize(fl) /\ free' \in 0..PartSize /\ total' \in 0..PartSize
           /\ high' \in 0..MaxObjects /\ IdRoom(high', free')
           /\ DataArea(fl, fl, free') /\ ~Valid(desc) /\ Counted(fl)'
           /\ op.kind = "set" => Room(free', total') /\ total' = free'
           /\ op.kind = "fmt" => fl = {}
           /\ Scan(fl).ok
<1>1. /\ pc = "scan" /\ fl' = Scan(fl).fl /\ total' = Scan(fl).total /\ free' = Scan(fl).free
      /\ high' = Scan(fl).high /\ UNCHANGED desc
    BY DEF Rescan
<1>2. /\ \E end \in 0..PartSize :
            /\ DataArea(fl, fl, end) /\ desc = BlankDesc
            /\ op.kind = "set" => end = ActiveSize(fl)
            /\ op.kind = "fmt" => fl = {}
            /\ Room(ActiveSize(fl), ActiveSize(fl))
      /\ TypeInv /\ CallInv /\ Extents(fl)
    BY <1>1 DEF Core, ScanInv, TypeInv
<1>3. PICK end \in 0..PartSize :
            /\ DataArea(fl, fl, end) /\ desc = BlankDesc
            /\ op.kind = "set" => end = ActiveSize(fl)
            /\ op.kind = "fmt" => fl = {}
            /\ Room(ActiveSize(fl), ActiveSize(fl))
    BY <1>2
<1>4. end \in Nat /\ fl \in SUBSET fl /\ fl \ fl = {}
    BY PartSizeAssumption
<1>5. /\ Scan(fl).total = ActiveSize(fl) /\ Scan(fl).free = end
      /\ Scan(fl).high \in Nat /\ IdRoom(Scan(fl).high, end)
      /\ \A e \in fl : e.id <= Scan(fl).high
      /\ Scan(fl).ok <=> \A r \in fl \ fl : ~Unfinished(r, fl, end)
      /\ Scan(fl).ok => Scan(fl).fl = fl
    BY <1>2, <1>3, <1>4, ScanIs
<1>6. Scan(fl).ok /\ Scan(fl).fl = fl
    BY <1>4, <1>5
<1>7. /\ Scan(fl).total \in 0..PartSize /\ Scan(fl).free \in 0..PartSize
      /\ Scan(fl).high \in 0..MaxObjects
    BY <1>2, <1>3, <1>4, ScanCounts
<1>8. Counted(fl)'
    <2>1. Area(fl, 0, end) /\ end <= PlannedSwap(ActiveSize(fl))
        BY <1>3 DEF DataArea
    <2> QED
        BY <1>1, <1>3, <1>5, <1>6, <2>1 DEF Counted
<1> QED
    BY <1>1, <1>2, <1>3, <1>5, <1>6, <1>7, <1>8, BlankInvalid

(* The scan at the end of a compaction, a start or a psm_format *)
LEMMA RescanKeeps ==
    ASSUME Core, Rescan
    PROVE  Core' /\ Durable' = Durable /\ Occupied' = Occupied
<1>1. /\ pc = "scan" /\ fl' = fl /\ UNCHANGED desc /\ Extents(fl) /\ TypeInv /\ CallInv
      /\ total' = ActiveSize(fl) /\ free' \in 0..PartSize /\ total' \in 0..PartSize
      /\ high' \in 0..MaxObjects /\ IdRoom(high', free')
      /\ DataArea(fl, fl, free') /\ ~Valid(desc) /\ Counted(fl)'
      /\ op.kind = "set" => Room(free', total') /\ total' = free'
      /\ Scan(fl).ok
    BY RescanMeans
<1>2. Durable' = Durable /\ Occupied' = Occupied
    BY <1>1, DurableSame
<1>3. \/ st = "init" /\ st' = "up" /\ Return("none")
      \/ st # "init" /\ op.kind = "fmt" /\ Return("ok") /\ st' = st
      \/ /\ st # "init" /\ op.kind # "fmt" /\ pc' = "hdr" /\ w' = NoWork
         /\ UNCHANGED <<st, op, ret>>
    BY <1>1 DEF Rescan
<1>4. st \in {"init", "up"}
    BY <1>1 DEF TypeInv, CallInv
<1>5. NoWork \in Works /\ NoCall \in Calls
    BY PartSizeAssumption DEF NoWork, Works, NoCall, Calls
<1>6. ReadyInv'
    BY <1>1 DEF ReadyInv
<1>7. CASE pc' = "idle"
    <2>1. st' = "up" /\ op' = NoCall /\ w' = NoWork /\ ret' \in {"none", "ok"}
        BY <1>3, <1>4, <1>7 DEF Return
    <2>2. TypeInv'
        BY <1>1, <1>5, <1>7, <2>1 DEF TypeInv, Places
    <2>3. CallInv'
        BY <1>7, <2>1 DEF CallInv, NoCall, Saving, Moving, Copying1, Copying2
    <2> QED
        BY <1>2, <1>6, <1>7, <2>1, <2>2, <2>3, Elsewhere DEF Core, Saving, Copying1, Copying2, Moving
<1>8. CASE pc' # "idle"
    <2>1. /\ pc' = "hdr" /\ w' = NoWork /\ UNCHANGED <<st, op, ret>> /\ st = "up"
          /\ op.kind # "fmt"
        BY <1>3, <1>4, <1>8 DEF Return
    <2>2. op.kind = "set"
        BY <1>1, <2>1 DEF CallInv, TypeInv, Calls
    <2>3. TypeInv'
        BY <1>1, <1>5, <2>1 DEF TypeInv, Places
    <2>4. CallInv'
        BY <1>1, <2>1, <2>2 DEF CallInv, Saving, Moving, Copying1, Copying2
    <2>5. WritingInv'
        <3>1. Room(free, total)'
            BY <1>1, <2>1, <2>2 DEF Room
        <3> QED
            BY <2>1, <3>1 DEF WritingInv
    <2> QED
        BY <1>2, <1>6, <2>1, <2>3, <2>4, <2>5, Elsewhere DEF Core, Saving, Copying1, Copying2, Moving
<1> QED
    BY <1>7, <1>8

(* What is known at a start *)
LEMMA BootMeans ==
    ASSUME Core, Boot
    PROVE  /\ st = "down" /\ pc = "idle" /\ op = NoCall /\ Recoverable(fl, desc)
           /\ TypeInv /\ Extents(fl) /\ w \in Works /\ UNCHANGED <<desc, op>> /\ ret' = "none"
           /\ PartSize \in Nat /\ desc \in Descriptors
<1>1. st \in {"down", "failed"} /\ TypeInv /\ CallInv /\ DownInv /\ UNCHANGED <<desc, op>> /\ ret' = "none"
    BY DEF Boot, Core
<1>2. st = "down"
    BY <1>1 DEF TypeInv
<1> QED
    BY <1>1, <1>2, PartSizeAssumption DEF CallInv, DownInv, TypeInv

(* The swap area is the good one *)
LEMMA BootFromSwap ==
    ASSUME Core, Boot, Valid(desc)
    PROVE  Core' /\ Durable' = Durable /\ Occupied' = Occupied
<1>1. /\ st = "down" /\ pc = "idle" /\ op = NoCall /\ Recoverable(fl, desc)
      /\ TypeInv /\ Extents(fl) /\ w \in Works /\ UNCHANGED <<desc, op>> /\ ret' = "none"
      /\ PartSize \in Nat /\ desc \in Descriptors
    BY BootMeans
<1>2. /\ st' = "init" /\ pc' = "c2erase" /\ w' = [NoWork EXCEPT !.swap = desc.start]
      /\ UNCHANGED <<fl, total, free, high>>
    BY ValidIs DEF Boot
<1>3. PICK C \in SUBSET fl : SwapArea(fl, C, desc.start)
    BY <1>1 DEF Recoverable
<1>4. desc.start \in Nat /\ desc.start \in 0..PartSize
    BY <1>1 DEF Descriptors, Valid, NoStart, BadStart
<1>5. /\ 0 < desc.start /\ \A r \in fl : r \in C <=> r.lo >= desc.start
    BY <1>1, <1>3, <1>4, SwapAreaFacts
<1>6. w' \in Works /\ w'.swap = desc.start /\ w'.cur = 0
    BY <1>1, <1>2, <1>4, WorkNext
<1>7. Durable' = Durable /\ Occupied' = Occupied
    BY <1>1, <1>2, DurableSame
<1>8. From(w.swap)' = C
    <2>1. From(w.swap)' = {e \in fl : e.lo >= desc.start}
        BY <1>2, <1>6 DEF From
    <2> QED
        BY <1>3, <1>5, <2>1
<1>9. MovingInv'
    <2>1. \A r \in Before(w.swap)' : r.lo >= 0
        <3>1. Before(w.swap)' \subseteq fl
            BY <1>2 DEF Before
        <3> QED
            BY <1>1, <3>1 DEF Extents, Extent
    <2>2. op'.kind # "set"
        BY <1>1 DEF NoCall
    <2> QED
        BY <1>1, <1>2, <1>3, <1>5, <1>6, <1>8, <2>1, <2>2, LayoutAligned DEF MovingInv, Room, Copying2
<1>10. TypeInv'
    BY <1>1, <1>2, <1>6 DEF TypeInv, Places
<1>11. CallInv'
    BY <1>1, <1>2 DEF CallInv, NoCall, Saving, Moving, Copying1, Copying2
<1> QED
    BY <1>2, <1>7, <1>9, <1>10, <1>11, Elsewhere DEF Core, Saving, Copying1, Copying2, Moving

(* The data area is the good one *)
LEMMA BootScans ==
    ASSUME Core, Boot, ~Valid(desc)
    PROVE  \E O \in SUBSET fl, end \in Nat :
             /\ DataArea(fl, O, end) /\ end < PartSize
             /\ desc = BlankDesc => \A r \in fl \ O : Unfinished(r, O, end)
             /\ total' = ActiveSize(O) /\ free' = end /\ IdRoom(high', end)
             /\ \A e \in O : e.id <= high'
             /\ total' \in 0..PartSize /\ free' \in 0..PartSize /\ high' \in 0..MaxObjects
             /\ Extents(fl') /\ O \subseteq fl' /\ DataArea(fl', O, end) /\ Durable' = Durable /\ Occupied' = Occupied
             /\ \A q \in fl' \ O : \E r \in fl \ O :
                  q.lo = r.lo /\ (Unfinished(r, O, end) => Unfinished(q, O, end))
             /\ IF \A r \in fl \ O : ~Unfinished(r, O, end)
                THEN /\ fl' = fl
                     /\ IF desc = BlankDesc
                        THEN st' = "up" /\ UNCHANGED <<pc, w>>
                        ELSE /\ st' = "init" /\ pc' = "c3erase"
                             /\ w' = [NoWork EXCEPT !.cur = EraseStart(end)]
                ELSE st' = "init" /\ StartCompaction /\ total' < PlannedSwap(total')
<1>1. /\ Recoverable(fl, desc) /\ Extents(fl) /\ PartSize \in Nat /\ UNCHANGED desc
    BY BootMeans
<1>2. PICK O \in SUBSET fl, end \in 0..PartSize :
        /\ DataArea(fl, O, end)
        /\ desc = BlankDesc => \A r \in fl \ O : Unfinished(r, O, end)
    BY <1>1 DEF Recoverable
<1>3. end \in Nat
    BY <1>1
<1> DEFINE s == Scan(fl)
<1>4. /\ s.total = ActiveSize(O) /\ s.free = end
      /\ s.high \in Nat /\ IdRoom(s.high, end)
      /\ \A e \in O : e.id <= s.high
      /\ s.ok <=> \A r \in fl \ O : ~Unfinished(r, O, end)
      /\ s.ok => s.fl = fl
      /\ Extents(s.fl) /\ DataArea(s.fl, O, end)
      /\ \A q \in s.fl \ O : \E r \in fl \ O :
           q.lo = r.lo /\ (Unfinished(r, O, end) => Unfinished(q, O, end))
    BY <1>1, <1>2, <1>3, ScanIs
<1>5. s.total \in 0..PartSize /\ s.free \in 0..PartSize /\ s.high \in 0..MaxObjects
    BY <1>1, <1>2, <1>3, ScanCounts
<1>6. /\ fl' = s.fl /\ total' = s.total /\ free' = s.free /\ high' = s.high
      /\ IF ~s.ok
         THEN IF Admission(s.total, s.free, 0) \in {"fits", "compact"}
              THEN st' = "init" /\ StartCompaction
              ELSE st' = "failed" /\ UNCHANGED <<pc, w>>
         ELSE IF desc = BlankDesc
              THEN st' = "up" /\ UNCHANGED <<pc, w>>
              ELSE /\ st' = "init" /\ pc' = "c3erase"
                   /\ w' = [NoWork EXCEPT !.cur = EraseStart(s.free)]
    BY ValidIs DEF Boot
<1> HIDE DEF s
<1>7. /\ end < PartSize /\ ActiveSize(O) \in Nat /\ ActiveSize(O) <= end
      /\ PlannedSwap(ActiveSize(O)) \in Int
    BY <1>1, <1>2, <1>3, DataAreaFacts
<1>8. O \subseteq fl'
    BY <1>4, <1>6 DEF DataArea
<1>9. Durable' = Durable /\ Occupied' = Occupied
    BY <1>1, <1>2, <1>3, <1>4, <1>6, <1>8, DataKept
<1>10. ~s.ok => /\ Admission(s.total, s.free, 0) = "fits"
                /\ s.total < PlannedSwap(s.total)
    <2> SUFFICES ASSUME ~s.ok
                 PROVE  Admission(s.total, s.free, 0) = "fits" /\ s.total < PlannedSwap(s.total)
        OBVIOUS
    <2>1. PICK r \in fl \ O : Unfinished(r, O, end)
        BY <1>4
    <2>2. end + MinSize <= PlannedSwap(ActiveSize(O))
        BY <2>1 DEF Unfinished
    <2>3. MinSize \in Nat /\ MinSize >= 13
        BY ObjSizes
    <2>4. end < PlannedSwap(ActiveSize(O))
        BY <1>3, <1>7, <2>2, <2>3
    <2>5. LenSane(0)
        <3>1. 0 < PartSize \div 2
            BY PartSizeAssumption, BlockSizeAssumption
        <3> QED
            BY <3>1 DEF LenSane
    <2>6. s.free + 0 = end /\ s.total + 0 = ActiveSize(O)
        BY <1>3, <1>4, <1>7
    <2> QED
        BY <1>4, <1>7, <2>4, <2>5, <2>6, <1>3 DEF Admission
<1> QED
    BY <1>2, <1>3, <1>4, <1>5, <1>6, <1>7, <1>8, <1>9, <1>10

(* A start, whatever the power failure left *)
LEMMA BootKeeps ==
    ASSUME Core, Boot
    PROVE  Core' /\ Durable' = Durable /\ Occupied' = Occupied
<1>1. CASE Valid(desc)
    BY <1>1, BootFromSwap
<1>2. CASE ~Valid(desc)
    <2>1. /\ st = "down" /\ pc = "idle" /\ op = NoCall
          /\ TypeInv /\ Extents(fl) /\ w \in Works /\ UNCHANGED <<desc, op>> /\ ret' = "none"
          /\ PartSize \in Nat /\ desc \in Descriptors
        BY BootMeans
    <2>2. PICK O \in SUBSET fl, end \in Nat :
             /\ DataArea(fl, O, end) /\ end < PartSize
             /\ desc = BlankDesc => \A r \in fl \ O : Unfinished(r, O, end)
             /\ total' = ActiveSize(O) /\ free' = end /\ IdRoom(high', end)
             /\ \A e \in O : e.id <= high'
             /\ total' \in 0..PartSize /\ free' \in 0..PartSize /\ high' \in 0..MaxObjects
             /\ Extents(fl') /\ O \subseteq fl' /\ DataArea(fl', O, end) /\ Durable' = Durable /\ Occupied' = Occupied
             /\ \A q \in fl' \ O : \E r \in fl \ O :
                  q.lo = r.lo /\ (Unfinished(r, O, end) => Unfinished(q, O, end))
             /\ IF \A r \in fl \ O : ~Unfinished(r, O, end)
                THEN /\ fl' = fl
                     /\ IF desc = BlankDesc
                        THEN st' = "up" /\ UNCHANGED <<pc, w>>
                        ELSE /\ st' = "init" /\ pc' = "c3erase"
                             /\ w' = [NoWork EXCEPT !.cur = EraseStart(end)]
                ELSE st' = "init" /\ StartCompaction /\ total' < PlannedSwap(total')
        BY <1>2, BootScans
    <2> DEFINE t == ActiveSize(O)
    <2>3. /\ t \in Nat /\ t <= end /\ end <= PlannedSwap(t) /\ end <= SwapStart(t)
          /\ PlannedSwap(t) \in Int /\ SwapStart(t) \in Int /\ PlannedSwap(t) <= SwapStart(t)
          /\ PlannedSwap(t) <= PartSize - BlockSize
          /\ \A e \in O : e.lo < end
        BY <2>1, <2>2, DataAreaFacts
    <2> HIDE DEF t
    <2>4. \A r \in fl' \ O : r.lo >= end
        BY <2>2, RestFacts
    <2>5. {e \in fl' : e.lo < end} = O
        <3>1. \A r \in fl' : r.lo \in Nat
            BY <2>2 DEF Extents, Extent
        <3> QED
            BY <2>2, <2>3, <2>4, <3>1
    <2>6. op' = NoCall /\ op'.kind = "none"
        BY <2>1 DEF NoCall
    <2>7. ~Valid(desc')
        BY <1>2, <2>1
    <2>8. CASE ~ \A r \in fl \ O : ~Unfinished(r, O, end)
        <3>1. st' = "init" /\ StartCompaction /\ total' < PlannedSwap(total')
            BY <2>2, <2>8
        <3>2. pc' = "c0erase" /\ w' = [NoWork EXCEPT !.cur = SwapStart(total')]
            BY <3>1 DEF StartCompaction
        <3>3. SwapStart(t) < PartSize /\ SwapStart(t) \in 0..PartSize /\ Aligned(SwapStart(t))
            <4>1. SwapStart(t) <= PartSize - DescSize - t
                BY <2>3, SwapBounds
            <4>2. Aligned(SwapStart(t))
                BY <2>3, LayoutAligned
            <4> QED
                BY <2>1, <2>2, <2>3, <4>1, <4>2 DEF DescSize
        <3>4. total' = t
            BY <2>2 DEF t
        <3>5. w' \in Works /\ w'.cur = SwapStart(t)
            BY <2>1, <3>2, <3>3, <3>4, WorkAt
        <3>6. Before(free)' = O
            BY <2>2, <2>5 DEF Before
        <3>7. \A q \in fl' \ O : /\ Unfinished(q, O, end) \/ q.lo >= SwapStart(t)
                                 /\ desc = BlankDesc => Unfinished(q, O, end)
            <4> SUFFICES ASSUME NEW q \in fl' \ O
                         PROVE  /\ Unfinished(q, O, end) \/ q.lo >= SwapStart(t)
                                /\ desc = BlankDesc => Unfinished(q, O, end)
                OBVIOUS
            <4>1. Unfinished(q, O, end) \/ Residue(q, O)
                BY <2>2 DEF DataArea
            <4>2. q.lo \in Nat
                BY <2>2 DEF Extents, Extent
            <4>3. Residue(q, O) => q.lo >= SwapStart(t)
                BY <2>3, <4>2 DEF Residue, Demarc, t
            <4>4. desc = BlankDesc => Unfinished(q, O, end)
                BY <2>2
            <4> QED
                BY <4>1, <4>3, <4>4
        <3>8. SavingInv'
            <4>1. Room(total, total)'
                BY <2>6 DEF Room
            <4>2. DataArea(fl, Before(free), free)' /\ total' = ActiveSize(Before(free)')
                BY <2>2, <3>6
            <4> QED
                BY <2>1, <2>2, <2>7, <3>1, <3>2, <3>3, <3>4, <3>5, <3>6, <3>7, <4>1, <4>2
                DEF SavingInv, Copying1
        <3>9. TypeInv'
            BY <2>1, <2>2, <3>1, <3>2, <3>5 DEF TypeInv, Places
        <3>10. CallInv'
            BY <2>6, <2>1, <3>1, <3>2 DEF CallInv, NoCall, Saving, Moving, Copying1, Copying2
        <3> QED
            BY <2>2, <3>1, <3>2, <3>8, <3>9, <3>10, Elsewhere
            DEF Core, Saving, Copying1, Copying2, Moving
    <2>9. CASE /\ \A r \in fl \ O : ~Unfinished(r, O, end)
               /\ desc = BlankDesc
        <3>1. st' = "up" /\ pc' = "idle" /\ w' = w /\ fl' = fl
            BY <2>1, <2>2, <2>9
        <3>2. fl = O
            BY <2>2, <2>9
        <3>3. ReadyInv'
            <4>1. Counted(fl)'
                BY <2>1, <2>2, <2>9, <3>1, <3>2 DEF Counted, DataArea
            <4> QED
                BY <2>2, <4>1 DEF ReadyInv
        <3>4. TypeInv'
            BY <2>1, <2>2, <3>1 DEF TypeInv, Places
        <3>5. CallInv'
            BY <2>1, <2>6, <3>1 DEF CallInv, NoCall, Saving, Moving, Copying1, Copying2
        <3> QED
            BY <2>2, <3>1, <3>3, <3>4, <3>5, Elsewhere
            DEF Core, Saving, Copying1, Copying2, Moving
    <2>10. CASE /\ \A r \in fl \ O : ~Unfinished(r, O, end)
                /\ desc # BlankDesc
        <3> DEFINE c == EraseStart(end)
        <3>1. /\ st' = "init" /\ pc' = "c3erase" /\ w' = [NoWork EXCEPT !.cur = c] /\ fl' = fl
            BY <2>2, <2>10
        <3>2. c \in Nat /\ Aligned(c) /\ end <= c /\ c <= PlannedSwap(t)
            BY <2>2, <2>3, EraseStartBounds, LayoutAligned
        <3> HIDE DEF c
        <3>3. c < PartSize /\ c \in 0..PartSize
            BY <2>1, <2>3, <3>2, BlockSizeAssumption
        <3>4. w' \in Works /\ w'.cur = c
            BY <2>1, <3>1, <3>3, WorkAt
        <3>5. \A r \in fl \ O : r.lo \in Nat /\ r.lo >= PlannedSwap(t) + 4 /\ Residue(r, O)
            BY <2>1, <2>2, <2>10, RestFacts DEF t
        <3>6. Before(w.cur)' = O
            <4>1. Before(w.cur)' = {e \in fl : e.lo < c}
                BY <3>1, <3>4 DEF Before
            <4>2. \A e \in O : e.lo < c
                <5>1. \A e \in O : e.lo \in Nat
                    BY <2>1 DEF Extents, Extent
                <5> QED
                    BY <2>2, <2>3, <3>2, <5>1
            <4>3. \A r \in fl \ O : ~(r.lo < c)
                BY <2>3, <3>2, <3>5
            <4> QED
                BY <4>1, <4>2, <4>3
        <3>7. CleaningInv'
            <4>1. Room(ActiveSize(O), ActiveSize(O))'
                BY <2>6 DEF Room
            <4>2. end \in 0..PartSize
                BY <2>1, <2>2
            <4>3. \E x \in 0..PartSize : /\ DataArea(fl', O, x) /\ x <= c
                                         /\ op'.kind = "set" => x = ActiveSize(O)
                BY <2>2, <2>6, <3>2, <4>2
            <4>4. op'.kind = "set" =>
                    ActiveSize(O) + ObjSize(op'.max) <= PlannedSwap(ActiveSize(O) + ObjSize(op'.max))
                BY <2>6
            <4> QED
                BY <2>1, <2>7, <2>10, <3>1, <3>2, <3>3, <3>4, <3>5, <3>6, <4>3, <4>4
                DEF CleaningInv, Room
        <3>8. TypeInv'
            BY <2>1, <2>2, <3>1, <3>4 DEF TypeInv, Places
        <3>9. CallInv'
            BY <2>1, <2>6, <3>1 DEF CallInv, NoCall, Saving, Moving, Copying1, Copying2
        <3> QED
            BY <2>2, <3>1, <3>7, <3>8, <3>9, Elsewhere
            DEF Core, Saving, Copying1, Copying2, Moving
    <2> QED
        BY <2>8, <2>9, <2>10
<1> QED
    BY <1>1, <1>2

-----------------------------------------------------------------------------
(***************************************************************************)
(* Copying                                                                 *)
(***************************************************************************)
(* A copy of the next active object is added to the copies *)
LEMMA CopyAdd ==
    ASSUME NEW S, NEW D, NEW d, NEW c, NEW a \in Nat, NEW x \in Nat, NEW dst \in Nat, NEW cid \in Nat,
           Extents(S \cup {c}), Extents(D \cup {d}), d \notin D, d.live, Catalogue(D \cup {d}, x),
           CopyOf(S, a, D, dst, cid),
           NEW to, to = dst + SizeOf(d), NEW n, n = cid + 1, n <= MaxObjects,
           c.lo = dst, c.hi = to, c.k = "obj", c.id = n, c.nm = d.nm, c.vl = d.vl, c.live, c.good
    PROVE  CopyOf(S \cup {c}, a, D \cup {d}, to, n)
<1>1. /\ Area(S, a, dst) /\ dst = a + ActiveSize(S)
      /\ \A e \in S : e.live /\ e.id <= cid
      /\ Pairs(S) = Pairs(D) /\ ActiveSize(S) = ActiveSize(D) /\ IdRoom(cid, dst - a)
    BY DEF CopyOf
<1>2. /\ d.nm \in Names /\ d.vl \in Values /\ SizeOf(d) = ObjSize(LenOf[d.vl])
      /\ MinSize <= SizeOf(d) /\ d \in Extent /\ d.lo < d.hi
    BY DEF Catalogue, Extents
<1>3. SizeOf(d) \in Nat /\ SizeOf(d) > 0
    BY <1>2 DEF Extent, SizeOf
<1>4. c \in Extent /\ Extents(S) /\ Extents(D) /\ SizeOf(c) = SizeOf(d) /\ c.lo < c.hi
    BY <1>3, ExtentsSubset DEF Extents, SizeOf
<1>5. \A e \in S : e.hi <= dst /\ e.lo < e.hi /\ e.lo \in Nat /\ e.hi \in Nat /\ e.id \in Nat
    BY <1>1, <1>4 DEF Area, Tiles, Extents, Extent
<1>6. c \notin S
    BY <1>4, <1>5
<1>7. \A e \in S : e.nm # d.nm
    <2> SUFFICES ASSUME NEW e \in S, e.nm = d.nm PROVE FALSE
        OBVIOUS
    <2>1. <<e.nm, e.vl>> \in Pairs(S)
        BY <1>1 DEF Pairs
    <2>2. <<e.nm, e.vl>> \in Pairs(D)
        BY <1>1, <2>1
    <2>3. PICK z \in D : z.live /\ <<z.nm, z.vl>> = <<e.nm, e.vl>>
        BY <2>2 DEF Pairs
    <2>4. z.nm = d.nm
        BY <2>3
    <2> QED
        BY <2>3, <2>4 DEF Catalogue
<1>8. Tiles(S \cup {c}, a, to)
    <2>1. Tiles(S \cup {c}, a, c.hi)
        BY <1>1, <1>4, TilesAdd DEF Area
    <2> QED
        BY <2>1
<1>15. IdRoom(n, to - a)
    <2>1. MinSize \in Int /\ SizeOf(d) \in Int /\ dst - a \in Int
        BY <1>3, ObjSizes
    <2>2. IdRoom(cid + 1, (dst - a) + SizeOf(d))
        <3>1. cid + 1 <= MaxObjects
            OBVIOUS
        <3> QED
            BY <1>1, <1>2, <2>1, <3>1, IdRoomNext
    <2>3. to - a = (dst - a) + SizeOf(d) /\ n = cid + 1
        BY <1>3
    <2> QED
        BY <2>2, <2>3
<1>9. Catalogue(S \cup {c}, a)
    <2>1. c.id >= 1
        OBVIOUS
    <2>2. IdRoom(c.id, c.hi - a)
        BY <1>15
    <2>3. \A e \in S : e.nm = c.nm <=> e.id = c.id
        BY <1>1, <1>5, <1>7
    <2>4. \A e \in S : e.live => e.id # c.id
        BY <1>1, <1>5
    <2>5. Catalogue(S, a)
        BY <1>1 DEF Area
    <2> QED
        BY <1>2, <1>4, <2>1, <2>2, <2>3, <2>4, <2>5, CatalogueAdd
<1>10. ActiveSize(S \cup {c}) = ActiveSize(S) + SizeOf(d)
    BY <1>4, <1>6, SizeAdd
<1>11. ActiveSize(D \cup {d}) = ActiveSize(D) + SizeOf(d)
    BY SizeAdd
<1>12. Pairs(S \cup {c}) = Pairs(D \cup {d})
    <2>1. Pairs(S \cup {c}) = Pairs(S) \cup {<<c.nm, c.vl>>}
        BY PairsAdd
    <2>2. Pairs(D \cup {d}) = Pairs(D) \cup {<<d.nm, d.vl>>}
        BY PairsAdd
    <2> QED
        BY <1>1, <2>1, <2>2
<1>13. ActiveSize(S) \in Nat /\ ActiveSize(D) \in Nat
    BY <1>4, SizeType
<1>14. to = a + ActiveSize(S \cup {c})
    BY <1>1, <1>3, <1>10, <1>13
<1>16. \A e \in S \cup {c} : e.live /\ e.id <= n
    BY <1>1, <1>5
<1>17. Area(S \cup {c}, a, to)
    BY <1>8, <1>9 DEF Area
<1>18. ActiveSize(S \cup {c}) = ActiveSize(D \cup {d})
    BY <1>1, <1>10, <1>11
<1> QED
    BY <1>12, <1>14, <1>15, <1>16, <1>17, <1>18 DEF CopyOf

(* An inactive object is not copied *)
LEMMA CopySkip ==
    ASSUME NEW S, NEW D, NEW d, NEW a, NEW dst, NEW cid, ~d.live, CopyOf(S, a, D, dst, cid)
    PROVE  CopyOf(S, a, D \cup {d}, dst, cid)
BY PairsAdd, SizeOfDead DEF CopyOf

(* The object that is copied next *)
LEMMA SourceObject ==
    ASSUME Extents(fl), NEW Src, Src \subseteq fl, NEW a \in Nat, NEW end \in Nat, Area(Src, a, end),
           NEW src \in {a} \cup {e.hi : e \in Src}
    PROVE  /\ src \in Nat /\ src <= end
           /\ src < end => \E d \in Src :
                /\ d.lo = src /\ ObjectsAt(fl, src) = {d} /\ \A e \in fl : e.lo = src => e = d
                /\ ~TypeBlank(src) /\ d.hi \in Nat /\ d.hi <= end /\ d.hi <= PartSize
                /\ {e \in Src : e.lo < d.hi} = {e \in Src : e.lo < src} \cup {d}
                /\ d \notin {e \in Src : e.lo < src}
<1>1. /\ a <= end /\ \A e \in Src : e.k = "obj" /\ a <= e.lo /\ e.hi <= end
      /\ \A x \in {a} \cup {e.hi : e \in Src} : x < end => \E d \in Src : d.lo = x
    BY DEF Area, Tiles
<1>2. \A e \in fl : e.lo \in Nat /\ e.hi \in Nat /\ e.lo < e.hi /\ e.hi <= PartSize
    BY DEF Extents, Extent
<1>3. src \in Nat /\ src <= end
    BY <1>1, <1>2
<1>4. ASSUME src < end
      PROVE  \E d \in Src :
                /\ d.lo = src /\ ObjectsAt(fl, src) = {d} /\ \A e \in fl : e.lo = src => e = d
                /\ ~TypeBlank(src) /\ d.hi \in Nat /\ d.hi <= end /\ d.hi <= PartSize
                /\ {e \in Src : e.lo < d.hi} = {e \in Src : e.lo < src} \cup {d}
                /\ d \notin {e \in Src : e.lo < src}
    <2>1. PICK d \in Src : d.lo = src
        BY <1>1, <1>4
    <2>2. \A e \in fl : e = d \/ d.hi <= e.lo \/ e.hi <= d.lo
        BY <2>1 DEF Extents
    <2>3. \A e \in fl : e.lo = src => e = d
        BY <1>2, <2>1, <2>2
    <2>4. ObjectsAt(fl, src) = {d}
        BY <1>1, <2>1, <2>3 DEF ObjectsAt
    <2>5. ~TypeBlank(src)
        <3>1. Overlaps(d, src, src + 2)
            BY <1>2, <1>3, <2>1 DEF Overlaps
        <3> QED
            BY <2>1, <3>1 DEF TypeBlank, IsBlank
    <2>6. {e \in Src : e.lo < d.hi} = {e \in Src : e.lo < src} \cup {d}
        <3>1. ASSUME NEW e \in Src PROVE e.lo < d.hi <=> e.lo < src \/ e = d
            BY <1>2, <2>1, <2>2
        <3> QED
            BY <2>1, <3>1
    <2>7. d \notin {e \in Src : e.lo < src}
        BY <1>3, <2>1
    <2> QED
        BY <1>1, <1>2, <2>1, <2>3, <2>4, <2>5, <2>6, <2>7
<1> QED
    BY <1>3, <1>4

(* The next active object of Src fits behind the copies S of the objects D *)
CopyRoom(Src, S, b, D, dst) ==
    /\ b <= dst /\ dst = b + ActiveSize(D) /\ dst <= b + ActiveSize(Src)
    /\ ActiveSize(D) \in Nat /\ ActiveSize(Src) \in Nat
    /\ \A e \in S : b <= e.lo /\ e.hi <= dst
    /\ \A d \in Src \ D : d.live =>
         dst + SizeOf(d) <= b + ActiveSize(Src) /\ SizeOf(d) \in Nat /\ SizeOf(d) > 0

(* There is room for the copy of one more object *)
LEMMA CopyFits ==
    ASSUME Extents(fl), NEW Src, Src \subseteq fl, NEW S, S \subseteq fl,
           NEW b \in Nat, b + ActiveSize(Src) <= PartSize,
           NEW D, D \subseteq Src, NEW dst \in Nat, NEW cid \in Nat, CopyOf(S, b, D, dst, cid)
    PROVE  CopyRoom(Src, S, b, D, dst)
<1>1. Extents(Src) /\ Extents(D)
    BY ExtentsSubset
<1>2. ActiveSize(Src) \in Nat /\ ActiveSize(D) \in Nat /\ ActiveSize(D) <= ActiveSize(Src)
    BY <1>1, SizeType, SizeMono
<1>3. /\ dst = b + ActiveSize(S) /\ ActiveSize(S) = ActiveSize(D) /\ IdRoom(cid, dst - b)
      /\ Tiles(S, b, dst)
    BY DEF CopyOf, Area
<1>4. \A e \in S : b <= e.lo /\ e.hi <= dst
    BY <1>3 DEF Tiles
<1>5. dst = b + ActiveSize(D) /\ b <= dst /\ dst <= b + ActiveSize(Src)
    BY <1>2, <1>3
<1>6. ASSUME NEW d \in Src \ D, d.live
      PROVE  dst + SizeOf(d) <= b + ActiveSize(Src) /\ SizeOf(d) \in Nat /\ SizeOf(d) > 0
    <2>1. D \cup {d} \in SUBSET Src
        BY <1>6
    <2>2. Extents(D \cup {d})
        BY <1>1, <2>1, ExtentsSubset
    <2>3. ActiveSize(D \cup {d}) = ActiveSize(D) + SizeOf(d)
        BY <1>6, <2>2, SizeAdd
    <2>4. ActiveSize(D \cup {d}) <= ActiveSize(Src)
        BY <1>1, <2>1, SizeMono
    <2>5. SizeOf(d) \in Nat /\ SizeOf(d) > 0
        BY <1>1 DEF Extents, Extent, SizeOf
    <2>6. dst + SizeOf(d) <= b + ActiveSize(Src)
        BY <1>2, <1>5, <2>3, <2>4, <2>5
    <2> QED
        BY <2>5, <2>6
<1> QED
    BY <1>2, <1>4, <1>5, <1>6 DEF CopyRoom

(* A step of psm_copy_all_objects turns the copies S into S2 *)
CopyMade(Src, a, S, b, crcStep, places) ==
    /\ UNCHANGED <<desc, total, free, high, st, op, ret>>
    /\ Extents(fl') /\ w' \in Works /\ w'.swap = w.swap
    /\ pc' \in places
    /\ \E S2 \in SUBSET fl' :
         /\ fl' = (fl \ S) \cup S2
         /\ \A e \in S2 : b <= e.lo /\ e.hi <= b + ActiveSize(Src)
         /\ Progress(w', pc' = crcStep, Src, a, S2, b)

(* One iteration of psm_copy_all_objects, up to the CRC of the copy *)
LEMMA CopyBodyIs ==
    ASSUME Extents(fl), w \in Works, w.cid < MaxObjects, NEW crcStep, pc # crcStep,
           NEW Src, Src \subseteq fl, NEW a \in Nat, NEW end \in Nat, Area(Src, a, end),
           NEW S, S \subseteq fl, NEW b \in Nat,
           b + ActiveSize(Src) <= SwapLimit, end <= SourceLimit, w.src >= end => CopyDone,
           \A e \in fl \ S : e.hi <= b \/ e.lo >= b + ActiveSize(Src),
           Progress(w, FALSE, Src, a, S, b), CopyBody(crcStep)
    PROVE  CopyMade(Src, a, S, b, crcStep, {pc, crcStep})
<1> DEFINE done == {e \in Src : e.lo < w.src}
<1>1. w.src \in {a} \cup {e.hi : e \in Src} /\ CopyOf(S, b, done, w.dst, w.cid)
    BY DEF Progress
<1>2. /\ w.src \in Nat /\ w.dst \in Nat /\ w.cid \in Nat /\ PartSize \in Nat
      /\ SwapLimit \in Int /\ SwapLimit < PartSize
    BY PartSizeAssumption DEF Works, SwapLimit, DescSize
<1>3. ~CopyDone /\ w.src < end
    <2>1. ~CopyDone
        BY DEF CopyBody
    <2> QED
        BY <1>2, <2>1
<1>4. PICK d \in Src :
        /\ d.lo = w.src /\ ObjectsAt(fl, w.src) = {d} /\ \A e \in fl : e.lo = w.src => e = d
        /\ ~TypeBlank(w.src) /\ d.hi \in Nat /\ d.hi <= end /\ d.hi <= PartSize
        /\ {e \in Src : e.lo < d.hi} = done \cup {d}
        /\ d \notin done
    <2>1. w.src < end
        BY <1>3
    <2>2. \E d \in Src :
            /\ d.lo = w.src /\ ObjectsAt(fl, w.src) = {d} /\ \A e \in fl : e.lo = w.src => e = d
            /\ ~TypeBlank(w.src) /\ d.hi \in Nat /\ d.hi <= end /\ d.hi <= PartSize
            /\ {e \in Src : e.lo < d.hi} = {e \in Src : e.lo < w.src} \cup {d}
            /\ d \notin {e \in Src : e.lo < w.src}
        <3> DEFINE src == w.src
        <3>1. src \in {a} \cup {e.hi : e \in Src}
            BY <1>1
        <3> HIDE DEF done, src
        <3>2. src < end => \E d \in Src :
                /\ d.lo = src /\ ObjectsAt(fl, src) = {d} /\ \A e \in fl : e.lo = src => e = d
                /\ ~TypeBlank(src) /\ d.hi \in Nat /\ d.hi <= end /\ d.hi <= PartSize
                /\ {e \in Src : e.lo < d.hi} = {e \in Src : e.lo < src} \cup {d}
                /\ d \notin {e \in Src : e.lo < src}
            BY <3>1, SourceObject, ZenonT(40)
        <3> QED
            BY <2>1, <3>2 DEF src
    <2> QED
        BY <2>2
<1>5. /\ b <= w.dst /\ w.dst = b + ActiveSize(done) /\ w.dst <= b + ActiveSize(Src)
      /\ ActiveSize(done) \in Nat /\ ActiveSize(Src) \in Nat
      /\ \A e \in S : b <= e.lo /\ e.hi <= w.dst
      /\ \A x \in Src \ done : x.live =>
           w.dst + SizeOf(x) <= b + ActiveSize(Src) /\ SizeOf(x) \in Nat /\ SizeOf(x) > 0
    <2>1. ActiveSize(Src) \in Nat
        BY ExtentsSubset, SizeType
    <2>2. b + ActiveSize(Src) <= PartSize
        BY <1>2, <2>1
    <2>3. done \subseteq Src
        OBVIOUS
    <2> HIDE DEF done
    <2>4. CopyRoom(Src, S, b, done, w.dst)
        BY <1>1, <1>2, <2>2, <2>3, CopyFits
    <2> QED
        BY <2>4 DEF CopyRoom
<1> HIDE DEF done
<1>6. MaxObjects \in Nat /\ w.cid < MaxObjects
    BY PsmAssumption
<1>7. /\ IF d.live
         THEN /\ fl' = Program(fl, Obj(w.dst, SizeOf(d), w.cid + 1, d.nm, d.vl, FALSE))
              /\ w' = [w EXCEPT !.cid = w.cid + 1]
              /\ pc' = crcStep
         ELSE /\ w' = [w EXCEPT !.src = d.hi]
              /\ UNCHANGED <<fl, pc>>
      /\ desc' = IF d.live /\ w.dst + SizeOf(d) > SwapLimit
                 THEN [desc EXCEPT !.start = BadStart] ELSE desc
      /\ UNCHANGED <<total, free, high, st, op, ret>>
    <2>1. MaxObjects \in Nat /\ ~(w.cid >= MaxObjects)
        BY <1>2, <1>6, PsmAssumption
    <2>2. ObjectsAt(fl, w.src) # {}
        BY <1>4
    <2>3. \E e \in {d} :
            /\ IF e.live
               THEN /\ fl' = Program(fl, Obj(w.dst, SizeOf(e), w.cid + 1, e.nm, e.vl, FALSE))
                    /\ w' = [w EXCEPT !.cid = w.cid + 1]
                    /\ pc' = crcStep
               ELSE /\ w' = [w EXCEPT !.src = e.hi]
                    /\ UNCHANGED <<fl, pc>>
            /\ desc' = IF e.live /\ w.dst + SizeOf(e) > SwapLimit
                       THEN [desc EXCEPT !.start = BadStart] ELSE desc
            /\ UNCHANGED <<total, free, high, st, op, ret>>
        BY <1>4, <2>1, <2>2 DEF CopyBody
    <2> QED
        BY <2>3
<1>8. desc' = desc
    <2>1. ~(d.live /\ w.dst + SizeOf(d) > SwapLimit)
        BY <1>2, <1>4, <1>5
    <2> QED
        BY <1>7, <2>1
<1>9. CASE ~d.live
    <2>1. w' = [w EXCEPT !.src = d.hi] /\ fl' = fl /\ pc' = pc
        BY <1>7, <1>9
    <2>2. w' \in Works /\ w'.swap = w.swap /\ w'.src = d.hi /\ w'.dst = w.dst /\ w'.cid = w.cid
        <3>1. d.hi \in 0..PartSize
            BY <1>2, <1>4
        <3> QED
            BY <1>2, <2>1, <3>1, WorkIs
    <2>3. CopyOf(S, b, {e \in Src : e.lo < d.hi}, w.dst, w.cid)
        BY <1>1, <1>4, <1>9, CopySkip DEF done
    <2>4. Progress(w', FALSE, Src, a, S, b)
        BY <2>2, <2>3 DEF Progress
    <2>5. \A e \in S : b <= e.lo /\ e.hi <= b + ActiveSize(Src)
        <3>1. \A e \in S : e.hi \in Nat
            BY DEF Extents, Extent
        <3> QED
            BY <1>2, <1>5, <3>1
    <2>6. fl' = (fl \ S) \cup S /\ S \in SUBSET fl'
        BY <2>1
    <2>7. (pc' = crcStep) = FALSE
        BY <2>1
    <2> QED
        BY <1>7, <1>8, <2>1, <2>2, <2>4, <2>5, <2>6, <2>7 DEF CopyMade
<1>10. CASE d.live
    <2> DEFINE c == Obj(w.dst, SizeOf(d), w.cid + 1, d.nm, d.vl, FALSE)
    <2>1. fl' = Program(fl, c) /\ w' = [w EXCEPT !.cid = w.cid + 1] /\ pc' = crcStep
        BY <1>7, <1>10
    <2>2. /\ w.dst + SizeOf(d) <= b + ActiveSize(Src) /\ SizeOf(d) \in Nat /\ SizeOf(d) > 0
          /\ d.nm \in Names /\ d.vl \in Values
        BY <1>4, <1>5, <1>10 DEF Area, Catalogue
    <2>3. c \in Extent /\ c.lo = w.dst /\ c.hi = w.dst + SizeOf(d)
        <3> DEFINE n == w.cid + 1
                   size == SizeOf(d)
        <3>1. n \in Nat /\ size \in Nat
            BY <1>2, <2>2
        <3> HIDE DEF n, size
        <3>2. LET e == Obj(w.dst, size, n, d.nm, d.vl, FALSE)
              IN  e \in Extent /\ e.lo = w.dst /\ e.hi = w.dst + size
            BY <1>2, <2>2, <3>1 DEF Obj, Extent, Kinds
        <3>3. c = Obj(w.dst, size, n, d.nm, d.vl, FALSE)
            BY DEF n, size
        <3> HIDE DEF c
        <3> QED
            BY <3>2, <3>3 DEF size
    <2>4. w' \in Works /\ w'.swap = w.swap /\ w'.src = w.src /\ w'.dst = w.dst /\ w'.cid = w.cid + 1
        <3>1. w.cid + 1 \in Nat /\ 0 \in 0..PartSize
            BY <1>2
        <3> QED
            BY <2>1, <3>1, WorkIs
    <2>5. \A e \in fl : e.hi <= w.dst \/ w.dst + SizeOf(d) <= e.lo
        <3> SUFFICES ASSUME NEW e \in fl PROVE e.hi <= w.dst \/ w.dst + SizeOf(d) <= e.lo
            OBVIOUS
        <3>1. e.lo \in Nat /\ e.hi \in Nat
            BY DEF Extents, Extent
        <3>2. CASE e \in S
            BY <1>5, <3>2
        <3>3. CASE e \notin S
            BY <1>2, <1>5, <2>2, <3>1, <3>3
        <3> QED
            BY <3>2, <3>3
    <2> HIDE DEF c
    <2>6. fl' = fl \cup {c}
        <3>1. c.lo \in Nat /\ c.hi \in Nat
            BY <2>3 DEF Extent
        <3>2. IsBlank(fl, c.lo, c.hi)
            BY <2>3, <2>5, <3>1, BlankBehind
        <3> QED
            BY <2>1, <3>2, ProgramBlank
    <2>7. Extents(fl')
        <3>1. c.lo < c.hi /\ c.hi <= PartSize
            BY <1>2, <1>5, <2>2, <2>3
        <3> QED
            BY <2>3, <2>5, <2>6, <3>1, ExtentsAdd
    <2>8. c \notin S
        <3>1. \A e \in S : e.hi <= w.dst /\ e.lo < e.hi /\ e.lo \in Nat /\ e.hi \in Nat
            BY <1>5 DEF Extents, Extent
        <3> QED
            BY <1>2, <2>3, <3>1
    <2>9. Progress(w', TRUE, Src, a, S \cup {c}, b)
        <3>1. (S \cup {c}) \ {c} = S
            BY <2>8
        <3>2. w.cid \in 0..(w'.cid - 1) /\ w'.cid = w.cid + 1 /\ w'.cid <= MaxObjects
            BY <1>2, <1>6, <2>4
        <3>3. c = Obj(w'.dst, SizeOf(d), w'.cid, d.nm, d.vl, FALSE)
            BY <2>4 DEF c
        <3>4. CopyOf((S \cup {c}) \ {c}, b, {e \in Src : e.lo < w'.src}, w'.dst, w.cid)
            BY <1>1, <2>4, <3>1 DEF done
        <3>5. c \in S \cup {c} /\ d.lo = w'.src
            BY <1>4, <2>4
        <3>6. w'.src \in {a} \cup {e.hi : e \in Src}
            BY <1>1, <2>4
        <3> QED
            BY <1>10, <3>2, <3>3, <3>4, <3>5, <3>6 DEF Progress
    <2>10. \A e \in S \cup {c} : b <= e.lo /\ e.hi <= b + ActiveSize(Src)
        <3>1. \A e \in S : e.hi \in Nat
            BY DEF Extents, Extent
        <3> QED
            BY <1>2, <1>5, <2>2, <2>3, <3>1
    <2>11. fl' = (fl \ S) \cup (S \cup {c}) /\ S \cup {c} \in SUBSET fl'
        BY <2>6
    <2>12. (pc' = crcStep) = TRUE
        BY <2>1
    <2> QED
        BY <1>7, <1>8, <2>1, <2>4, <2>7, <2>9, <2>10, <2>11, <2>12 DEF CopyMade
<1> QED
    BY <1>9, <1>10

(* Some of the objects of a catalogue are one *)
LEMMA CatalogueSubset ==
    ASSUME NEW S, NEW a, Catalogue(S, a), NEW T, T \subseteq S
    PROVE  Catalogue(T, a)
BY DEF Catalogue

(* The local variables after a copy *)
LEMMA WorkCopied ==
    ASSUME w \in Works, NEW x \in 0..PartSize, NEW y \in 0..PartSize,
           w' = [w EXCEPT !.src = x, !.dst = y]
    PROVE  w' \in Works /\ w'.swap = w.swap /\ w'.src = x /\ w'.dst = y /\ w'.cid = w.cid
BY DEF Works

(* The copy whose CRC is missing: its source d, and the room it fits in *)
LEMMA UnfinishedCopy ==
    ASSUME Extents(fl), w \in Works,
           NEW Src, Src \subseteq fl, NEW a \in Nat, NEW end \in Nat, Area(Src, a, end),
           NEW S, S \subseteq fl, NEW b \in Nat, b + ActiveSize(Src) <= SwapLimit,
           Progress(w, TRUE, Src, a, S, b)
    PROVE  LET done == {e \in Src : e.lo < w.src}
           IN  \E d \in Src, c \in S, n \in 0..(w.cid - 1) :
             /\ d.lo = w.src /\ d.live /\ w.cid = n + 1 /\ w.cid <= MaxObjects
             /\ c = Obj(w.dst, SizeOf(d), w.cid, d.nm, d.vl, FALSE)
             /\ CopyOf(S \ {c}, b, done, w.dst, n)
             /\ \A e \in fl : e.lo = w.src => e = d
             /\ d.hi \in Nat /\ d.hi <= end /\ d.hi <= PartSize
             /\ {e \in Src : e.lo < d.hi} = done \cup {d}
             /\ d \notin done
             /\ n \in Nat /\ w.dst = b + ActiveSize(done)
             /\ \A e \in S \ {c} : b <= e.lo /\ e.hi <= w.dst
             /\ w.dst + SizeOf(d) <= b + ActiveSize(Src) /\ SizeOf(d) \in Nat /\ SizeOf(d) > 0
             /\ b <= w.dst /\ ActiveSize(Src) \in Nat
<1> DEFINE done == {e \in Src : e.lo < w.src}
<1>1. w.src \in {a} \cup {e.hi : e \in Src}
    BY DEF Progress
<1>2. /\ w.src \in Nat /\ w.dst \in Nat /\ w.cid \in Nat /\ PartSize \in Nat
      /\ SwapLimit \in Int /\ SwapLimit < PartSize
    BY PartSizeAssumption DEF Works, SwapLimit, DescSize
<1>3. PICK d \in Src, c \in S, n \in 0..(w.cid - 1) :
        /\ d.lo = w.src /\ d.live /\ w.cid = n + 1 /\ w.cid <= MaxObjects
        /\ c = Obj(w.dst, SizeOf(d), w.cid, d.nm, d.vl, FALSE)
        /\ CopyOf(S \ {c}, b, done, w.dst, n)
    BY DEF Progress
<1>4. /\ \A e \in fl : e.lo = w.src => e = d
      /\ d.hi \in Nat /\ d.hi <= end /\ d.hi <= PartSize
      /\ {e \in Src : e.lo < d.hi} = done \cup {d}
      /\ d \notin done
    <2>1. w.src < end
        <3>1. d.hi <= end
            BY DEF Area, Tiles
        <3>2. d.lo < d.hi /\ d.lo \in Nat /\ d.hi \in Nat
            BY DEF Extents, Extent
        <3> QED
            BY <1>3, <3>1, <3>2
    <2>2. PICK x \in Src :
                /\ x.lo = w.src /\ ObjectsAt(fl, w.src) = {x} /\ \A e \in fl : e.lo = w.src => e = x
                /\ ~TypeBlank(w.src) /\ x.hi \in Nat /\ x.hi <= end /\ x.hi <= PartSize
                /\ {e \in Src : e.lo < x.hi} = done \cup {x}
                /\ x \notin done
        BY <1>1, <2>1, SourceObject
    <2>3. x = d
        BY <1>3, <2>2
    <2> QED
        BY <2>2, <2>3
<1>5. n \in Nat /\ w.cid = n + 1 /\ w.cid <= MaxObjects
    BY <1>2, <1>3
<1>6. /\ w.dst = b + ActiveSize(done)
      /\ \A e \in S \ {c} : b <= e.lo /\ e.hi <= w.dst
      /\ w.dst + SizeOf(d) <= b + ActiveSize(Src) /\ SizeOf(d) \in Nat /\ SizeOf(d) > 0
      /\ b <= w.dst /\ ActiveSize(Src) \in Nat
    <2>1. ActiveSize(Src) \in Nat
        BY ExtentsSubset, SizeType
    <2>2. b + ActiveSize(Src) <= PartSize
        BY <1>2, <2>1
    <2> DEFINE R == S \ {c}
    <2>3. /\ done \subseteq Src /\ d \in Src \ done /\ R \subseteq fl /\ Src \subseteq fl
          /\ CopyOf(R, b, done, w.dst, n)
        BY <1>3, <1>4
    <2> HIDE DEF done, R
    <2>4. CopyRoom(Src, R, b, done, w.dst)
        BY <1>2, <1>5, <2>2, <2>3, CopyFits
    <2> QED
        BY <1>3, <2>1, <2>3, <2>4 DEF R, CopyRoom
<1> QED
    BY <1>3, <1>4, <1>5, <1>6

(* Every copy fits in the room for the copies *)
LEMMA CopyHasRoom ==
    ASSUME Extents(fl), w \in Works,
           NEW Src, Src \subseteq fl, NEW a \in Nat, NEW end \in Nat, Area(Src, a, end),
           NEW S, S \subseteq fl, NEW b \in Nat, b + ActiveSize(Src) <= SwapLimit,
           Progress(w, TRUE, Src, a, S, b), NEW e \in fl, e.lo = w.src
    PROVE  w.dst + SizeOf(e) <= b + ActiveSize(Src) /\ SizeOf(e) \in Nat
<1> DEFINE done == {x \in Src : x.lo < w.src}
<1>1. PICK d \in Src, c \in S, n \in 0..(w.cid - 1) :
             /\ d.lo = w.src /\ d.live /\ w.cid = n + 1 /\ w.cid <= MaxObjects
             /\ c = Obj(w.dst, SizeOf(d), w.cid, d.nm, d.vl, FALSE)
             /\ CopyOf(S \ {c}, b, done, w.dst, n)
             /\ \A x \in fl : x.lo = w.src => x = d
             /\ d.hi \in Nat /\ d.hi <= end /\ d.hi <= PartSize
             /\ {x \in Src : x.lo < d.hi} = done \cup {d}
             /\ d \notin done
             /\ n \in Nat /\ w.dst = b + ActiveSize(done)
             /\ \A x \in S \ {c} : b <= x.lo /\ x.hi <= w.dst
             /\ w.dst + SizeOf(d) <= b + ActiveSize(Src) /\ SizeOf(d) \in Nat /\ SizeOf(d) > 0
             /\ b <= w.dst /\ ActiveSize(Src) \in Nat
    BY UnfinishedCopy
<1>2. e = d
    BY <1>1
<1> QED
    BY <1>1, <1>2

(* The CRC of a copy *)
LEMMA CopyCrcIs ==
    ASSUME Extents(fl), w \in Works, NEW copyStep, NEW crcStep, copyStep # crcStep,
           NEW Src, Src \subseteq fl, NEW a \in Nat, NEW end \in Nat, Area(Src, a, end),
           NEW S, S \subseteq fl, NEW b \in Nat,
           b + ActiveSize(Src) <= SwapLimit, b + ActiveSize(Src) < DestLimit,
           Progress(w, TRUE, Src, a, S, b), CopyCrc(copyStep)
    PROVE  CopyMade(Src, a, S, b, crcStep, {copyStep})
<1> DEFINE done == {e \in Src : e.lo < w.src}
<1>1. w.src \in {a} \cup {e.hi : e \in Src}
    BY DEF Progress
<1>2. /\ w.src \in Nat /\ w.dst \in Nat /\ w.cid \in Nat /\ PartSize \in Nat
      /\ SwapLimit \in Int /\ SwapLimit < PartSize
    BY PartSizeAssumption DEF Works, SwapLimit, DescSize
<1>3. PICK d \in Src, c \in S, n \in 0..(w.cid - 1) :
             /\ d.lo = w.src /\ d.live /\ w.cid = n + 1 /\ w.cid <= MaxObjects
             /\ c = Obj(w.dst, SizeOf(d), w.cid, d.nm, d.vl, FALSE)
             /\ CopyOf(S \ {c}, b, done, w.dst, n)
             /\ \A e \in fl : e.lo = w.src => e = d
             /\ d.hi \in Nat /\ d.hi <= end /\ d.hi <= PartSize
             /\ {e \in Src : e.lo < d.hi} = done \cup {d}
             /\ d \notin done
             /\ n \in Nat /\ w.dst = b + ActiveSize(done)
             /\ \A e \in S \ {c} : b <= e.lo /\ e.hi <= w.dst
             /\ w.dst + SizeOf(d) <= b + ActiveSize(Src) /\ SizeOf(d) \in Nat /\ SizeOf(d) > 0
             /\ b <= w.dst /\ ActiveSize(Src) \in Nat
    BY UnfinishedCopy
<1>4. /\ \A e \in fl : e.lo = w.src => e = d
      /\ d.hi \in Nat /\ d.hi <= end /\ d.hi <= PartSize
      /\ {e \in Src : e.lo < d.hi} = done \cup {d}
      /\ d \notin done
    BY <1>3
<1>5. n \in Nat /\ w.cid = n + 1 /\ w.cid <= MaxObjects
    BY <1>3
<1>6. /\ w.dst = b + ActiveSize(done)
      /\ \A e \in S \ {c} : b <= e.lo /\ e.hi <= w.dst
      /\ w.dst + SizeOf(d) <= b + ActiveSize(Src) /\ SizeOf(d) \in Nat /\ SizeOf(d) > 0
      /\ b <= w.dst /\ ActiveSize(Src) \in Nat
    BY <1>3
<1> DEFINE to == w.dst + SizeOf(d)
           g  == [c EXCEPT !.good = TRUE]
<1>7. /\ c.lo = w.dst /\ c.hi = to /\ c.k = "obj" /\ c.id = w.cid /\ c.nm = d.nm /\ c.vl = d.vl
      /\ c.live /\ c \in Extent /\ c \in fl /\ c.lo < c.hi
    <2>1. c \in Extent /\ c \in fl /\ c.lo < c.hi
        BY DEF Extents
    <2>2. /\ c.lo = w.dst /\ c.hi = to /\ c.k = "obj" /\ c.id = w.cid /\ c.nm = d.nm
          /\ c.vl = d.vl /\ c.live
        BY <1>3 DEF Obj
    <2> QED
        BY <2>1, <2>2
<1>8. /\ g \in Extent /\ g.lo = w.dst /\ g.hi = to /\ g.k = "obj" /\ g.id = w.cid /\ g.nm = d.nm
      /\ g.vl = d.vl /\ g.live /\ g.good
    <2> HIDE DEF to
    <2> QED
        BY <1>7 DEF Extent
<1>9. ObjectsAt(fl, w.dst) = {c}
    <2>1. ASSUME NEW e \in fl, e.lo = w.dst PROVE e = c
        <3>1. e.lo \in Nat /\ e.hi \in Nat /\ e.lo < e.hi /\ (e = c \/ c.hi <= e.lo \/ e.hi <= c.lo)
            BY <1>7 DEF Extents, Extent
        <3>2. c.lo \in Nat /\ c.hi \in Nat
            BY <1>7 DEF Extent
        <3> HIDE DEF to, g
        <3> QED
            BY <1>7, <2>1, <3>1, <3>2
    <2> QED
        BY <1>7, <2>1 DEF ObjectsAt
<1>10. (CHOOSE e \in fl : e.lo = w.src) = d
    BY <1>3, <1>4
<1>11. d.good
    BY DEF Area, Catalogue
<1>12. /\ fl' = (fl \ {c}) \cup {g} /\ pc' = copyStep
       /\ w' = [w EXCEPT !.src = d.hi, !.dst = to]
       /\ UNCHANGED <<desc, total, free, high, st, op, ret>>
    <2>1. ~(to >= DestLimit)
        <3>1. DestLimit \in Int
            BY <1>2 DEF DestLimit, Works
        <3> QED
            BY <1>2, <1>6, <3>1
    <2> DEFINE src  == CHOOSE e \in fl : e.lo = w.src
               copy == ObjectsAt(fl, w.dst)
               crc  == {IF src.good THEN [e EXCEPT !.good = TRUE] ELSE Inactive(e) : e \in copy}
    <2>2. src = d /\ copy = {c}
        BY <1>9, <1>10
    <2>3. /\ fl' = (fl \ copy) \cup crc
          /\ UNCHANGED <<desc, total, free, high>>
          /\ IF w.dst + SizeOf(src) >= DestLimit
             THEN Fail
             ELSE /\ w' = [w EXCEPT !.src = src.hi, !.dst = w.dst + SizeOf(src)]
                  /\ pc' = copyStep
                  /\ UNCHANGED <<st, op, ret>>
        BY DEF CopyCrc
    <2>4. crc = {g}
        <3> HIDE DEF src, copy
        <3> QED
            BY <1>11, <2>2
    <2> HIDE DEF src, copy, crc, g
    <2> QED
        BY <2>1, <2>2, <2>3, <2>4
<1>13. to \in 0..PartSize /\ to \in Nat
    BY <1>2, <1>6
<1>14. w' \in Works /\ w'.swap = w.swap /\ w'.src = d.hi /\ w'.dst = to /\ w'.cid = w.cid
    <2>1. d.hi \in 0..PartSize
        BY <1>2, <1>4
    <2> HIDE DEF to, g
    <2> QED
        BY <1>12, <1>13, <2>1, WorkCopied
<1>15. Extents(fl')
    <2>1. Extents(fl \ {c})
        BY ExtentsSubset
    <2>2. g.lo < g.hi /\ g.hi <= PartSize /\ g.lo = c.lo /\ g.hi = c.hi
        <3>1. c.hi <= PartSize
            BY <1>7 DEF Extents
        <3> QED
            BY <1>7, <1>8, <3>1
    <2>3. \A e \in fl \ {c} : e.hi <= g.lo \/ g.hi <= e.lo
        BY <1>7, <2>2 DEF Extents
    <2> HIDE DEF g, to
    <2> QED
        BY <1>8, <1>12, <2>1, <2>2, <2>3, ExtentsAdd
<1> DEFINE S2 == (S \ {c}) \cup {g}
<1>16. fl' = (fl \ S) \cup S2 /\ S2 \in SUBSET fl'
    BY <1>7, <1>12
<1>17. \A e \in S2 : b <= e.lo /\ e.hi <= b + ActiveSize(Src)
    <2>1. \A e \in S \ {c} : e.hi \in Nat
        BY DEF Extents, Extent
    <2> HIDE DEF g
    <2>2. b <= g.lo /\ g.hi <= b + ActiveSize(Src)
        BY <1>6, <1>8
    <2>3. \A e \in S \ {c} : b <= e.lo /\ e.hi <= b + ActiveSize(Src)
        BY <1>2, <1>6, <2>1
    <2> QED
        BY <2>2, <2>3
<1>18. CopyOf(S2, b, done \cup {d}, to, w.cid)
    <2>1. Extents(S2)
        BY <1>15, <1>16, ExtentsSubset
    <2>2. done \cup {d} \subseteq Src /\ done \cup {d} \in SUBSET fl
        OBVIOUS
    <2>3. Extents(done \cup {d}) /\ Catalogue(done \cup {d}, a)
        BY <2>2, ExtentsSubset, CatalogueSubset DEF Area
    <2>4. to = w.dst + SizeOf(d)
        OBVIOUS
    <2> DEFINE R == S \ {c}
    <2>5. CopyOf(R, b, done, w.dst, n) /\ Extents(R \cup {g})
        BY <1>3, <2>1
    <2> HIDE DEF g, done, to, R
    <2>6. CopyOf(R \cup {g}, b, done \cup {d}, to, w.cid)
        BY <1>2, <1>3, <1>4, <1>5, <1>8, <2>3, <2>4, <2>5, CopyAdd
    <2> QED
        BY <2>6 DEF R
<1>19. Progress(w', FALSE, Src, a, S2, b)
    <2>1. CopyOf(S2, b, {e \in Src : e.lo < w'.src}, w'.dst, w'.cid)
        BY <1>4, <1>14, <1>18
    <2>2. w'.src \in {a} \cup {e.hi : e \in Src}
        BY <1>14
    <2> QED
        BY <2>1, <2>2 DEF Progress
<1>20. (pc' = crcStep) = FALSE
    BY <1>12
<1> QED
    BY <1>12, <1>14, <1>15, <1>16, <1>17, <1>19, <1>20 DEF CopyMade

(* While objects are copied to the swap area *)
LEMMA CopyingOut ==
    ASSUME Core, pc \in Copying1
    PROVE  LET O == Before(free)  S == From(w.swap)
           IN  /\ Extents(fl) /\ O \subseteq fl /\ S \subseteq fl
               /\ DataArea(fl, O, free) /\ Area(O, 0, free)
               /\ total = ActiveSize(O) /\ total < PlannedSwap(total) /\ Room(total, total)
               /\ ~Valid(desc) /\ desc \in Descriptors /\ TypeInv /\ CallInv /\ st # "down"
               /\ free \in Nat /\ total \in Nat /\ w \in Works /\ PartSize \in Nat /\ w.swap \in Nat
               /\ free <= w.swap /\ w.swap = SwapStart(total)
               /\ desc = [BlankDesc EXCEPT !.start = w.swap]
               /\ SwapData(w.swap) = w.swap + 4 /\ SwapData(w.swap) + total + 1 < SwapLimit
               /\ SwapLimit \in Int /\ SwapLimit < PartSize
               /\ \A e \in O : e.lo < free
               /\ \A r \in fl \ S : r.lo < w.swap /\ r.hi <= w.swap
               /\ Progress(w, pc = "c1crc", O, 0, S, SwapData(w.swap))
<1> DEFINE O == Before(free)
           s == w.swap
           S == From(s)
<1>1. /\ Extents(fl) /\ O \subseteq fl /\ DataArea(fl, O, free) /\ total = ActiveSize(O)
      /\ total < PlannedSwap(total) /\ Room(total, total) /\ ~Valid(desc)
      /\ TypeInv /\ CallInv /\ st # "down" /\ free \in Nat /\ total \in Nat /\ w \in Works
      /\ PartSize \in Nat /\ desc \in Descriptors
      /\ free <= SwapStart(total) /\ PlannedSwap(total) <= SwapStart(total)
      /\ SwapStart(total) \in Int /\ PlannedSwap(total) \in Int /\ SwapStart(total) >= 0
      /\ \A e \in O : e.lo < free /\ e.hi <= free
    BY SavingMeans DEF Saving
<1>2. /\ s = SwapStart(total) /\ desc = [BlankDesc EXCEPT !.start = s]
      /\ SwapData(s) + total + 1 < SwapLimit
    BY DEF Core, SavingInv, Saving
<1>3. Progress(w, pc = "c1crc", O, 0, S, SwapData(s))
    BY DEF Core, CopyInv1
<1>4. S \subseteq fl /\ \A r \in fl \ S : ~(r.lo >= s)
    BY DEF From
<1> HIDE DEF s, S, O
<1>5. ASSUME NEW r \in fl \ S PROVE r.lo < s /\ r.hi <= s
    <2>1. r.lo \in Nat /\ r.hi \in Nat /\ r.lo < s
        BY <1>1, <1>2, <1>4 DEF Extents, Extent
    <2>2. CASE r \in O
        BY <1>1, <1>2, <2>1, <2>2
    <2>3. CASE r \notin O
        <3>1. Unfinished(r, O, free) \/ Residue(r, O)
            BY <1>1, <2>3 DEF DataArea
        <3>2. ~Residue(r, O)
            BY <1>1, <1>2, <2>1 DEF Residue, Demarc
        <3>3. Unfinished(r, O, free)
            BY <3>1, <3>2
        <3> QED
            BY <1>1, <1>2, <2>1, <3>3 DEF Unfinished
    <2> QED
        BY <2>2, <2>3
<1>6. Area(O, 0, free)
    BY <1>1 DEF DataArea
<1>7. /\ SwapData(s) = s + 4 /\ SwapLimit \in Int /\ SwapLimit < PartSize
    BY <1>1 DEF SwapData, Demarc, SwapLimit, DescSize
<1>8. s \in Nat /\ free <= s
    BY <1>1, <1>2
<1> QED
    BY <1>1, <1>2, <1>3, <1>4, <1>5, <1>6, <1>7, <1>8 DEF s, S, O

(* The copies in the swap area change *)
LEMMA CopyOutStep ==
    ASSUME Core, pc \in Copying1, UNCHANGED <<desc, total, free, high, st, op, ret>>,
           Extents(fl'), w' \in Works, w'.swap = w.swap, pc' \in Copying1,
           NEW S2 \in SUBSET fl', fl' = (fl \ From(w.swap)) \cup S2,
           \A e \in S2 : SwapData(w.swap) <= e.lo,
           Progress(w', pc' = "c1crc", Before(free), 0, S2, SwapData(w.swap)),
           pc' = "c1mark" => w'.src = free
    PROVE  /\ Core' /\ Durable' = Durable /\ Occupied' = Occupied
           /\ UNCHANGED <<total, free, st, op, ret>> /\ pc' \in Copying1
<1> DEFINE O == Before(free)
           s == w.swap
           S == From(s)
<1>1. /\ Extents(fl) /\ O \subseteq fl /\ S \subseteq fl
      /\ DataArea(fl, O, free) /\ Area(O, 0, free)
      /\ total = ActiveSize(O) /\ total < PlannedSwap(total) /\ Room(total, total)
      /\ ~Valid(desc) /\ desc \in Descriptors /\ TypeInv /\ CallInv /\ st # "down"
      /\ free \in Nat /\ total \in Nat /\ w \in Works /\ PartSize \in Nat /\ s \in Nat
      /\ free <= s /\ s = SwapStart(total)
      /\ desc = [BlankDesc EXCEPT !.start = s]
      /\ SwapData(s) = s + 4 /\ SwapData(s) + total + 1 < SwapLimit
      /\ \A e \in O : e.lo < free
      /\ \A r \in fl \ S : r.lo < s /\ r.hi <= s
    BY CopyingOut
<1>2. fl' = (fl \ S) \cup S2 /\ \A e \in S2 : e.lo >= s + 4 /\ e.lo \in Nat
    BY <1>1 DEF Extents, Extent
<1>3. Progress(w', pc' = "c1crc", O, 0, S2, SwapData(s))
    OBVIOUS
<1>4. \A e \in fl : e.lo \in Nat
    BY <1>1 DEF Extents, Extent
<1>5. \A e \in O : e \notin S
    BY <1>1, <1>4 DEF From
<1>6. \A r \in fl \ O : ~(r.lo < free)
    BY DEF Before
<1>7. w'.swap = s
    OBVIOUS
<1> HIDE DEF O, s, S
<1>8. O \subseteq fl'
    BY <1>1, <1>2, <1>5
<1>9. \A r \in fl' \ O : Unfinished(r, O, free) \/ Residue(r, O)
    <2>1. \A r \in S2 : Residue(r, O)
        BY <1>1, <1>2 DEF Residue, Demarc
    <2>2. \A r \in fl \ O : Unfinished(r, O, free) \/ Residue(r, O)
        BY <1>1 DEF DataArea
    <2> QED
        BY <1>2, <2>1, <2>2
<1>10. DataArea(fl', O, free)
    BY <1>1, <1>8, <1>9 DEF DataArea
<1>11. Durable' = Durable /\ Occupied' = Occupied
    BY <1>1, <1>8, <1>10, DataKept
<1>12. Before(free)' = O
    <2>1. Before(free)' = {e \in fl' : e.lo < free}
        BY DEF Before
    <2>2. \A e \in S2 : ~(e.lo < free)
        BY <1>1, <1>2
    <2> QED
        BY <1>1, <1>2, <1>6, <1>8, <2>1, <2>2
<1>13. From(w.swap)' = S2
    <2>1. From(w.swap)' = {e \in fl' : e.lo >= s}
        BY <1>7 DEF From
    <2>2. \A e \in fl \ S : ~(e.lo >= s)
        BY <1>1, <1>4
    <2> QED
        BY <1>1, <1>2, <2>1, <2>2
<1>14. SavingInv'
    <2>1. Room(total, total)'
        BY <1>1 DEF Room
    <2>2. DataArea(fl, Before(free), free)' /\ total' = ActiveSize(Before(free)')
        BY <1>1, <1>10, <1>12
    <2> QED
        BY <1>1, <1>7, <2>1, <2>2 DEF SavingInv, Copying1
<1>15. CopyInv1'
    <2>1. Progress(w, pc = "c1crc", Before(free), 0, From(w.swap), SwapData(w.swap))'
        BY <1>3, <1>7, <1>12, <1>13
    <2> QED
        BY <2>1 DEF CopyInv1
<1>16. TypeInv'
    BY <1>1 DEF TypeInv, Places, Copying1
<1>17. CallInv'
    BY <1>1 DEF CallInv, Saving, Moving, Copying1, Copying2
<1> QED
    BY <1>1, <1>11, <1>14, <1>15, <1>16, <1>17, Elsewhere DEF Core, Saving, Copying1, Copying2, Moving

(* When psm_copy_all_objects stops, it has come to the end of the objects *)
LEMMA CopyEnds ==
    ASSUME Extents(fl), NEW Src, Src \subseteq fl, NEW a \in Nat, NEW end \in Nat, Area(Src, a, end),
           NEW S, NEW b, Progress(w, FALSE, Src, a, S, b),
           SourceLimit \in Int, end <= SourceLimit, CopyDone \/ CopyStopsAtDead
    PROVE  w.src = end
<1>1. w.src \in {a} \cup {e.hi : e \in Src}
    BY DEF Progress
<1>2. w.src \in Nat /\ w.src <= end
    BY <1>1, SourceObject
<1>3. ASSUME w.src < end PROVE FALSE
    <2>1. PICK d \in Src :
            /\ d.lo = w.src /\ ObjectsAt(fl, w.src) = {d} /\ \A e \in fl : e.lo = w.src => e = d
            /\ ~TypeBlank(w.src) /\ d.hi \in Nat /\ d.hi <= end /\ d.hi <= PartSize
            /\ {e \in Src : e.lo < d.hi} = {e \in Src : e.lo < w.src} \cup {d}
            /\ d \notin {e \in Src : e.lo < w.src}
        BY <1>1, <1>3, SourceObject
    <2>2. d.k = "obj"
        BY DEF Area, Tiles
    <2>3. ~CopyStopsAtDead
        BY <2>1, <2>2 DEF CopyStopsAtDead
    <2>4. ~CopyDone
        BY <1>2, <1>3, <2>1 DEF CopyDone
    <2> QED
        BY <2>3, <2>4
<1> QED
    BY <1>2, <1>3

(* CHECKPOINT_1: the copies to the swap area *)
LEMMA CopyToSwapKeeps ==
    ASSUME Core, IdsLeft, CopyToSwap
    PROVE  /\ Core' /\ Durable' = Durable /\ Occupied' = Occupied
           /\ UNCHANGED <<total, free, st, op, ret>> /\ pc' \in Copying1
<1> DEFINE O == Before(free)
           s == w.swap
           S == From(s)
           b == SwapData(s)
<1>1. pc \in {"c1copy", "c1crc"} /\ pc \in Copying1
    BY DEF CopyToSwap, Copying1
<1>2. /\ Extents(fl) /\ O \subseteq fl /\ S \subseteq fl
      /\ DataArea(fl, O, free) /\ Area(O, 0, free)
      /\ total = ActiveSize(O) /\ TypeInv
      /\ free \in Nat /\ total \in Nat /\ w \in Works /\ s \in Nat
      /\ b = s + 4 /\ b + total + 1 < SwapLimit /\ SwapLimit \in Int
      /\ \A r \in fl \ S : r.hi <= s
      /\ Progress(w, pc = "c1crc", O, 0, S, b)
    BY <1>1, CopyingOut
<1> HIDE DEF O, S
<1>3. /\ b \in Nat /\ b + ActiveSize(O) <= SwapLimit /\ b + ActiveSize(O) < SwapLimit
      /\ \A e \in fl \ S : e.hi <= b \/ e.lo >= b + ActiveSize(O)
    <2>1. \A e \in fl \ S : e.hi \in Nat
        BY <1>2 DEF Extents, Extent
    <2> HIDE DEF s, b
    <2> QED
        BY <1>2, <2>1
<1>4. CASE pc = "c1copy" /\ CopyBody("c1crc")
    <2>1. SourceLimit = free /\ free <= SourceLimit /\ (w.src >= free => CopyDone)
        BY <1>2, <1>4 DEF SourceLimit, CopyDone
    <2>2. Progress(w, FALSE, O, 0, S, b) /\ pc # "c1crc" /\ w.cid < MaxObjects
        BY <1>2, <1>4 DEF IdsLeft
    <2> HIDE DEF b
    <2>3. CopyMade(O, 0, S, b, "c1crc", {pc, "c1crc"})
        BY <1>2, <1>3, <1>4, <2>1, <2>2, CopyBodyIs
    <2>4. PICK S2 \in SUBSET fl' :
               /\ fl' = (fl \ S) \cup S2
               /\ \A e \in S2 : b <= e.lo
               /\ Progress(w', pc' = "c1crc", O, 0, S2, b)
        BY <2>3 DEF CopyMade
    <2>5. pc' \in Copying1 /\ pc' # "c1mark"
        BY <1>4, <2>3 DEF Copying1, CopyMade
    <2> QED
        BY <1>1, <2>3, <2>4, <2>5, CopyOutStep DEF O, S, b, CopyMade
<1>5. CASE pc = "c1crc" /\ CopyCrc("c1copy")
    <2>1. DestLimit = SwapLimit
        BY <1>5 DEF DestLimit
    <2>2. Progress(w, TRUE, O, 0, S, b)
        BY <1>2, <1>5
    <2> HIDE DEF b
    <2>3. CopyMade(O, 0, S, b, "c1crc", {"c1copy"})
        BY <1>2, <1>3, <1>5, <2>1, <2>2, CopyCrcIs
    <2>4. PICK S2 \in SUBSET fl' :
               /\ fl' = (fl \ S) \cup S2
               /\ \A e \in S2 : b <= e.lo
               /\ Progress(w', pc' = "c1crc", O, 0, S2, b)
        BY <2>3 DEF CopyMade
    <2>5. pc' \in Copying1 /\ pc' # "c1mark"
        BY <2>3 DEF Copying1, CopyMade
    <2> QED
        BY <1>1, <2>3, <2>4, <2>5, CopyOutStep DEF O, S, b, CopyMade
<1>6. CASE /\ pc = "c1copy" /\ (CopyDone \/ CopyStopsAtDead)
           /\ pc' = "c1mark"
           /\ UNCHANGED <<fl, desc, total, free, high, st, op, ret, w>>
    <2>1. Progress(w, FALSE, O, 0, S, b)
        BY <1>2, <1>6
    <2>2. w.src = free
        <3>1. SourceLimit = free /\ free \in Int /\ free <= free
            BY <1>2, <1>6 DEF SourceLimit
        <3> QED
            BY <1>2, <1>6, <2>1, <3>1, CopyEnds
    <2>3. fl' = (fl \ S) \cup S /\ S \in SUBSET fl' /\ \A e \in S : b <= e.lo
        <3>1. fl' = (fl \ S) \cup S /\ S \in SUBSET fl'
            BY <1>2, <1>6
        <3>2. Tiles(S, b, w.dst)
            BY <2>1 DEF Progress, CopyOf, Area
        <3>3. \A e \in S : b <= e.lo
            BY <3>2 DEF Tiles
        <3> QED
            BY <3>1, <3>3
    <2>4. pc' \in Copying1 /\ (pc' = "c1crc") = FALSE
        BY <1>6 DEF Copying1
    <2>5. Progress(w', pc' = "c1crc", O, 0, S, b)
        BY <1>6, <2>1, <2>4
    <2>6. Extents(fl') /\ w' \in Works /\ w'.swap = w.swap /\ w'.src = free
        BY <1>2, <1>6, <2>2
    <2> HIDE DEF b
    <2> QED
        BY <1>1, <1>6, <2>3, <2>4, <2>5, <2>6, CopyOutStep DEF O, S, b
<1> QED
    BY <1>4, <1>5, <1>6 DEF CopyToSwap

(* While objects are copied back *)
LEMMA CopyingBack ==
    ASSUME Core, pc \in Copying2
    PROVE  LET C == From(w.swap)  S == Before(w.swap)  t == ActiveSize(C)
           IN  /\ Extents(fl) /\ C \subseteq fl /\ S \subseteq fl /\ fl \ C = S /\ fl \ S = C
               /\ Valid(desc) /\ desc \in Descriptors /\ desc.start = w.swap
               /\ SwapArea(fl, C, w.swap) /\ Area(C, SwapData(w.swap), SwapData(w.swap) + t)
               /\ Room(t, t) /\ TypeInv /\ CallInv /\ st # "down"
               /\ w \in Works /\ PartSize \in Nat /\ w.swap \in Nat /\ t \in Nat
               /\ SwapData(w.swap) = w.swap + 4 /\ SwapData(w.swap) + t + 1 < SwapLimit
               /\ SwapLimit \in Int /\ SwapLimit < PartSize /\ t < w.swap
               /\ \A e \in C : e.lo >= w.swap + 4 /\ e.hi <= w.swap + 4 + t
               /\ \A r \in S : r.lo < w.swap /\ r.hi <= w.swap
               /\ Progress(w, pc = "c2crc", C, SwapData(w.swap), S, 0)
<1> DEFINE s == w.swap
           C == From(s)
           S == Before(s)
           t == ActiveSize(C)
<1>1. /\ Extents(fl) /\ C \subseteq fl /\ Valid(desc) /\ desc \in Descriptors
      /\ desc.start = s /\ s \in Nat /\ w \in Works
      /\ SwapArea(fl, C, s) /\ Room(t, t)
      /\ fl \ C = S /\ TypeInv /\ CallInv /\ st # "down"
    BY MovingMeans DEF Moving
<1>2. Progress(w, pc = "c2crc", C, SwapData(s), S, 0)
    BY DEF Core, CopyInv2
<1>3. /\ t \in Nat /\ SwapData(s) = s + 4 /\ t < PlannedSwap(t) /\ PlannedSwap(t) <= s
      /\ PlannedSwap(t) \in Int
      /\ SwapData(s) + t + 1 < SwapLimit /\ SwapLimit \in Int /\ SwapLimit < PartSize
      /\ \A e \in C : e.lo >= s + 4 /\ e.hi <= s + 4 + t
      /\ \A r \in fl \ C : r.hi <= s /\ r.lo < s
    BY <1>1, SwapAreaFacts
<1>4. Area(C, SwapData(s), SwapData(s) + t)
    BY <1>1 DEF SwapArea
<1>5. S \subseteq fl /\ fl \ S = C
    BY <1>1
<1> HIDE DEF s, C, S
<1>6. t < s /\ \A r \in S : r.lo < s /\ r.hi <= s
    BY <1>1, <1>3
<1> QED
    BY <1>1, <1>2, <1>3, <1>4, <1>5, <1>6, PartSizeAssumption DEF s, C, S

(* The copies in the data area change *)
LEMMA CopyBackStep ==
    ASSUME Core, pc \in Copying2, UNCHANGED <<desc, total, free, high, st, op, ret>>,
           Extents(fl'), w' \in Works, w'.swap = w.swap, pc' \in Copying2,
           NEW S2 \in SUBSET fl', fl' = (fl \ Before(w.swap)) \cup S2,
           \A e \in S2 : e.hi <= 0 + ActiveSize(From(w.swap)),
           Progress(w', pc' = "c2crc", From(w.swap), SwapData(w.swap), S2, 0),
           pc' = "c2inval" => w'.src = SwapData(w.swap) + ActiveSize(From(w.swap))
    PROVE  /\ Core' /\ Durable' = Durable /\ Occupied' = Occupied
           /\ UNCHANGED <<total, free, st, op, ret>> /\ pc' \in Copying2
<1> DEFINE s == w.swap
           C == From(s)
           S == Before(s)
           t == ActiveSize(C)
<1>1. /\ Extents(fl) /\ C \subseteq fl /\ S \subseteq fl /\ fl \ C = S /\ fl \ S = C
      /\ Valid(desc) /\ desc \in Descriptors /\ desc.start = s
      /\ SwapArea(fl, C, s)
      /\ Room(t, t) /\ TypeInv /\ CallInv /\ st # "down"
      /\ w \in Works /\ s \in Nat /\ t \in Nat /\ t < s
      /\ \A e \in C : e.lo >= s + 4
    BY CopyingBack
<1>2. /\ fl' = C \cup S2
      /\ \A e \in S2 : e.lo \in Nat /\ e.hi \in Nat /\ e.lo < e.hi
      /\ \A e \in S2 : e.hi <= 0 + t
    BY <1>1 DEF Extents, Extent
<1>3. Progress(w', pc' = "c2crc", C, SwapData(s), S2, 0)
    OBVIOUS
<1>4. w'.swap = s /\ (pc' = "c2inval" => w'.src = SwapData(s) + t)
    OBVIOUS
<1>5. \A e \in C : e.lo \in Nat
    BY <1>1 DEF Extents, Extent
<1> HIDE DEF C, s, S
<1>6. \A e \in S2 : e.lo < s /\ e.hi <= s
    <2> HIDE DEF t
    <2> QED
        BY <1>1, <1>2
<1>7. SwapArea(fl', C, s)
    <2>1. C \subseteq fl' /\ \A r \in fl' \ C : r.hi <= s
        BY <1>2, <1>6
    <2> QED
        BY <1>1, <2>1 DEF SwapArea
<1>8. Durable' = Durable /\ Occupied' = Occupied
    <2>1. SwapArea(fl, C, desc.start) /\ SwapArea(fl', C, desc.start) /\ C \subseteq fl'
        BY <1>1, <1>2, <1>7
    <2>2. C \in SUBSET fl /\ desc' = desc
        BY <1>1
    <2> QED
        BY <1>1, <2>1, <2>2, SwapKept
<1>9. From(w.swap)' = C
    <2>1. From(w.swap)' = {e \in fl' : e.lo >= s}
        BY <1>4 DEF From
    <2>2. \A e \in S2 : ~(e.lo >= s)
        BY <1>1, <1>2, <1>6
    <2>3. \A e \in C : e.lo >= s
        BY <1>1, <1>5
    <2> QED
        BY <1>2, <2>1, <2>2, <2>3
<1>10. Before(w.swap)' = S2
    <2>1. Before(w.swap)' = {e \in fl' : e.lo < s}
        BY <1>4 DEF Before
    <2>2. \A e \in C : ~(e.lo < s)
        BY <1>1, <1>5
    <2> QED
        BY <1>2, <1>6, <2>1, <2>2
<1>11. MovingInv'
    <2>1. op'.kind = "set" => ActiveSize(C) + ObjSize(op'.max) <= PlannedSwap(ActiveSize(C) + ObjSize(op'.max))
        BY <1>1 DEF Room
    <2>2. Valid(desc') /\ desc'.start = s /\ pc' # "c2erase"
        BY <1>1 DEF Copying2
    <2> QED
        BY <1>4, <1>7, <1>9, <2>1, <2>2 DEF MovingInv, Room
<1>12. CopyInv2'
    <2>1. Progress(w, pc = "c2crc", From(w.swap), SwapData(w.swap), Before(w.swap), 0)'
        BY <1>3, <1>4, <1>9, <1>10
    <2>2. (pc = "c2inval" => w.src = SwapData(w.swap) + ActiveSize(From(w.swap)))'
        BY <1>4, <1>9
    <2> QED
        BY <2>1, <2>2 DEF CopyInv2
<1>13. TypeInv'
    BY <1>1 DEF TypeInv, Places, Copying2
<1>14. CallInv'
    BY <1>1 DEF CallInv, Saving, Moving, Copying1, Copying2
<1> QED
    BY <1>1, <1>8, <1>11, <1>12, <1>13, <1>14, Elsewhere DEF Core, Saving, Copying1, Copying2, Moving

(* The copies do not go beyond the objects *)
LEMMA SourceInside ==
    ASSUME Extents(fl), NEW Src, Src \subseteq fl, NEW a \in Nat, NEW end \in Nat, Area(Src, a, end),
           NEW S, NEW b, Progress(w, FALSE, Src, a, S, b)
    PROVE  w.src \in Nat /\ w.src <= end
<1>1. w.src \in {a} \cup {e.hi : e \in Src}
    BY DEF Progress
<1> QED
    BY <1>1, SourceObject

(* CHECKPOINT_2: the copies to the data area *)
LEMMA CopyToDataKeeps ==
    ASSUME Core, IdsLeft, CopyToData
    PROVE  /\ Core' /\ Durable' = Durable /\ Occupied' = Occupied
           /\ UNCHANGED <<total, free, st, op, ret>> /\ pc' \in Copying2
<1> DEFINE s == w.swap
           C == From(s)
           S == Before(s)
           t == ActiveSize(C)
           a == SwapData(s)
           end == a + t
<1>1. pc \in {"c2copy", "c2crc"} /\ pc \in Copying2
    BY DEF CopyToData, Copying2
<1>2. /\ Extents(fl) /\ C \subseteq fl /\ S \subseteq fl /\ fl \ S = C
      /\ Area(C, a, end)
      /\ w \in Works /\ PartSize \in Nat /\ s \in Nat /\ t \in Nat /\ t < s
      /\ a = s + 4 /\ a + t + 1 < SwapLimit
      /\ SwapLimit \in Int /\ SwapLimit < PartSize
      /\ \A e \in C : e.lo >= s + 4 /\ e.hi <= s + 4 + t
      /\ \A r \in S : r.lo < s /\ r.hi <= s
      /\ Progress(w, pc = "c2crc", C, a, S, 0)
    BY <1>1, CopyingBack
<1>3. \A e \in fl : e.lo \in Nat /\ e.hi \in Nat
    BY <1>2 DEF Extents, Extent
<1> HIDE DEF C, S, s
<1>4. a \in Nat /\ end \in Nat /\ end < SwapLimit /\ end + 1 # SwapLimit /\ end = s + 4 + t
    <2> HIDE DEF a, t
    <2> QED
        BY <1>2
<1>5. 0 \in Nat /\ 0 + t <= SwapLimit /\ 0 + t < s /\ 0 + t <= PartSize
    <2> HIDE DEF a, t
    <2> QED
        BY <1>2
<1>6. \A e \in fl \ S : e.hi <= 0 \/ e.lo >= 0 + t
    <2>1. \A e \in C : e.lo >= 0 + t
        <3> HIDE DEF a, t
        <3> QED
            BY <1>2, <1>3
    <2> QED
        BY <1>2, <2>1
<1>7. CASE pc = "c2copy" /\ CopyBody("c2crc")
    <2>1. Progress(w, FALSE, C, a, S, 0) /\ pc # "c2crc" /\ w.cid < MaxObjects
        BY <1>2, <1>7 DEF IdsLeft
    <2>2. w.src >= end => CopyDone
        <3> SUFFICES ASSUME w.src >= end PROVE CopyDone
            OBVIOUS
        <3> HIDE DEF end, a
        <3>3. w.src = end
            <4>1. w.src \in Nat /\ w.src <= end
                BY <1>2, <1>4, <2>1, SourceInside
            <4> QED
                BY <1>4, <4>1
        <3>5. IsBlank(fl, end, end + 2)
            <4>1. \A e \in fl : e.hi <= end
                <5> HIDE DEF t
                <5> QED
                    BY <1>2, <1>3, <1>4
            <4> HIDE DEF t
            <4> QED
                BY <1>3, <1>4, <4>1 DEF IsBlank, Overlaps
        <3> QED
            BY <1>4, <2>1, <3>3, <3>5 DEF CopyDone, TypeBlank
    <2>3. end <= SourceLimit
        <3>1. SourceLimit = SwapLimit
            BY <1>7 DEF SourceLimit
        <3> HIDE DEF end
        <3> QED
            BY <1>2, <1>4, <3>1
    <2> HIDE DEF end, a
    <2>4. CopyMade(C, a, S, 0, "c2crc", {pc, "c2crc"})
        BY <1>2, <1>4, <1>5, <1>6, <1>7, <2>1, <2>2, <2>3, CopyBodyIs
    <2>5. PICK S2 \in SUBSET fl' :
               /\ fl' = (fl \ S) \cup S2
               /\ \A e \in S2 : e.hi <= 0 + t
               /\ Progress(w', pc' = "c2crc", C, a, S2, 0)
        BY <2>4 DEF CopyMade
    <2>6. pc' \in Copying2 /\ pc' # "c2inval"
        BY <1>7, <2>4 DEF Copying2, CopyMade
    <2> QED
        BY <1>1, <2>4, <2>5, <2>6, CopyBackStep DEF C, S, s, a, CopyMade
<1>8. CASE pc = "c2crc" /\ CopyCrc("c2copy")
    <2>1. DestLimit = s
        BY <1>8 DEF DestLimit, s
    <2>2. Progress(w, TRUE, C, a, S, 0)
        BY <1>2, <1>8
    <2> HIDE DEF end, a
    <2>3. CopyMade(C, a, S, 0, "c2crc", {"c2copy"})
        BY <1>2, <1>4, <1>5, <1>8, <2>1, <2>2, CopyCrcIs
    <2>4. PICK S2 \in SUBSET fl' :
               /\ fl' = (fl \ S) \cup S2
               /\ \A e \in S2 : e.hi <= 0 + t
               /\ Progress(w', pc' = "c2crc", C, a, S2, 0)
        BY <2>3 DEF CopyMade
    <2>5. pc' \in Copying2 /\ pc' # "c2inval"
        BY <2>3 DEF Copying2, CopyMade
    <2> QED
        BY <1>1, <2>3, <2>4, <2>5, CopyBackStep DEF C, S, s, a, CopyMade
<1>9. CASE /\ pc = "c2copy" /\ (CopyDone \/ CopyStopsAtDead)
           /\ pc' = "c2inval"
           /\ UNCHANGED <<fl, desc, total, free, high, st, op, ret, w>>
    <2>1. Progress(w, FALSE, C, a, S, 0)
        BY <1>2, <1>9
    <2>2. w.src = end
        <3>1. SourceLimit = SwapLimit
            BY <1>9 DEF SourceLimit
        <3> HIDE DEF end, a
        <3>2. SourceLimit \in Int /\ end <= SourceLimit
            BY <1>2, <1>4, <3>1
        <3> QED
            BY <1>2, <1>4, <1>9, <2>1, <3>2, CopyEnds
    <2>3. fl' = (fl \ S) \cup S /\ S \in SUBSET fl'
        BY <1>2, <1>9
    <2>4. \A e \in S : e.hi <= 0 + t
        <3>1. CopyOf(S, 0, {e \in C : e.lo < w.src}, w.dst, w.cid)
            BY <2>1 DEF Progress
        <3> DEFINE D == {e \in C : e.lo < w.src}
        <3>2. D \subseteq C /\ w.dst \in Nat /\ w.cid \in Nat
            BY <1>2 DEF Works
        <3> HIDE DEF D, a, end
        <3>3. CopyRoom(C, S, 0, D, w.dst)
            BY <1>2, <1>5, <3>1, <3>2, CopyFits DEF D
        <3>4. w.dst <= 0 + t /\ \A e \in S : e.hi <= w.dst
            BY <3>3 DEF CopyRoom
        <3>5. \A e \in S : e.hi \in Nat
            BY <1>2, <1>3
        <3> HIDE DEF t
        <3> QED
            BY <1>2, <3>2, <3>4, <3>5
    <2>5. pc' \in Copying2 /\ (pc' = "c2crc") = FALSE
        BY <1>9 DEF Copying2
    <2>6. Progress(w', pc' = "c2crc", C, a, S, 0)
        BY <1>9, <2>1, <2>5
    <2>7. Extents(fl') /\ w' \in Works /\ w'.swap = w.swap /\ w'.src = a + t
        BY <1>2, <1>9, <2>2
    <2> HIDE DEF end, a
    <2> QED
        BY <1>1, <1>9, <2>3, <2>4, <2>5, <2>6, <2>7, CopyBackStep DEF C, S, s, a
<1> QED
    BY <1>7, <1>8, <1>9 DEF CopyToData

-----------------------------------------------------------------------------
(***************************************************************************)
(* Power failures                                                          *)
(***************************************************************************)
(* The flash is left with the contents it had, in a state that a recovery  *)
(* understands *)
Survives == Extents(fl') /\ Recoverable(fl', desc') /\ Durable' = Durable /\ Occupied' = Occupied

(* A power failure while the data area is the good one *)
LEMMA SurvivesAsData ==
    ASSUME NEW O, O \subseteq fl, O \subseteq fl', NEW end \in Nat, end <= PartSize,
           Extents(fl), Extents(fl'), DataArea(fl, O, end), DataArea(fl', O, end),
           ~Valid(desc), ~Valid(desc'),
           desc' = BlankDesc => \A r \in fl' \ O : Unfinished(r, O, end)
    PROVE  Survives
<1>1. Durable' = Durable /\ Occupied' = Occupied
    BY DataKept
<1>2. end \in 0..PartSize /\ O \in SUBSET fl'
    BY PartSizeAssumption
<1>3. Recoverable(fl', desc')
    BY <1>2 DEF Recoverable
<1> QED
    BY <1>1, <1>3 DEF Survives

(* A power failure while the swap area is the good one *)
LEMMA SurvivesAsSwap ==
    ASSUME NEW C, C \subseteq fl, Extents(fl), fl' = fl, desc' = desc, Valid(desc),
           SwapArea(fl, C, desc.start)
    PROVE  Survives
<1>1. Durable' = Durable /\ Occupied' = Occupied
    BY DurableSame
<1>2. Recoverable(fl', desc')
    BY DEF Recoverable
<1> QED
    BY <1>1, <1>2 DEF Survives

(* What a power failure may have left of the step that was next *)
LEMMA CrashMeans ==
    ASSUME Core, Crash, FormatIsSafe
    PROVE  /\ st \in {"init", "up"} /\ pc \in Places /\ pc # "fmt" /\ TypeInv /\ CallInv
           /\ Extents(fl) /\ desc \in Descriptors /\ PartSize \in Nat /\ free \in Nat /\ free <= PartSize
           /\ desc' \in Descriptors
           /\ pc # "hdr" => fl' = fl
           /\ pc \notin {"c0desc", "c1mark", "c2inval"} => desc' = desc
           /\ pc \in {"c0desc", "c2inval"} => desc' = desc \/ desc' = [desc EXCEPT !.start = BadStart]
           /\ pc = "c1mark" => desc' = desc \/ desc' = [desc EXCEPT !.mark = "bad"]
<1>1. TypeInv /\ CallInv
    BY DEF Core
<1>2. /\ Extents(fl) /\ desc \in Descriptors /\ pc \in Places /\ free \in Nat /\ free <= PartSize
      /\ PartSize \in Nat
    BY <1>1, PartSizeAssumption DEF TypeInv
<1>3. st \in {"init", "up"} /\ pc \in FailPlaces /\ pc # "fmt"
    BY DEF Crash, FormatIsSafe
<1>4. /\ pc # "hdr" => fl' = fl
      /\ pc \notin {"c0desc", "c1mark", "c2inval"} => desc' = desc
      /\ pc \in {"c0desc", "c2inval"} => desc' = desc \/ desc' = [desc EXCEPT !.start = BadStart]
      /\ pc = "c1mark" => desc' = desc \/ desc' = [desc EXCEPT !.mark = "bad"]
    BY DEF Crash, TornDesc
<1>5. desc' \in Descriptors
    <2>1. /\ [desc EXCEPT !.start = BadStart] \in Descriptors
          /\ [desc EXCEPT !.mark = "bad"] \in Descriptors
        BY <1>2 DEF Descriptors
    <2> QED
        BY <1>2, <1>4, <2>1
<1> QED
    BY <1>1, <1>2, <1>3, <1>4, <1>5

(* A power failure when nothing is written *)
LEMMA CrashIdle ==
    ASSUME Core, Crash, FormatIsSafe, pc \in {"idle", "refuse", "del"}
    PROVE  Survives
<1>1. /\ st \in {"init", "up"} /\ TypeInv /\ CallInv
      /\ Extents(fl) /\ PartSize \in Nat /\ fl' = fl /\ desc' = desc
    BY CrashMeans
<1>2. st = "up"
    BY <1>1 DEF CallInv, NoCall
<1>3. Counted(fl)
    BY <1>2 DEF Core, ReadyInv
<1>4. DataArea(fl, fl, free) /\ ~Valid(desc) /\ free \in Nat /\ free < PartSize
    BY <1>1, <1>3, CountedFacts
<1> QED
    BY <1>1, <1>4, SurvivesAsData

(* A power failure inside the header *)
LEMMA CrashHeader ==
    ASSUME Core, Crash, FormatIsSafe, pc = "hdr"
    PROVE  Survives
<1>1. /\ st \in {"init", "up"} /\ TypeInv /\ CallInv
      /\ Extents(fl) /\ PartSize \in Nat /\ desc' = desc
    BY CrashMeans
<1>2. st = "up" /\ op.kind = "set" /\ op.vl \in Values /\ LenOf[op.vl] <= op.max /\ op \in Calls
    BY <1>1 DEF CallInv, NoCall, TypeInv
<1>3. Counted(fl) /\ Room(free, total)
    BY <1>2 DEF Core, ReadyInv, WritingInv
<1>4. /\ DataArea(fl, fl, free) /\ ~Valid(desc) /\ free \in Nat /\ total \in Nat /\ free < PartSize
      /\ total = ActiveSize(fl)
    BY <1>1, <1>3, CountedFacts
<1>5. free + MinSize <= PlannedSwap(total) /\ PlannedSwap(total) \in Int
    BY <1>2, <1>3, <1>4, RoomMeans
<1> DEFINE r == Unreadable("torn", free, free + 1)
<1>6. fl' = fl \/ fl' = Program(fl, r)
    BY DEF Crash
<1>7. r \in Extent /\ r.lo = free /\ r.hi = free + 1 /\ r.k = "torn"
    BY <1>4 DEF Unreadable, Extent, Kinds
<1> HIDE DEF r
<1>8. CASE fl' = fl
    BY <1>1, <1>4, <1>8, SurvivesAsData
<1>9. CASE fl' = Program(fl, r)
    <2>1. \A d \in fl : d.hi <= free
        BY <1>1, <1>3, CountedFacts
    <2>2. IsBlank(fl, r.lo, r.hi)
        <3>1. \A d \in fl : d.hi <= r.lo \/ r.hi <= d.lo
            BY <1>7, <2>1
        <3> QED
            BY <1>1, <1>4, <1>7, <3>1, BlankBehind
    <2>3. fl' = fl \cup {r}
        BY <1>9, <2>2, ProgramBlank
    <2>4. Extents(fl \cup {r}) /\ DataArea(fl \cup {r}, fl, free) /\ Unfinished(r, fl, free)
        <3>1. r.lo < r.hi /\ r.hi <= PlannedSwap(ActiveSize(fl))
            BY <1>4, <1>5, <1>7, ObjSizes
        <3>2. free + MinSize <= PlannedSwap(ActiveSize(fl)) /\ r.k # "obj"
            BY <1>4, <1>5, <1>7
        <3> QED
            BY <1>1, <1>4, <1>7, <3>1, <3>2, BehindCounted
    <2>5. fl \subseteq fl' /\ \A x \in fl' \ fl : Unfinished(x, fl, free)
        BY <2>3, <2>4
    <2> QED
        BY <1>1, <1>4, <2>3, <2>4, <2>5, SurvivesAsData
<1> QED
    BY <1>6, <1>8, <1>9

(* A power failure between the writes of an object *)
LEMMA CrashWriting ==
    ASSUME Core, Crash, FormatIsSafe, pc \in {"data", "commit", "inact"}
    PROVE  Survives
<1>1. /\ Extents(fl) /\ PartSize \in Nat /\ fl' = fl /\ desc' = desc /\ free \in Nat /\ free <= PartSize
    BY CrashMeans
<1>2. /\ DataArea(fl, Before(free), free)
      /\ \A r \in fl \ Before(free) : Unfinished(r, Before(free), free)
    BY DurableBehind
<1>3. Before(free) \subseteq fl /\ ~Valid(desc)
    BY WritingMeans
<1> QED
    BY <1>1, <1>2, <1>3, SurvivesAsData

(* A power failure before a scan *)
LEMMA CrashScan ==
    ASSUME Core, Crash, FormatIsSafe, pc = "scan"
    PROVE  Survives
<1>1. /\ Extents(fl) /\ PartSize \in Nat /\ fl' = fl /\ desc' = desc
    BY CrashMeans
<1>2. PICK end \in 0..PartSize : DataArea(fl, fl, end) /\ desc = BlankDesc
    BY DEF Core, ScanInv
<1>3. end \in Nat /\ end <= PartSize /\ ~Valid(desc)
    BY <1>1, <1>2, BlankInvalid
<1> QED
    BY <1>1, <1>2, <1>3, SurvivesAsData

(* A power failure in CHECKPOINT_0 or 1 *)
LEMMA CrashSaving ==
    ASSUME Core, Crash, FormatIsSafe, pc \in Saving
    PROVE  Survives
<1> DEFINE O == Before(free)
<1>1. /\ desc \in Descriptors /\ free <= PartSize /\ fl' = fl
      /\ pc \notin {"c0desc", "c1mark"} => desc' = desc
      /\ pc = "c0desc" => desc' = desc \/ desc' = [desc EXCEPT !.start = BadStart]
      /\ pc = "c1mark" => desc' = desc \/ desc' = [desc EXCEPT !.mark = "bad"]
    BY CrashMeans DEF Saving, Copying1
<1>2. /\ Extents(fl) /\ O \subseteq fl /\ DataArea(fl, O, free) /\ ~Valid(desc) /\ free \in Nat
      /\ SwapStart(total) >= 0 /\ SwapStart(total) \in Int
    BY SavingMeans
<1>3. /\ pc = "c0erase" => (desc = BlankDesc => \A r \in fl \ O : Unfinished(r, O, free))
      /\ pc = "c0desc" => desc = BlankDesc /\ \A r \in fl \ O : Unfinished(r, O, free)
      /\ pc \in Copying1 => desc = [BlankDesc EXCEPT !.start = SwapStart(total)]
    BY DEF Core, SavingInv
<1> HIDE DEF O
<1>4. /\ ~Valid(desc')
      /\ desc' = BlankDesc => \A r \in fl' \ O : Unfinished(r, O, free)
    <2>1. CASE pc = "c0erase"
        BY <1>1, <1>2, <1>3, <2>1
    <2>2. CASE pc = "c0desc"
        <3>1. ~Valid([desc EXCEPT !.start = BadStart])
            BY <1>1, <1>3, <2>2 DEF Valid, Descriptors, BlankDesc
        <3> QED
            BY <1>1, <1>2, <1>3, <2>2, <3>1
    <2>3. CASE pc \in Copying1
        <3>1. desc.start = SwapStart(total) /\ desc.mark = "blank"
            BY <1>3, <2>3 DEF BlankDesc
        <3>2. desc'.start = SwapStart(total) /\ desc'.mark \in {"blank", "bad"}
            BY <1>1, <2>3, <3>1 DEF Copying1, Descriptors
        <3> QED
            BY <1>2, <3>2 DEF Valid, BlankDesc, NoStart
    <2> QED
        BY <2>1, <2>2, <2>3 DEF Saving
<1> QED
    BY <1>1, <1>2, <1>4, SurvivesAsData

(* A power failure in CHECKPOINT_2 *)
LEMMA CrashMoving ==
    ASSUME Core, Crash, FormatIsSafe, pc \in Moving
    PROVE  Survives
<1> DEFINE C == From(w.swap)
           S == Before(w.swap)
<1>1. /\ fl' = fl /\ PartSize \in Nat
      /\ pc # "c2inval" => desc' = desc
      /\ pc = "c2inval" => desc' = desc \/ desc' = [desc EXCEPT !.start = BadStart]
    BY CrashMeans DEF Moving, Copying2
<1>2. /\ Extents(fl) /\ C \subseteq fl /\ Valid(desc) /\ desc \in Descriptors
      /\ SwapArea(fl, C, w.swap) /\ desc.start = w.swap /\ desc.start \in Int
    BY MovingMeans
<1>3. CASE desc' = desc
    <2>1. SwapArea(fl, C, desc.start)
        BY <1>2
    <2> HIDE DEF C
    <2> QED
        BY <1>1, <1>2, <1>3, <2>1, SurvivesAsSwap
<1>4. CASE pc = "c2inval" /\ desc' = [desc EXCEPT !.start = BadStart]
    <2>1. /\ S \subseteq fl /\ DataArea(fl, S, ActiveSize(S)) /\ Pairs(S) = Pairs(C)
          /\ ActiveSize(S) \in Nat /\ ActiveSize(S) = ActiveSize(C)
        BY <1>4, CopiedBack
    <2>2. ~Valid(desc') /\ desc' # BlankDesc
        BY <1>2, <1>4 DEF Valid, Descriptors, BlankDesc, BadStart, NoStart
    <2> HIDE DEF S, C
    <2>3. Durable' = Durable /\ Occupied' = Occupied
        <3>1. Durable = [n \in Names |-> Paired(Pairs(C), n)] /\ Occupied = <<ActiveSize(C), ActiveSize(C)>>
            BY <1>2, RestoredSwap, ValidIs
        <3>2. /\ Durable' = [n \in Names |-> Paired(Pairs(S), n)]
              /\ Occupied' = <<ActiveSize(S), ActiveSize(S)>>
            BY <1>1, <1>2, <2>1, <2>2, RestoredDataNext
        <3> QED
            BY <2>1, <3>1, <3>2
    <2>4. Recoverable(fl', desc')
        <3>1. ActiveSize(S) \in 0..PartSize
            BY <1>1, <1>2, <2>1, ExtentsSubset, SizeType
        <3> QED
            BY <1>1, <2>1, <2>2, <3>1 DEF Recoverable
    <2> QED
        BY <1>1, <1>2, <2>3, <2>4 DEF Survives
<1> QED
    BY <1>1, <1>3, <1>4

(* A power failure in CHECKPOINT_3 *)
LEMMA CrashCleaning ==
    ASSUME Core, Crash, FormatIsSafe, pc = "c3erase"
    PROVE  Survives
<1> DEFINE O == Before(w.cur)
<1>1. /\ Extents(fl) /\ PartSize \in Nat /\ fl' = fl /\ desc' = desc
    BY CrashMeans
<1>2. /\ ~Valid(desc) /\ desc # BlankDesc
      /\ \E end \in 0..PartSize : DataArea(fl, O, end)
    BY DEF Core, CleaningInv
<1>3. PICK end \in 0..PartSize : DataArea(fl, O, end)
    BY <1>2
<1>4. end \in Nat /\ end <= PartSize /\ O \subseteq fl
    BY <1>1 DEF Before
<1> HIDE DEF O
<1> QED
    BY <1>1, <1>2, <1>3, <1>4, SurvivesAsData

(* A power failure anywhere but in psm_format *)
LEMMA CrashKeeps ==
    ASSUME Core, FormatIsSafe, Crash
    PROVE  Core' /\ Durable' = Durable /\ Occupied' = Occupied
<1>1. /\ pc \in Places /\ pc # "fmt" /\ TypeInv /\ desc' \in Descriptors /\ PartSize \in Nat
    BY CrashMeans
<1>2. Survives
    <2>1. pc \in {"idle", "refuse", "del"} \cup {"hdr"} \cup {"data", "commit", "inact"} \cup {"scan"}
                 \cup Saving \cup Moving \cup {"c3erase"}
        BY <1>1 DEF Places, Saving, Moving, Copying1, Copying2
    <2> QED
        BY <2>1, CrashIdle, CrashHeader, CrashWriting, CrashScan, CrashSaving, CrashMoving,
           CrashCleaning
<1>3. /\ st' = "down" /\ total' = 0 /\ free' = 0 /\ high' = 0
      /\ pc' = "idle" /\ op' = NoCall /\ ret' = "none" /\ w' = NoWork
    BY DEF Crash
<1>4. DownInv'
    BY <1>2 DEF Survives, DownInv
<1>5. TypeInv'
    <2>1. NoWork \in Works /\ NoCall \in Calls
        BY <1>1 DEF NoWork, Works, NoCall, Calls
    <2>2. 0 \in 0..PartSize /\ 0 \in 0..MaxObjects
        BY <1>1, PsmAssumption
    <2> QED
        BY <1>1, <1>2, <1>3, <2>1, <2>2 DEF TypeInv, Places, Survives
<1>6. CallInv'
    BY <1>3 DEF CallInv, NoCall, Saving, Moving, Copying1, Copying2
<1> QED
    BY <1>2, <1>3, <1>4, <1>5, <1>6, Elsewhere
    DEF Core, Survives, Saving, Copying1, Copying2, Moving

-----------------------------------------------------------------------------
(***************************************************************************)
(* The invariant                                                           *)
(***************************************************************************)
(* What one step does to the store: nothing; the start of a call, which    *)
(* notes the value the name has; the effect of the call, with or without   *)
(* its return; the return of a call refused; or a restart.                 *)
Nothing == UNCHANGED <<op, ret>> /\ Durable' = Durable
Starts  == /\ op = NoCall /\ ret' = "none" /\ Durable' = Durable
           /\ \/ \E nm \in Names, v \in Values, max \in Nat :
                   op' = [kind |-> "set", nm |-> nm, vl |-> v, max |-> max, was |-> Durable[nm]]
              \/ \E nm \in Names :
                   op' = [NoCall EXCEPT !.kind = "del", !.nm = nm, !.was = Durable[nm]]
              \/ op' = [NoCall EXCEPT !.kind = "fmt"]
Forgets  == op.kind = "fmt" /\ UNCHANGED <<op, ret>> /\ Durable' = [n \in Names |-> NoValue]
Succeeds == /\ op' = NoCall /\ ret' = "ok"
            /\ \/ op.kind = "set" /\ Durable' = [Durable EXCEPT ![op.nm] = op.vl]
               \/ op.kind = "del" /\ Durable' = [Durable EXCEPT ![op.nm] = NoValue]
               \/ op.kind = "fmt" /\ Durable' = [n \in Names |-> NoValue]
Refused  == op.kind = "set" /\ op' = NoCall /\ ret' = "err" /\ Durable' = Durable
Restarts == op' = NoCall /\ ret' = "none" /\ Durable' = Durable

Step == Nothing \/ Starts \/ Forgets \/ Succeeds \/ Refused \/ Restarts

(* A call keeps the value it has noted until it takes effect *)
LEMMA StepWas ==
    ASSUME WasInv, Step
    PROVE  WasInv'
<1>1. CASE Nothing
    BY <1>1 DEF WasInv, Nothing
<1>2. CASE Starts
    <2>1. ASSUME NEW nm \in Names, NEW v \in Values, NEW max \in Nat,
                 op' = [kind |-> "set", nm |-> nm, vl |-> v, max |-> max, was |-> Durable[nm]]
          PROVE  WasInv'
        <3>1. op'.nm = nm /\ op'.was = Durable[nm]
            BY <2>1
        <3> QED
            BY <3>1, <1>2 DEF WasInv, Starts
    <2>2. ASSUME NEW nm \in Names,
                 op' = [NoCall EXCEPT !.kind = "del", !.nm = nm, !.was = Durable[nm]]
          PROVE  WasInv'
        <3>1. op'.nm = nm /\ op'.was = Durable[nm]
            BY <2>2 DEF NoCall
        <3> QED
            BY <3>1, <1>2 DEF WasInv, Starts
    <2>3. ASSUME op' = [NoCall EXCEPT !.kind = "fmt"]
          PROVE  WasInv'
        BY <2>3 DEF WasInv, NoCall
    <2> QED
        BY <1>2, <2>1, <2>2, <2>3 DEF Starts
<1>3. CASE Forgets
    BY <1>3 DEF WasInv, Forgets
<1>4. CASE Succeeds \/ Refused \/ Restarts
    BY <1>4 DEF WasInv, Succeeds, Refused, Restarts, NoCall
<1> QED
    BY <1>1, <1>2, <1>3, <1>4 DEF Step

(* The starts of calls *)
LEMMA BeginSteps ==
    ASSUME Core, Begin
    PROVE  Core' /\ Step
<1>1. ASSUME NEW nm \in Names, NEW v \in Values, NEW k \in Slacks, BeginSet(nm, v, k)
      PROVE  Core' /\ Step
    <2>1. Core' /\ Durable' = Durable
        BY <1>1, BeginSetKeeps
    <2>2. LenOf[v] + k \in Nat
        BY PsmAssumption
    <2>3. /\ op = NoCall /\ ret' = "none"
          /\ op' = [kind |-> "set", nm |-> nm, vl |-> v, max |-> LenOf[v] + k, was |-> Durable[nm]]
        BY <1>1 DEF BeginSet, Idle
    <2> QED
        BY <2>1, <2>2, <2>3 DEF Step, Starts
<1>2. ASSUME NEW nm \in Names, BeginDelete(nm)
      PROVE  Core' /\ Step
    BY <1>2, BeginDeleteKeeps DEF Step, Starts, BeginDelete, Idle
<1>3. CASE BeginFormat
    BY <1>3, BeginFormatKeeps DEF Step, Starts, BeginFormat, Idle
<1> QED
    BY <1>1, <1>2, <1>3 DEF Begin

(* The steps of writes and deletions *)
LEMMA WritingSteps ==
    ASSUME Core, ValidIds, IdsLeft, Refuse \/ WriteHeader \/ WriteData \/ Commit \/ InactivateOld \/ DeleteObject
    PROVE  Core' /\ Step
<1>1. CASE Refuse
    <2>1. op.kind = "set"
        BY <1>1 DEF Core, CallInv, Refuse
    <2> QED
        BY <1>1, <2>1, RefuseKeeps DEF Step, Refused, Refuse, Return
<1>2. CASE WriteHeader
    <2>1. UNCHANGED <<op, ret>>
        BY <1>2, HeaderIs
    <2> QED
        BY <1>2, <2>1, WriteHeaderKeeps DEF Step, Nothing
<1>3. CASE WriteData
    BY <1>3, WriteDataKeeps DEF Step, Nothing, WriteData
<1>4. CASE Commit
    <2>1. op.kind = "set"
        BY <1>4 DEF Core, CallInv, Commit
    <2>2. CASE w.old = {}
        BY <1>4, <2>1, <2>2, CommitFirst DEF Step, Succeeds, Commit, FinishSet, Return
    <2>3. CASE w.old # {}
        BY <1>4, <2>3, CommitAnother DEF Step, Nothing, Commit
    <2> QED
        BY <2>2, <2>3
<1>5. CASE InactivateOld
    <2>1. op.kind = "set"
        BY <1>5 DEF Core, CallInv, InactivateOld
    <2> QED
        BY <1>5, <2>1, InactivateOldKeeps DEF Step, Succeeds, InactivateOld, FinishSet, Return
<1>6. CASE DeleteObject
    <2>1. op.kind = "del"
        BY <1>6 DEF Core, CallInv, DeleteObject
    <2> QED
        BY <1>6, <2>1, DeleteObjectKeeps DEF Step, Succeeds, DeleteObject, Return
<1> QED
    BY <1>1, <1>2, <1>3, <1>4, <1>5, <1>6

(* The steps of compactions and of psm_format *)
LEMMA CompactionSteps ==
    ASSUME Core, IdsLeft, OffTheEdge,
           FormatErase \/ EraseSwap \/ WriteSwapStart \/ CopyToSwap \/ WriteMarker
           \/ EraseData \/ CopyToData \/ InvalidateDescriptor \/ CleanSwap
    PROVE  Core' /\ Step
<1>1. CASE FormatErase
    <2>1. op.kind = "fmt" /\ UNCHANGED <<op, ret>>
        BY <1>1, EraseAtIs DEF FormatErase, Core, CallInv
    <2> QED
        BY <1>1, <2>1, FormatEraseKeeps DEF Step, Forgets
<1>2. CASE EraseSwap
    <2>1. UNCHANGED <<op, ret>>
        BY <1>2, EraseAtIs DEF EraseSwap
    <2> QED
        BY <1>2, <2>1, EraseSwapKeeps DEF Step, Nothing
<1>3. CASE WriteSwapStart
    BY <1>3, WriteSwapStartKeeps DEF Step, Nothing, WriteSwapStart
<1>4. CASE CopyToSwap
    BY <1>4, CopyToSwapKeeps DEF Step, Nothing
<1>5. CASE WriteMarker
    BY <1>5, WriteMarkerKeeps DEF Step, Nothing, WriteMarker
<1>6. CASE EraseData
    <2>1. UNCHANGED <<op, ret>>
        BY <1>6, EraseAtIs DEF EraseData
    <2> QED
        BY <1>6, <2>1, EraseDataKeeps DEF Step, Nothing
<1>7. CASE CopyToData
    BY <1>7, CopyToDataKeeps DEF Step, Nothing
<1>8. CASE InvalidateDescriptor
    BY <1>8, InvalidateDescriptorKeeps DEF Step, Nothing, InvalidateDescriptor
<1>9. CASE CleanSwap
    <2>1. UNCHANGED <<op, ret>>
        BY <1>9, EraseAtIs DEF CleanSwap
    <2> QED
        BY <1>9, <2>1, CleanSwapKeeps DEF Step, Nothing
<1> QED
    BY <1>1, <1>2, <1>3, <1>4, <1>5, <1>6, <1>7, <1>8, <1>9

(* The flash is blank *)
LEMMA DurableBlank ==
    ASSUME Extents(fl), fl = {}, DataArea(fl, fl, free'), free' \in Nat, ~Valid(desc)
    PROVE  Durable = [n \in Names |-> NoValue]
<1>1. Durable = [n \in Names |-> Paired(Pairs(fl), n)]
    BY RestoredData, ValidIs
<1>2. \A p \in Pairs(fl) : FALSE
    BY DEF Pairs
<1>3. \A n \in Names : Paired(Pairs(fl), n) = NoValue
    BY <1>2, PairedNone
<1> QED
    BY <1>1, <1>3

(* The scan at the end *)
LEMMA RescanSteps ==
    ASSUME Core, Rescan
    PROVE  Core' /\ Step
<1>1. Core' /\ Durable' = Durable
    BY RescanKeeps
<1>2. /\ pc = "scan" /\ Extents(fl) /\ TypeInv /\ CallInv
      /\ free' \in 0..PartSize
      /\ DataArea(fl, fl, free') /\ ~Valid(desc)
      /\ op.kind = "fmt" => fl = {}
      /\ Scan(fl).ok
    BY RescanMeans
<1>3. \/ st = "init" /\ st' = "up" /\ Return("none")
      \/ st # "init" /\ op.kind = "fmt" /\ Return("ok") /\ st' = st
      \/ UNCHANGED <<op, ret>>
    BY <1>2 DEF Rescan
<1>4. CASE st = "init" /\ st' = "up" /\ Return("none")
    BY <1>1, <1>4 DEF Step, Restarts, Return
<1>5. CASE st # "init" /\ op.kind = "fmt" /\ Return("ok") /\ st' = st
    <2>1. free' \in Nat
        BY <1>2, PartSizeAssumption
    <2>2. Durable = [n \in Names |-> NoValue]
        BY <1>2, <1>5, <2>1, DurableBlank
    <2> QED
        BY <1>1, <1>5, <2>2 DEF Step, Succeeds, Return
<1>6. CASE UNCHANGED <<op, ret>>
    BY <1>1, <1>6 DEF Step, Nothing
<1> QED
    BY <1>3, <1>4, <1>5, <1>6

(* Starts and power failures *)
LEMMA StartSteps ==
    ASSUME Core, FormatIsSafe, Boot \/ Crash
    PROVE  Core' /\ Step
<1>1. CASE Boot
    <2>1. op' = NoCall /\ ret' = "none"
        BY <1>1, BootMeans
    <2> QED
        BY <1>1, <2>1, BootKeeps DEF Step, Restarts
<1>2. CASE Crash
    BY <1>2, CrashKeeps DEF Step, Restarts, Crash
<1> QED
    BY <1>1, <1>2

(* Every step keeps the invariant and does one of the things Step lists *)
LEMMA NextSteps ==
    ASSUME IInv, ValidIds, FormatIsSafe, OffTheEdge, IdsLeft, Next
    PROVE  IInv' /\ Step
<1>1. Core' /\ Step
    BY BeginSteps, WritingSteps, CompactionSteps, RescanSteps, StartSteps DEF IInv, Next, Work
<1> QED
    BY <1>1, StepWas DEF IInv

(* A step of something else *)
LEMMA StutterKeeps ==
    ASSUME IInv, UNCHANGED vars
    PROVE  IInv'
<1>1. Durable' = Durable
    BY DurableSame DEF vars
<1>2. /\ fl' = fl /\ desc' = desc /\ total' = total /\ free' = free /\ high' = high
      /\ st' = st /\ pc' = pc /\ op' = op /\ ret' = ret /\ w' = w
    BY DEF vars
<1>3. \A x : Before(x)' = Before(x) /\ From(x)' = From(x)
    BY <1>2 DEF Before, From
<1>4. \A O : Counted(O)' = Counted(O)
    BY <1>2 DEF Counted
<1>5. \A x, t : Room(x, t)' = Room(x, t)
    BY <1>2 DEF Room
<1>6. NewObject' = NewObject
    BY <1>2 DEF NewObject
<1>7. TypeInv' = TypeInv /\ CallInv' = CallInv /\ DownInv' = DownInv /\ ReadyInv' = ReadyInv
    BY <1>2, <1>4 DEF TypeInv, CallInv, DownInv, ReadyInv
<1>8. WritingInv' = WritingInv
    BY <1>2, <1>3, <1>4, <1>5, <1>6 DEF WritingInv
<1>9. FormatInv' = FormatInv /\ ScanInv' = ScanInv
    BY <1>2, <1>5 DEF FormatInv, ScanInv
<1>10. SavingInv' = SavingInv
    BY <1>2, <1>3, <1>5 DEF SavingInv
<1>11. CopyInv1' = CopyInv1 /\ CopyInv2' = CopyInv2
    BY <1>2, <1>3 DEF CopyInv1, CopyInv2
<1>12. MovingInv' = MovingInv /\ CleaningInv' = CleaningInv
    BY <1>2, <1>3, <1>5 DEF MovingInv, CleaningInv
<1>13. Core'
    BY <1>7, <1>8, <1>9, <1>10, <1>11, <1>12 DEF IInv, Core
<1> QED
    BY <1>1, <1>2, <1>13 DEF IInv, WasInv

(* A new device, its flash blank *)
LEMMA InitHolds ==
    ASSUME Init
    PROVE  IInv
<1>1. TypeInv
    <2>1. NoWork \in Works /\ NoCall \in Calls /\ BlankDesc \in Descriptors
        BY PartSizeAssumption, BlankInvalid DEF NoWork, Works, NoCall, Calls
    <2>2. 0 \in 0..PartSize /\ 0 \in 0..MaxObjects
        BY PartSizeAssumption, PsmAssumption
    <2> QED
        BY <2>1, <2>2 DEF TypeInv, Init, Places, Extents
<1>2. CallInv
    BY DEF CallInv, Init, NoCall, Saving, Moving, Copying1, Copying2
<1>3. DownInv
    <2>1. DataArea({}, {}, 0)
        BY AreaEmpty, SizeEmpty, EmptyFits DEF DataArea
    <2>2. 0 \in 0..PartSize /\ ~Valid(desc) /\ {} \in SUBSET fl
        BY PartSizeAssumption, BlankInvalid DEF Init
    <2> QED
        BY <2>1, <2>2 DEF DownInv, Recoverable, Init
<1> QED
    BY <1>1, <1>2, <1>3
    DEF IInv, Core, WasInv, Init, NoCall, ReadyInv, WritingInv, FormatInv, ScanInv, SavingInv,
        CopyInv1, MovingInv, CopyInv2, CleaningInv, Saving, Copying1, Copying2, Moving

(* The invariant of psm-v2.c, from start-ups to power failures *)
THEOREM Invariant ==
    ASSUME ValidIds, FormatIsSafe
    PROVE  Spec /\ [](OffTheEdge /\ IdsLeft) => []IInv
<1>1. Init => IInv
    BY InitHolds
<1>2. IInv /\ OffTheEdge /\ IdsLeft /\ [Next]_vars => IInv'
    BY NextSteps, StutterKeeps
<1> QED
    BY <1>1, <1>2, PTL DEF Spec

-----------------------------------------------------------------------------
(***************************************************************************)
(* What follows from the invariant                                         *)
(***************************************************************************)
(* The invariant implies TypeOK *)
LEMMA TypesHold ==
    ASSUME IInv, ValidIds
    PROVE  TypeOK
<1>1. TypeInv /\ CallInv
    BY DEF IInv, Core
<1>2. \A e \in fl : 0 <= e.lo /\ e.lo < e.hi /\ e.hi <= PartSize /\ e.k \in Kinds
    BY <1>1 DEF TypeInv, Extents, Extent
<1>3. \A e, f \in fl : e = f \/ ~Overlaps(e, f.lo, f.hi)
    BY <1>1 DEF TypeInv, Extents, Extent, Overlaps
<1>4. desc.start \in {NoStart, BadStart} \cup 0..PartSize /\ desc.mark \in {"blank", "ok", "bad"}
    BY <1>1 DEF TypeInv, Descriptors
<1>5. high \in 0..InvalidId
    <2>1. MaxObjects < InvalidId
        BY DEF ValidIds
    <2>2. high \in 0..MaxObjects
        BY <1>1 DEF TypeInv
    <2>3. MaxObjects \in Nat
        BY PsmAssumption
    <2>4. InvalidId \in Nat
        BY DEF InvalidId
    <2> QED
        BY <2>1, <2>2, <2>3, <2>4
<1>6. op.kind \in {"none", "set", "del", "fmt"}
    BY <1>1 DEF TypeInv, Calls
<1>7. st = "up" => (op = NoCall <=> pc = "idle")
    BY <1>1 DEF CallInv, NoCall
<1> QED
    BY <1>1, <1>2, <1>3, <1>4, <1>5, <1>6, <1>7 DEF TypeOK, TypeInv, CallInv

(* The invariant implies AreasAreClean *)
LEMMA AreasClean ==
    ASSUME IInv
    PROVE  AreasAreClean
<1> SUFFICES ASSUME Idle PROVE desc = BlankDesc /\ IsBlank(fl, free, PartSize)
    BY DEF AreasAreClean
<1>1. Counted(fl) /\ TypeInv
    BY IdleMeans DEF IInv, Core
<1>2. free \in Nat /\ \A e \in fl : e.hi <= free
    BY <1>1, CountedFacts
<1>3. IsBlank(fl, free, PartSize)
    BY <1>1, <1>2, BlankBehind, PartSizeAssumption DEF TypeInv
<1> QED
    BY <1>1, <1>3 DEF Counted

(* The invariant implies WritesHitBlankFlash *)
LEMMA BlankTargets ==
    ASSUME IInv
    PROVE  WritesHitBlankFlash
<1> USE DEF IInv
<1>1. ASSUME pc = "hdr" PROVE IsBlank(fl, free, free + ObjSize(op.max))
    <2>1. Counted(fl) /\ TypeInv /\ CallInv
        <3>1. st = "up"
            BY <1>1 DEF Core, CallInv, TypeInv, NoCall
        <3> QED
            BY <1>1, <3>1 DEF Core, ReadyInv
    <2>2. free \in Nat /\ \A e \in fl : e.hi <= free
        BY <2>1, CountedFacts
    <2>3. free + ObjSize(op.max) \in Nat
        BY <2>1, <2>2, ObjSizes DEF TypeInv, Calls
    <2> QED
        BY <2>1, <2>2, <2>3, BlankBehind DEF TypeInv
<1>2. ASSUME pc = "c0desc" PROVE desc = BlankDesc /\ IsBlank(fl, SwapStart(total), PartSize)
    <2> DEFINE O == Before(free)
    <2>1. /\ Extents(fl) /\ O \subseteq fl /\ DataArea(fl, O, free) /\ total = ActiveSize(O)
          /\ free \in Nat /\ free <= SwapStart(total) /\ PlannedSwap(total) <= SwapStart(total)
          /\ SwapStart(total) \in Nat /\ PlannedSwap(total) \in Int /\ PartSize \in Nat
          /\ \A e \in O : e.hi <= free
        BY <1>2, SavingMeans DEF Saving
    <2>2. desc = BlankDesc /\ \A r \in fl \ O : Unfinished(r, O, free)
        BY <1>2 DEF Core, SavingInv, Saving
    <2>3. \A r \in fl \ O : r.hi <= PlannedSwap(total)
        BY <2>1, <2>2 DEF Unfinished
    <2>4. \A e \in fl : e.hi <= SwapStart(total)
        BY <2>1, <2>3 DEF Extents, Extent
    <2> QED
        BY <2>1, <2>2, <2>4, BlankBehind
<1>3. ASSUME pc = "c2copy", w.src = SwapData(w.swap), w.dst = 0
      PROVE  IsBlank(fl, 0, w.swap)
    <2> DEFINE S == Before(w.swap)
               done == {e \in From(w.swap) : e.lo < w.src}
    <2>1. /\ Extents(fl) /\ S \subseteq fl /\ w.swap \in Nat
          /\ Progress(w, FALSE, From(w.swap), SwapData(w.swap), S, 0)
        BY <1>3, CopyingBack DEF Copying2
    <2>2. Tiles(S, 0, 0)
        BY <1>3, <2>1 DEF Progress, CopyOf, Area
    <2>3. Extents(S)
        BY <2>1, ExtentsSubset
    <2>4. S = {}
        BY <2>2, <2>3, TilesEnd
    <2>5. \A e \in fl : w.swap <= e.lo
        BY <2>1, <2>4 DEF Before, Extents, Extent
    <2> QED
        BY <2>1, <2>5, BlankBehind
<1> QED
    BY <1>1, <1>2, <1>3 DEF WritesHitBlankFlash

(* The invariant implies IdsNameObjects *)
LEMMA IdsName ==
    ASSUME IInv
    PROVE  IdsNameObjects
<1> SUFFICES ASSUME Idle, NEW d \in DataChain(fl), NEW e \in DataChain(fl)
             PROVE  d.nm = e.nm <=> d.id = e.id
    BY DEF IdsNameObjects
<1>1. Counted(fl) /\ TypeInv
    BY IdleMeans DEF IInv, Core
<1>2. DataChain(fl) = fl
    BY <1>1, CountedFacts
<1> QED
    BY <1>1, <1>2 DEF Counted, Area, Catalogue

(* The invariant implies CountersMatchFlash *)
LEMMA CountersMatch ==
    ASSUME IInv
    PROVE  CountersMatchFlash
<1> SUFFICES ASSUME Idle
             PROVE  /\ Scan(fl).ok /\ total = Scan(fl).total /\ free = Scan(fl).free
                    /\ high >= Scan(fl).high
    BY DEF CountersMatchFlash
<1>1. Counted(fl) /\ TypeInv /\ Extents(fl)
    BY IdleMeans DEF IInv, Core, TypeInv
<1>2. /\ DataArea(fl, fl, free) /\ free \in Nat /\ total = ActiveSize(fl)
      /\ \A e \in fl : e.lo < free
    BY <1>1, CountedFacts
<1>3. /\ Scan(fl).total = ActiveSize(fl) /\ Scan(fl).free = free
      /\ (Scan(fl).ok <=> \A r \in fl \ fl : ~Unfinished(r, fl, free))
    BY <1>1, <1>2, ScanIs
<1>4. Scan(fl).high = HighestId(fl \cup ObjectsAt(fl, free)) \/ Scan(fl).high = HighestId(fl)
    <2>1. Accepted(fl) = fl /\ ChainEnd(fl) = free
        <3>1. Tiles(fl, 0, free)
            BY <1>1 DEF Counted, Area
        <3> QED
            BY <1>1, <1>2, <3>1, AcceptedIs, TilesEnd
    <2> QED
        BY <2>1 DEF Scan
<1>5. ObjectsAt(fl, free) = {}
    BY <1>1, <1>2 DEF ObjectsAt, Extents, Extent
<1>6. HighestId(fl) <= high
    <2> DEFINE ids == {0} \cup {e.id : e \in fl}
    <2>1. ids \in SUBSET Nat /\ ids # {} /\ high \in Nat /\ \A x \in ids : x <= high
        BY <1>1, PsmAssumption DEF Extents, Extent, Counted, TypeInv
    <2> HIDE DEF ids
    <2>2. Max(ids) \in ids
        BY <2>1, MaxIn
    <2> QED
        BY <2>1, <2>2 DEF ids, HighestId
<1>7. HighestId(fl) \in Int /\ high \in Int
    <2> DEFINE ids == {0} \cup {e.id : e \in fl}
    <2>1. ids \in SUBSET Nat /\ ids # {} /\ high \in Nat /\ \A x \in ids : x <= high
        BY <1>1, PsmAssumption DEF Extents, Extent, Counted, TypeInv
    <2> HIDE DEF ids
    <2>2. Max(ids) \in ids
        BY <2>1, MaxIn
    <2> QED
        BY <2>1, <2>2 DEF ids, HighestId
<1>8. Scan(fl).high = HighestId(fl)
    <2>1. fl \cup {} = fl
        OBVIOUS
    <2> QED
        BY <1>4, <1>5, <2>1
<1> QED
    BY <1>2, <1>3, <1>6, <1>7, <1>8

(* The invariant implies ReadsAreDurable *)
LEMMA ReadsDurable ==
    ASSUME IInv
    PROVE  ReadsAreDurable
<1> SUFFICES ASSUME Idle, NEW n \in Names PROVE Lookup(n) = Durable[n]
    BY DEF ReadsAreDurable
<1>1. Counted(fl) /\ TypeInv /\ Extents(fl)
    BY IdleMeans DEF IInv, Core, TypeInv
<1>2. /\ DataArea(fl, fl, free) /\ free \in Nat /\ ~Valid(desc) /\ DataChain(fl) = fl
      /\ Catalogue(fl, 0)
    BY <1>1, CountedFacts DEF Counted, Area
<1>3. Search(n).obj = {e \in fl : e.live /\ e.nm = n}
    BY <1>1, <1>2, SearchIs
<1>4. Restored = fl
    BY <1>1, <1>2, RestoredData, ValidIs
<1>5. Durable[n] = ValueIn({e \in {x \in fl : x.live} : e.nm = n})
    BY <1>4 DEF Durable
<1>6. {e \in {x \in fl : x.live} : e.nm = n} = {e \in fl : e.live /\ e.nm = n}
    OBVIOUS
<1> QED
    BY <1>3, <1>5, <1>6 DEF Lookup

(* The invariant implies DestinationNeverFull *)
LEMMA RoomForCopy ==
    ASSUME IInv
    PROVE  DestinationNeverFull
<1> SUFFICES ASSUME pc \in {"c1crc", "c2crc"}, NEW e \in fl, e.lo = w.src
             PROVE  w.dst + (e.hi - e.lo) < DestLimit
    BY DEF DestinationNeverFull
<1>1. CASE pc = "c1crc"
    <2> DEFINE O == Before(free)
               S == From(w.swap)
               b == SwapData(w.swap)
    <2>1. /\ Extents(fl) /\ O \subseteq fl /\ S \subseteq fl /\ Area(O, 0, free)
          /\ free \in Nat /\ total \in Nat /\ w \in Works /\ w.swap \in Nat /\ b = w.swap + 4
          /\ b + total + 1 < SwapLimit /\ total = ActiveSize(O) /\ SwapLimit \in Int
          /\ Progress(w, TRUE, O, 0, S, b)
        BY <1>1, CopyingOut DEF IInv, Copying1
    <2>2. b \in Nat /\ b + ActiveSize(O) <= SwapLimit
        BY <2>1
    <2> HIDE DEF O, S, b
    <2>3. w.dst + SizeOf(e) <= b + ActiveSize(O) /\ SizeOf(e) \in Nat
        BY <2>1, <2>2, CopyHasRoom
    <2>4. w.dst \in Nat
        BY <2>1 DEF Works
    <2> QED
        BY <1>1, <2>1, <2>2, <2>3, <2>4 DEF DestLimit, SizeOf
<1>2. CASE pc = "c2crc"
    <2> DEFINE C == From(w.swap)
               S == Before(w.swap)
               a == SwapData(w.swap)
    <2>1. /\ Extents(fl) /\ C \subseteq fl /\ S \subseteq fl
          /\ Area(C, a, a + ActiveSize(C)) /\ ActiveSize(C) \in Nat
          /\ w \in Works /\ w.swap \in Nat /\ a = w.swap + 4
          /\ a + ActiveSize(C) + 1 < SwapLimit /\ ActiveSize(C) < w.swap /\ SwapLimit \in Int
          /\ Progress(w, TRUE, C, a, S, 0)
        BY <1>2, CopyingBack DEF IInv, Copying2
    <2>2. a \in Nat /\ a + ActiveSize(C) \in Nat /\ 0 + ActiveSize(C) <= SwapLimit /\ 0 \in Nat
        BY <2>1
    <2> HIDE DEF C, S, a
    <2> DEFINE end == a + ActiveSize(C)
    <2> HIDE DEF end
    <2>3. end \in Nat /\ Area(C, a, end)
        BY <2>1, <2>2 DEF end
    <2>4. w.dst + SizeOf(e) <= 0 + ActiveSize(C) /\ SizeOf(e) \in Nat
        BY <2>1, <2>2, <2>3, CopyHasRoom
    <2>5. w.dst \in Nat
        BY <2>1 DEF Works
    <2> QED
        BY <1>2, <2>1, <2>2, <2>4, <2>5 DEF DestLimit, SizeOf
<1> QED
    BY <1>1, <1>2

-----------------------------------------------------------------------------
(***************************************************************************)
(* The abstract store                                                      *)
(***************************************************************************)
(* The call in progress, as the abstract store sees it *)
CallOf(c) == [kind |-> c.kind, nm |-> c.nm, vl |-> c.vl, was |-> c.was]

(* The call that begins is one of the calls of the store *)
LEMMA StartMaps ==
    ASSUME IInv, IInv', Starts
    PROVE  Store!Begin
<1>1. /\ Durable \in [Names -> Values \cup {NoValue}] /\ op = NoCall /\ ret' = "none"
      /\ Durable' = Durable
    BY DurableType DEF IInv, Core, TypeInv, Starts
<1>2. CallOf(op) = Store!NoCall
    BY <1>1 DEF NoCall, CallOf, Store!NoCall
<1>3. CallOf(op') \in Store!Calls /\ (op'.kind # "fmt" => op'.was = Durable[op'.nm])
    <2>1. ASSUME NEW nm \in Names, NEW v \in Values, NEW max \in Nat,
                 op' = [kind |-> "set", nm |-> nm, vl |-> v, max |-> max, was |-> Durable[nm]]
          PROVE  CallOf(op') \in Store!Calls /\ (op'.kind # "fmt" => op'.was = Durable[op'.nm])
        <3>1. op'.kind = "set" /\ op'.nm = nm /\ op'.vl = v /\ op'.was = Durable[nm]
            BY <2>1
        <3>2. Durable[nm] \in Values \cup {NoValue}
            BY <1>1
        <3> QED
            BY <3>1, <3>2 DEF CallOf, Store!Calls
    <2>2. ASSUME NEW nm \in Names,
                 op' = [NoCall EXCEPT !.kind = "del", !.nm = nm, !.was = Durable[nm]]
          PROVE  CallOf(op') \in Store!Calls /\ (op'.kind # "fmt" => op'.was = Durable[op'.nm])
        <3>1. op'.kind = "del" /\ op'.nm = nm /\ op'.vl = NoValue /\ op'.was = Durable[nm]
            BY <2>2 DEF NoCall
        <3>2. Durable[nm] \in Values \cup {NoValue}
            BY <1>1
        <3> QED
            BY <3>1, <3>2 DEF CallOf, Store!Calls
    <2>3. ASSUME op' = [NoCall EXCEPT !.kind = "fmt"]
          PROVE  CallOf(op') \in Store!Calls /\ (op'.kind # "fmt" => op'.was = Durable[op'.nm])
        <3>1. op'.kind = "fmt" /\ op'.nm = NoValue /\ op'.vl = NoValue /\ op'.was = NoValue
            BY <2>3 DEF NoCall
        <3> QED
            BY <3>1 DEF CallOf, Store!Calls
    <2> QED
        BY <2>1, <2>2, <2>3 DEF Starts
<1> QED
    BY <1>1, <1>2, <1>3 DEF Store!Begin, CallOf

(* What the effect of the call in progress is *)
LEMMA AppliedIs ==
    /\ op.kind = "fmt" => Store!Applied(CallOf(op)) = [n \in Names |-> NoValue]
    /\ op.kind # "fmt" => Store!Applied(CallOf(op)) = [Durable EXCEPT ![op.nm] = op.vl]
BY DEF Store!Applied, CallOf

(* Every step of the code is one of the store, or none *)
LEMMA StepMaps ==
    ASSUME IInv, IInv', Step
    PROVE  [Store!Next]_(Store!vars)
<1>1. TypeInv /\ CallInv /\ WasInv
    BY DEF IInv, Core
<1>2. op.kind # "none" => CallOf(op) # Store!NoCall
    BY DEF CallOf, Store!NoCall
<1>3. op' = NoCall => CallOf(op') = Store!NoCall
    BY DEF NoCall, CallOf, Store!NoCall
<1>4. CASE Nothing
    BY <1>4 DEF Nothing, Store!vars
<1>5. CASE Starts
    BY <1>5, StartMaps DEF Store!Next
<1>6. CASE Forgets
    <2>1. Store!Effect
        BY <1>2, <1>6, AppliedIs DEF Forgets, Store!Effect, CallOf
    <2> QED
        BY <2>1 DEF Store!Next
<1>7. CASE Succeeds
    <2>1. Durable' = Store!Applied(CallOf(op))
        <3>1. op.kind = "del" => op.vl = NoValue
            BY <1>1 DEF CallInv
        <3> QED
            BY <1>7, <3>1, AppliedIs DEF Succeeds
    <2>2. Store!ReturnOk
        BY <1>2, <1>3, <1>7, <2>1 DEF Succeeds, Store!ReturnOk, CallOf
    <2> QED
        BY <2>2 DEF Store!Next
<1>8. CASE Refused
    <2>1. op.was = Durable[op.nm]
        BY <1>1, <1>8 DEF WasInv, Refused
    <2>2. Store!ReturnError
        BY <1>2, <1>3, <1>8, <2>1 DEF Refused, Store!ReturnError, CallOf
    <2> QED
        BY <2>2 DEF Store!Next
<1>9. CASE Restarts
    <2>1. Store!PowerFailure
        BY <1>3, <1>9 DEF Restarts, Store!PowerFailure, CallOf
    <2> QED
        BY <2>1 DEF Store!Next
<1> QED
    BY <1>4, <1>5, <1>6, <1>7, <1>8, <1>9 DEF Step

(* A new device is an empty store *)
LEMMA InitMaps ==
    ASSUME Init
    PROVE  Store!Init
<1>1. IInv
    BY InitHolds
<1>2. Extents(fl) /\ fl = {} /\ ~Valid(desc)
    BY <1>1, BlankInvalid DEF Init, IInv, Core, TypeInv
<1>3. DataArea(fl, fl, 0)
    BY <1>2, AreaEmpty, SizeEmpty, EmptyFits DEF DataArea
<1>4. Restored = fl
    BY <1>2, <1>3, RestoredData, ValidIs
<1>5. Durable = [n \in Names |-> NoValue]
    BY <1>2, <1>4 DEF Durable, ValueIn
<1> QED
    BY <1>5 DEF Init, Store!Init, Store!NoCall, NoCall

(***************************************************************************)
(* psm-v2.c implements a map that survives power failures: whatever step   *)
(* of a write, a deletion, a compaction or a recovery the power fails at,  *)
(* a restart finds under every name the last value set, and a call that    *)
(* returned has had its effect.                                            *)
(***************************************************************************)
THEOREM StoreImplemented ==
    ASSUME ValidIds, FormatIsSafe
    PROVE  Spec /\ [](OffTheEdge /\ IdsLeft) => ImplementsStore
<1>1. Init => Store!Init
    BY InitMaps
<1>2. IInv /\ IInv' /\ OffTheEdge /\ IdsLeft /\ [Next]_vars => [Store!Next]_(Store!vars)
    <2>1. ASSUME IInv, OffTheEdge, IdsLeft, Next PROVE IInv' /\ Step
        BY <2>1, NextSteps
    <2>2. ASSUME UNCHANGED vars PROVE UNCHANGED Store!vars
        BY <2>2, DurableSame DEF vars, Store!vars
    <2> QED
        BY <2>1, <2>2, StepMaps
<1> QED
    BY <1>1, <1>2, Invariant, PTL DEF Spec, ImplementsStore, Store!Spec

(* Every variable keeps the shape of the C object it stands for *)
THEOREM TypeCorrect ==
    ASSUME ValidIds, FormatIsSafe
    PROVE  Spec /\ [](OffTheEdge /\ IdsLeft) => []TypeOK
<1>1. IInv => TypeOK
    BY TypesHold
<1> QED
    BY <1>1, Invariant, PTL

(* Initialisation recovers from a power failure at any point *)
THEOREM RecoveryNeverFails ==
    ASSUME ValidIds, FormatIsSafe
    PROVE  Spec /\ [](OffTheEdge /\ IdsLeft) => []NeverBricked
<1>1. IInv => NeverBricked
    BY DEF IInv, Core, TypeInv, NeverBricked
<1> QED
    BY <1>1, Invariant, PTL

(* A reader finds under every name what a restart would restore *)
THEOREM ReadersSeeDurable ==
    ASSUME ValidIds, FormatIsSafe
    PROVE  Spec /\ [](OffTheEdge /\ IdsLeft) => []ReadsAreDurable
<1>1. IInv => ReadsAreDurable
    BY ReadsDurable
<1> QED
    BY <1>1, Invariant, PTL

(* No write is aimed at bytes that are already programmed *)
THEOREM OnlyBlankProgrammed ==
    ASSUME ValidIds, FormatIsSafe
    PROVE  Spec /\ [](OffTheEdge /\ IdsLeft) => []WritesHitBlankFlash
<1>1. IInv => WritesHitBlankFlash
    BY BlankTargets
<1> QED
    BY <1>1, Invariant, PTL

(* Nothing lies behind the last object when no compaction is in progress *)
THEOREM AreasStayClean ==
    ASSUME ValidIds, FormatIsSafe
    PROVE  Spec /\ [](OffTheEdge /\ IdsLeft) => []AreasAreClean
<1>1. IInv => AreasAreClean
    BY AreasClean
<1> QED
    BY <1>1, Invariant, PTL

(* The counters in RAM are those a scan of the flash would compute *)
THEOREM CountersExact ==
    ASSUME ValidIds, FormatIsSafe
    PROVE  Spec /\ [](OffTheEdge /\ IdsLeft) => []CountersMatchFlash
<1>1. IInv => CountersMatchFlash
    BY CountersMatch
<1> QED
    BY <1>1, Invariant, PTL

(* Ids and names of the objects stand for each other *)
THEOREM IdsStandForNames ==
    ASSUME ValidIds, FormatIsSafe
    PROVE  Spec /\ [](OffTheEdge /\ IdsLeft) => []IdsNameObjects
<1>1. IInv => IdsNameObjects
    BY IdsName
<1> QED
    BY <1>1, Invariant, PTL

(* A compaction has room for every copy, out and back *)
THEOREM CopiesAlwaysFit ==
    ASSUME ValidIds, FormatIsSafe
    PROVE  Spec /\ [](OffTheEdge /\ IdsLeft) => []DestinationNeverFull
<1>1. IInv => DestinationNeverFull
    BY RoomForCopy
<1> QED
    BY <1>1, Invariant, PTL

-----------------------------------------------------------------------------
(***************************************************************************)
(* A partition with an id for every object it has room for                 *)
(***************************************************************************)
(* In a small partition a compaction has an id for its next copy *)
LEMMA CopyLeavesId ==
    ASSUME SmallPartition, w \in Works, Extents(fl), NEW Src, Src \subseteq fl, NEW S, S \subseteq fl,
           NEW b \in Nat, b + ActiveSize(Src) < PartSize, NEW a, Progress(w, FALSE, Src, a, S, b)
    PROVE  w.cid < MaxObjects
<1> DEFINE done == {e \in Src : e.lo < w.src}
<1>1. CopyOf(S, b, done, w.dst, w.cid)
    BY DEF Progress
<1>2. w.dst \in Nat /\ w.cid \in Nat /\ PartSize \in Nat /\ done \subseteq Src
    BY PartSizeAssumption DEF Works
<1> HIDE DEF done
<1>3. ActiveSize(Src) \in Nat
    BY ExtentsSubset, SizeType
<1>4. b + ActiveSize(Src) <= PartSize
    BY <1>2, <1>3
<1>5. CopyRoom(Src, S, b, done, w.dst)
    BY <1>1, <1>2, <1>4, CopyFits
<1>6. w.dst <= b + ActiveSize(Src)
    BY <1>5 DEF CopyRoom
<1> DEFINE x == w.dst - b
<1>7. x \in Int /\ x < PartSize
    BY <1>2, <1>3, <1>6
<1>8. IdRoom(w.cid, x)
    BY <1>1 DEF CopyOf
<1> HIDE DEF x
<1> QED
    BY <1>2, <1>7, <1>8, IdsSuffice

(* In a small partition the invariant leaves an id *)
LEMMA SmallLeavesIds ==
    ASSUME IInv, SmallPartition
    PROVE  IdsLeft
<1>1. ASSUME pc = "hdr"
      PROVE  high < MaxObjects
    <2>1. free \in Nat /\ free < PartSize /\ high \in Nat /\ st = "up"
        BY <1>1, WritingMeans DEF IInv
    <2>2. IdRoom(high, free) /\ free \in Int /\ free <= PartSize
        BY <1>1, <2>1, PartSizeAssumption DEF IInv, Core, ReadyInv
    <2> HIDE DEF SmallPartition
    <2> QED
        BY <2>1, <2>2, IdsSuffice
<1>2. ASSUME pc = "c1copy"
      PROVE  w.cid < MaxObjects
    <2> DEFINE O == Before(free)
               S == From(w.swap)
               b == SwapData(w.swap)
    <2>1. /\ Extents(fl) /\ O \subseteq fl /\ S \subseteq fl /\ total \in Nat /\ w \in Works
          /\ w.swap \in Nat /\ b = w.swap + 4 /\ PartSize \in Nat
          /\ b + total + 1 < SwapLimit /\ total = ActiveSize(O) /\ SwapLimit \in Int
          /\ SwapLimit < PartSize /\ Progress(w, FALSE, O, 0, S, b)
        BY <1>2, CopyingOut DEF IInv, Copying1
    <2>2. b \in Nat /\ b + ActiveSize(O) < PartSize
        BY <2>1
    <2> HIDE DEF O, S, b
    <2> QED
        BY <2>1, <2>2, CopyLeavesId
<1>3. ASSUME pc = "c2copy"
      PROVE  w.cid < MaxObjects
    <2> DEFINE C == From(w.swap)
               S == Before(w.swap)
               a == SwapData(w.swap)
    <2>1. /\ Extents(fl) /\ C \subseteq fl /\ S \subseteq fl /\ ActiveSize(C) \in Nat
          /\ w \in Works /\ w.swap \in Nat /\ ActiveSize(C) < w.swap /\ PartSize \in Nat
          /\ Progress(w, FALSE, C, a, S, 0)
        BY <1>3, CopyingBack DEF IInv, Copying2
    <2>2. 0 \in Nat /\ w.swap <= PartSize
        BY <2>1 DEF Works
    <2> HIDE DEF C, S, a
    <2>3. 0 + ActiveSize(C) < PartSize
        BY <2>1, <2>2
    <2> QED
        BY <2>1, <2>2, <2>3, CopyLeavesId
<1> QED
    BY <1>1, <1>2, <1>3 DEF IdsLeft

(* In a partition that has no room for more than MaxObjects objects no id  *)
(* is ever missing, neither for a new name nor for a copy: the second      *)
(* hypothesis on behaviours may be dropped there.                          *)
THEOREM SmallPartitionKeepsIds ==
    ASSUME ValidIds, FormatIsSafe, SmallPartition
    PROVE  Spec /\ []OffTheEdge => []IdsLeft
<1>1. Init => IInv
    BY InitHolds
<1>2. IInv => IdsLeft
    BY SmallLeavesIds
<1>3. IInv /\ OffTheEdge /\ [Next]_vars => IInv'
    BY <1>2, NextSteps, StutterKeeps
<1> QED
    BY <1>1, <1>2, <1>3, PTL DEF Spec

-----------------------------------------------------------------------------
(***************************************************************************)
(* The space accounting                                                    *)
(***************************************************************************)
(* The size admitted for the object being written, and the sizes there are *)
Reserved == IF op.kind = "set" /\ pc # "refuse" THEN ObjSize(op.max) ELSE 0
ObjectSizes == {ObjSize(LenOf[v] + k) : v \in Values, k \in Slacks \cup {0}}

Written  == {"hdr", "data", "commit", "inact"}
Answered == {"idle", "refuse", "del"}
Compacting == Saving \cup Moving \cup {"c3erase", "scan"}

(* The phase of the accounting at each place of the code *)
LEMMA PhaseIs ==
    /\ st = "down" => Phase = "down"
    /\ st = "init" => Phase = "recovering"
    /\ st = "up" /\ pc \in Answered => Phase = "ready"
    /\ st = "up" /\ pc \in Written => Phase = "writing"
    /\ st = "up" /\ pc \in {"fmt", "scan"} /\ op.kind = "fmt" => Phase = "formatting"
    /\ st = "up" /\ pc \in Compacting /\ op.kind # "fmt" => Phase = "compacting"
<1>1. (st = "up" /\ pc \in Written) => Phase = "writing"
    BY DEF Phase, Written
<1>2. (st = "up" /\ pc \in Answered) => Phase = "ready"
    BY DEF Phase, Answered
<1>3. st = "up" /\ pc \in {"fmt", "scan"} /\ op.kind = "fmt" => Phase = "formatting"
    BY DEF Phase
<1>4. st = "up" /\ pc \in Compacting /\ op.kind # "fmt" => Phase = "compacting"
    BY DEF Phase, Compacting, Saving, Moving, Copying1, Copying2
<1>5. (st = "down" => Phase = "down") /\ (st = "init" => Phase = "recovering")
    BY DEF Phase
<1> QED
    BY <1>1, <1>2, <1>3, <1>4, <1>5

(* PhaseIs, of the next state *)
LEMMA PhaseNext ==
    /\ st' = "down" => Phase' = "down"
    /\ st' = "init" => Phase' = "recovering"
    /\ st' = "up" /\ pc' \in Answered => Phase' = "ready"
    /\ st' = "up" /\ pc' \in Written => Phase' = "writing"
    /\ st' = "up" /\ pc' \in {"fmt", "scan"} /\ op'.kind = "fmt" => Phase' = "formatting"
    /\ st' = "up" /\ pc' \in Compacting /\ op'.kind # "fmt" => Phase' = "compacting"
<1>1. (/\ st = "down" => Phase = "down"
       /\ st = "init" => Phase = "recovering"
       /\ st = "up" /\ pc \in Answered => Phase = "ready"
       /\ st = "up" /\ pc \in Written => Phase = "writing"
       /\ st = "up" /\ pc \in {"fmt", "scan"} /\ op.kind = "fmt" => Phase = "formatting"
       /\ st = "up" /\ pc \in Compacting /\ op.kind # "fmt" => Phase = "compacting")'
    BY PhaseIs, PTL
<1> QED
    BY <1>1 DEF Compacting, Saving, Moving, Copying1, Copying2, Answered, Written

(* While objects are written the counters are those of a scan *)
LEMMA PlaceOccupied ==
    ASSUME Core
    PROVE  /\ st = "up" /\ pc \in Answered \cup Written => Occupied = <<total, free>>
           /\ pc = "scan" /\ op.kind = "set" => Occupied[1] = Occupied[2]
<1>1. TypeInv /\ CallInv /\ Extents(fl)
    BY DEF Core, TypeInv
<1>2. ASSUME st = "up", pc \in Answered \cup {"hdr"} PROVE Occupied = <<total, free>>
    <2>1. Counted(fl)
        BY <1>2 DEF Core, ReadyInv, Answered
    <2>2. /\ DataArea(fl, fl, free) /\ ~Valid(desc) /\ free \in Nat /\ total = ActiveSize(fl)
        BY <1>1, <2>1, CountedFacts
    <2>3. Occupied = <<ActiveSize(fl), free>>
        BY <1>1, <2>2, RestoredData, ValidIs
    <2> QED
        BY <2>2, <2>3
<1>3. ASSUME pc \in {"data", "commit", "inact"} PROVE Occupied = <<total, free>>
    <2> DEFINE O == Before(free)
    <2>1. O \subseteq fl /\ ~Valid(desc) /\ free \in Nat /\ total = ActiveSize(O)
        BY <1>3, WritingMeans
    <2>2. DataArea(fl, O, free)
        BY <1>3, DurableBehind
    <2> HIDE DEF O
    <2>3. Occupied = <<ActiveSize(O), free>>
        BY <1>1, <2>1, <2>2, RestoredData, ValidIs
    <2> QED
        BY <2>1, <2>3
<1>4. ASSUME pc = "scan", op.kind = "set" PROVE Occupied[1] = Occupied[2]
    <2>1. PICK end \in 0..PartSize :
            DataArea(fl, fl, end) /\ desc = BlankDesc /\ end = ActiveSize(fl)
        BY <1>4 DEF Core, ScanInv
    <2>2. end \in Nat /\ ~Valid(desc)
        BY <2>1, PartSizeAssumption, BlankInvalid
    <2>3. Occupied = <<ActiveSize(fl), end>>
        BY <1>1, <2>1, <2>2, RestoredData, ValidIs
    <2> QED
        BY <2>1, <2>3
<1> QED
    BY <1>2, <1>3, <1>4 DEF Written

(* PlaceOccupied, of the next state *)
LEMMA PlaceNext ==
    Core' => (st' = "up" /\ pc' \in Answered \cup Written => Occupied' = <<total', free'>>)
<1>1. Core => (st = "up" /\ pc \in Answered \cup Written => Occupied = <<total, free>>)
    BY PlaceOccupied
<1>2. (Core => (st = "up" /\ pc \in Answered \cup Written => Occupied = <<total, free>>))'
    BY <1>1, PTL
<1> QED
    BY <1>2 DEF Answered, Written

(* The call in progress and the size reserved for it *)
LEMMA ReservedIs ==
    ASSUME Core
    PROVE  /\ op.kind # "set" => Reserved = 0
           /\ pc \in Written => /\ st = "up" /\ op.kind = "set" /\ Reserved = ObjSize(op.max)
                                /\ op.vl \in Values /\ Reserved \in Nat
                                /\ ObjSize(LenOf[op.vl]) \in ObjectSizes
                                /\ ObjSize(LenOf[op.vl]) <= Reserved
<1>1. TypeInv /\ CallInv
    BY DEF Core
<1>2. op.kind # "set" => Reserved = 0
    BY DEF Reserved
<1>3. ASSUME pc \in Written
      PROVE  /\ st = "up" /\ op.kind = "set" /\ Reserved = ObjSize(op.max)
             /\ op.vl \in Values /\ Reserved \in Nat
             /\ ObjSize(LenOf[op.vl]) \in ObjectSizes
             /\ ObjSize(LenOf[op.vl]) <= Reserved
    <2>1. st = "up" /\ op \in Calls /\ op.kind = "set" /\ op.vl \in Values /\ LenOf[op.vl] <= op.max
        BY <1>3, WritingMeans DEF Written
    <2>2. Reserved = ObjSize(op.max)
        BY <1>3, <2>1 DEF Reserved, Written
    <2>3. LenOf[op.vl] \in Nat /\ op.max \in Nat
        BY <2>1, PsmAssumption DEF Calls
    <2>4. ObjSize(LenOf[op.vl]) <= ObjSize(op.max) /\ ObjSize(op.max) \in Nat
        BY <2>1, <2>3, ObjSizes
    <2>5. ObjSize(LenOf[op.vl]) \in ObjectSizes
        <3>1. LenOf[op.vl] = LenOf[op.vl] + 0 /\ 0 \in Slacks \cup {0}
            BY <2>3
        <3> QED
            BY <2>1, <3>1 DEF ObjectSizes
    <2> QED
        BY <2>1, <2>2, <2>4, <2>5
<1> QED
    BY <1>2, <1>3

-----------------------------------------------------------------------------
(* A step that changes nothing of the accounting *)
Unbooked == UNCHANGED <<total, free>> /\ Occupied' = Occupied /\ Phase' = Phase /\ Reserved' = Reserved

(* Such a step is none of the accounting *)
LEMMA UnbookedMaps ==
    ASSUME Unbooked
    PROVE  UNCHANGED Space!vars
BY DEF Unbooked, Space!vars, Occupied, Reserved

(* A step between two places of the same phase and call *)
LEMMA SamePhase ==
    ASSUME UNCHANGED <<total, free, st, op>>, Occupied' = Occupied, st \in {"init", "up"},
           pc # "refuse", pc' # "refuse",
           \/ st = "init"
           \/ pc \in Written /\ pc' \in Written
           \/ pc \in Compacting /\ pc' \in Compacting /\ op.kind # "fmt"
    PROVE  Unbooked
<1>1. Reserved' = Reserved
    BY DEF Reserved
<1>2. Phase' = Phase
    BY PhaseIs, PhaseNext
<1> QED
    BY <1>1, <1>2 DEF Unbooked

(* The admission rule is the same in both modules *)
LEMMA SameLayout ==
    ASSUME NEW t, NEW f, NEW size
    PROVE  /\ Space!Admission(t, f, size) = Admission(t, f, size)
           /\ Space!CopiesOverflowSwap(t) = CopiesOverflowSwap(t)
<1>1. ASSUME NEW x PROVE Space!Align(x) = Align(x)
    BY DEF Align, Space!Align
<1>2. /\ Space!DescSize = DescSize /\ Space!Demarc = Demarc /\ Space!SwapLimit = SwapLimit
      /\ Space!LenSane(size) = LenSane(size)
    BY DEF DescSize, Space!DescSize, Demarc, Space!Demarc, SwapLimit, Space!SwapLimit,
           LenSane, Space!LenSane
<1>3. ASSUME NEW x
      PROVE  Space!PlannedSwap(x) = PlannedSwap(x) /\ Space!SwapStart(x) = SwapStart(x)
    BY <1>1, <1>2 DEF PlannedSwap, Space!PlannedSwap, SwapStart, Space!SwapStart
<1>4. Space!Admission(t, f, size) = Admission(t, f, size)
    BY <1>2, <1>3 DEF Admission, Space!Admission
<1>5. Space!CopiesOverflowSwap(t) = CopiesOverflowSwap(t)
    BY <1>2, <1>3 DEF CopiesOverflowSwap, Space!CopiesOverflowSwap, SwapData, Space!SwapData
<1> QED
    BY <1>4, <1>5

(* The starts of calls, in the accounting *)
LEMMA BeginSpace ==
    ASSUME Core, Core', Begin
    PROVE  [Space!Next]_(Space!vars)
<1>1. st = "up" /\ pc = "idle" /\ op = NoCall /\ Reserved = 0 /\ Phase = "ready"
    <2>1. st = "up" /\ pc = "idle" /\ op = NoCall
        BY DEF Begin, BeginSet, BeginDelete, BeginFormat, Idle
    <2> QED
        BY <2>1, PhaseIs DEF Reserved, NoCall, Answered
<1>2. ASSUME NEW nm \in Names, NEW v \in Values, NEW k \in Slacks, BeginSet(nm, v, k)
      PROVE  [Space!Next]_(Space!vars)
    <2> DEFINE size == ObjSize(LenOf[v] + k)
    <2>1. Occupied' = Occupied /\ UNCHANGED <<total, free, st>> /\ LenOf[v] + k \in Nat
        BY <1>2, BeginSetKeeps, PsmAssumption DEF BeginSet
    <2>2. op'.kind = "set" /\ op'.max = LenOf[v] + k
        BY <1>2 DEF BeginSet
    <2>3. size \in ObjectSizes
        BY DEF ObjectSizes
    <2>4. \/ pc' = "refuse"
          \/ Admission(total, free, size) = "fits" /\ pc' = "hdr"
          \/ Admission(total, free, size) = "compact" /\ pc' = "c0erase"
        BY <1>2 DEF BeginSet, StartCompaction
    <2>5. CASE pc' = "refuse"
        <3>1. Phase' = "ready" /\ Reserved' = 0
            BY <1>1, <2>1, <2>5, PhaseNext DEF Reserved, Answered
        <3>2. Unbooked
            BY <1>1, <2>1, <3>1 DEF Unbooked
        <3> QED
            BY <3>2, UnbookedMaps
    <2>6. CASE Admission(total, free, size) = "fits" /\ pc' = "hdr"
        <3>1. Phase' = "writing" /\ Reserved' = size
            BY <1>1, <2>1, <2>2, <2>6, PhaseNext DEF Reserved, Written
        <3>2. Space!Admit(size)
            BY <1>1, <2>1, <2>6, <3>1, SameLayout DEF Space!Admit, Occupied, Reserved
        <3> QED
            BY <2>3, <3>2 DEF Space!Next, ObjectSizes
    <2>7. CASE Admission(total, free, size) = "compact" /\ pc' = "c0erase"
        <3>1. Phase' = "compacting" /\ Reserved' = size
            BY <1>1, <2>1, <2>2, <2>7, PhaseNext DEF Reserved, Compacting, Saving
        <3>2. Space!AdmitCompact(size)
            BY <1>1, <2>1, <2>7, <3>1, SameLayout DEF Space!AdmitCompact, Occupied, Reserved
        <3> QED
            BY <2>3, <3>2 DEF Space!Next, ObjectSizes
    <2> QED
        BY <2>4, <2>5, <2>6, <2>7
<1>3. ASSUME NEW nm \in Names, BeginDelete(nm)
      PROVE  [Space!Next]_(Space!vars)
    <2>1. Occupied' = Occupied /\ UNCHANGED <<total, free, st>> /\ pc' = "del"
        BY <1>3, BeginDeleteKeeps DEF BeginDelete
    <2>2. op'.kind = "del"
        BY <1>3 DEF BeginDelete, NoCall
    <2>3. Phase' = "ready" /\ Reserved' = 0
        BY <1>1, <2>1, <2>2, PhaseNext DEF Reserved, Answered
    <2>4. Unbooked
        BY <1>1, <2>1, <2>3 DEF Unbooked
    <2> QED
        BY <2>4, UnbookedMaps
<1>4. CASE BeginFormat
    <2>1. Occupied' = Occupied /\ UNCHANGED <<total, free, st>> /\ pc' = "fmt"
        BY <1>4, BeginFormatKeeps DEF BeginFormat
    <2>2. op'.kind = "fmt"
        BY <1>4 DEF BeginFormat, NoCall
    <2>3. Phase' = "formatting" /\ Reserved' = 0
        BY <1>1, <2>1, <2>2, PhaseNext DEF Reserved
    <2>4. Space!BeginFormat
        BY <1>1, <2>1, <2>3 DEF Space!BeginFormat, Occupied, Reserved
    <2> QED
        BY <2>4 DEF Space!Next
<1> QED
    BY <1>2, <1>3, <1>4 DEF Begin

(* The step that completes an object *)
LEMMA FinishMaps ==
    ASSUME Core, Core', pc \in {"commit", "inact"}, NEW old \in ObjectSizes \cup {0}, old <= total,
           total' = total + ObjSize(LenOf[op.vl]) - old,
           free' = free + ObjSize(LenOf[op.vl]), st' = st, Return("ok")
    PROVE  Space!Next
<1> DEFINE size == ObjSize(LenOf[op.vl])
<1>1. /\ st = "up" /\ op.kind = "set" /\ size \in ObjectSizes /\ size <= Reserved
      /\ Phase = "writing" /\ Occupied = <<total, free>>
    BY ReservedIs, PhaseIs, PlaceOccupied DEF Written
<1>2. pc' = "idle" /\ op' = NoCall
    BY DEF Return
<1>3. Phase' = "ready" /\ Reserved' = 0 /\ Occupied' = <<total', free'>>
    BY <1>1, <1>2, PhaseNext, PlaceNext DEF Reserved, NoCall, Answered
<1> HIDE DEF size
<1>4. Space!Finish(size, old)
    BY <1>1, <1>3 DEF Space!Finish, Occupied, Reserved, size
<1> QED
    BY <1>1, <1>4 DEF Space!Next, ObjectSizes

(* Writes and deletions, in the accounting *)
LEMMA WritingSpace ==
    ASSUME Core, Core', ValidIds, IdsLeft,
           Refuse \/ WriteHeader \/ WriteData \/ Commit \/ InactivateOld \/ DeleteObject
    PROVE  [Space!Next]_(Space!vars)
<1>1. CASE Refuse
    <2>1. /\ pc = "refuse" /\ pc' = "idle" /\ op' = NoCall /\ UNCHANGED <<total, free, st>>
          /\ Occupied' = Occupied
        BY <1>1, RefuseKeeps DEF Refuse, Return
    <2>2. st = "up"
        BY <2>1 DEF Core, CallInv, TypeInv, NoCall
    <2>3. Reserved = 0 /\ Reserved' = 0
        BY <2>1 DEF Reserved, NoCall
    <2>4. Phase = "ready" /\ Phase' = "ready"
        BY <2>1, <2>2, PhaseIs, PhaseNext DEF Answered
    <2> QED
        BY <2>1, <2>3, <2>4, UnbookedMaps DEF Unbooked
<1>2. CASE WriteHeader \/ WriteData \/ (Commit /\ w.old # {})
    <2>1. /\ pc \in Written /\ pc' \in Written /\ UNCHANGED <<total, free, st, op>>
        <3>1. CASE WriteHeader
            BY <3>1, HeaderIs DEF WriteHeader, Written
        <3>2. CASE WriteData \/ (Commit /\ w.old # {})
            BY <3>2 DEF WriteData, Commit, Written
        <3> QED
            BY <1>2, <3>1, <3>2
    <2>2. st = "up"
        BY <2>1, ReservedIs
    <2>3. Occupied' = Occupied
        BY <2>1, <2>2, PlaceOccupied, PlaceNext
    <2>4. Unbooked
        BY <2>1, <2>2, <2>3, SamePhase DEF Written
    <2> QED
        BY <2>4, UnbookedMaps
<1>3. CASE Commit /\ w.old = {}
    <2>1. /\ pc = "commit" /\ UNCHANGED st /\ Return("ok")
          /\ total' = total + ObjSize(LenOf[op.vl]) - 0 /\ free' = free + ObjSize(LenOf[op.vl])
        BY <1>3 DEF Commit, FinishSet
    <2>2. 0 <= total
        BY DEF Core, TypeInv
    <2> QED
        BY <2>1, <2>2, FinishMaps
<1>4. CASE InactivateOld
    <2> DEFINE O == Before(free)
    <2>1. pc = "inact"
        BY <1>4 DEF InactivateOld
    <2>2. PICK o \in O : w.old = {o} /\ o.live
        BY <2>1, OldIs
    <2>3. /\ UNCHANGED st /\ Return("ok")
          /\ total' = total + ObjSize(LenOf[op.vl]) - SizeOf(o) /\ free' = free + ObjSize(LenOf[op.vl])
        BY <1>4, <2>2 DEF InactivateOld, FinishSet
    <2>4. Extents(O) /\ Area(O, 0, free) /\ Catalogue(O, 0) /\ total = ActiveSize(O) /\ free \in Nat
        BY <2>1, WritingMeans DEF Counted, Area
    <2> HIDE DEF O
    <2>5. o.vl \in Values /\ SizeOf(o) = ObjSize(LenOf[o.vl])
        BY <2>2, <2>4 DEF Catalogue
    <2>6. SizeOf(o) \in ObjectSizes
        <3>1. LenOf[o.vl] = LenOf[o.vl] + 0
            BY <2>5, PsmAssumption
        <3> QED
            BY <2>5, <3>1 DEF ObjectSizes
    <2>7. SizeOf(o) <= total
        <3> DEFINE g == Inactivate(O, {o})
        <3>1. Extents(g) /\ ActiveSize(g) = ActiveSize(O) - SizeOf(o)
            BY <2>2, <2>4, InactivateOne
        <3>2. ActiveSize(g) \in Nat /\ ActiveSize(O) \in Nat /\ SizeOf(o) \in Nat
            <4>1. SizeOf(o) \in Nat
                BY <2>2, <2>4 DEF Extents, Extent, SizeOf
            <4> QED
                BY <2>4, <3>1, <4>1, SizeType
        <3> QED
            BY <2>4, <3>1, <3>2
    <2> QED
        BY <2>1, <2>3, <2>6, <2>7, FinishMaps
<1>5. CASE DeleteObject
    <2>1. pc = "del" /\ pc' = "idle" /\ op' = NoCall /\ UNCHANGED <<free, st>>
        BY <1>5 DEF DeleteObject, Return
    <2>2. st = "up" /\ op.kind = "del"
        BY <2>1, DeleteMeans
    <2>3. PICK old \in {0} \cup {ObjSize(LenOf[v]) : v \in Values} : old <= total /\ total' = total - old
        BY <1>5, DeleteIs
    <2>4. old \in ObjectSizes \cup {0}
        <3>1. \A v \in Values : LenOf[v] = LenOf[v] + 0
            BY PsmAssumption
        <3> QED
            BY <2>3, <3>1 DEF ObjectSizes
    <2>5. /\ Phase = "ready" /\ Phase' = "ready" /\ Reserved = 0 /\ Reserved' = 0
          /\ Occupied = <<total, free>> /\ Occupied' = <<total', free'>>
        BY <2>1, <2>2, PhaseIs, PhaseNext, PlaceOccupied, PlaceNext DEF Reserved, NoCall, Answered
    <2>6. Space!Delete(old)
        BY <2>1, <2>3, <2>5 DEF Space!Delete, Occupied, Reserved
    <2> QED
        BY <2>4, <2>6 DEF Space!Next, ObjectSizes
<1> QED
    BY <1>1, <1>2, <1>3, <1>4, <1>5

(* Compactions and psm_format, in the accounting *)
LEMMA CompactionSpace ==
    ASSUME Core, Core', OffTheEdge, IdsLeft,
           \/ FormatErase \/ EraseSwap \/ WriteSwapStart \/ CopyToSwap \/ WriteMarker
           \/ EraseData \/ CopyToData \/ InvalidateDescriptor \/ CleanSwap
    PROVE  [Space!Next]_(Space!vars)
<1>1. TypeInv /\ CallInv
    BY DEF Core
<1>2. ASSUME pc \in Saving \cup Moving \cup {"c3erase"}
      PROVE  op.kind # "fmt" /\ st \in {"init", "up"} /\ pc \in Compacting /\ pc # "refuse"
    BY <1>1, <1>2 DEF TypeInv, CallInv, Compacting, Saving, Moving, Copying1, Copying2
<1>3. CASE FormatErase
    <2>1. /\ pc = "fmt" /\ pc' \in {"fmt", "scan"} /\ UNCHANGED <<total, free, st, op>>
          /\ Occupied' = <<0, 0>>
        BY <1>3, FormatEraseKeeps DEF FormatErase, EraseAt
    <2>2. st = "up" /\ op.kind = "fmt"
        BY <1>1, <2>1 DEF TypeInv, CallInv, NoCall
    <2>3. Phase = "formatting" /\ Phase' = "formatting" /\ Reserved = 0 /\ Reserved' = 0
        BY <2>1, <2>2, PhaseIs, PhaseNext DEF Reserved
    <2>4. Space!EraseAll
        BY <2>1, <2>3 DEF Space!EraseAll, Occupied, Reserved
    <2> QED
        BY <2>4 DEF Space!Next
<1>4. CASE WriteMarker
    <2>1. /\ pc = "c1mark" /\ pc' = "c2erase" /\ UNCHANGED <<total, free, st, op>>
          /\ Occupied = <<total, free>> /\ Occupied' = <<total, total>>
        BY <1>4, WriteMarkerKeeps DEF WriteMarker
    <2>2. /\ pc \in Compacting /\ pc' \in Compacting /\ op.kind # "fmt" /\ st \in {"init", "up"}
        BY <1>2, <2>1 DEF Compacting, Saving, Moving, Copying1
    <2>3. Phase \in {"compacting", "recovering"} /\ Phase' = Phase
        BY <2>1, <2>2, PhaseIs, PhaseNext
    <2>4. Reserved' = Reserved
        BY <2>1 DEF Reserved
    <2>5. ~Space!CopiesOverflowSwap(total)
        <3>1. w.swap = SwapStart(total) /\ SwapData(w.swap) + total + 1 < SwapLimit
            BY <2>1 DEF Core, SavingInv, Saving, Copying1
        <3>2. SwapData(w.swap) \in Int /\ total \in Int /\ SwapLimit \in Int
            BY <1>1, PartSizeAssumption DEF TypeInv, Works, SwapData, Demarc, SwapLimit, DescSize
        <3>3. ~CopiesOverflowSwap(total)
            BY <3>1, <3>2 DEF CopiesOverflowSwap
        <3> QED
            BY <3>3, SameLayout
    <2>6. Space!Compacted
        BY <2>1, <2>3, <2>4, <2>5 DEF Space!Compacted, Occupied, Reserved
    <2> QED
        BY <2>6 DEF Space!Next
<1>5. CASE \/ EraseSwap \/ WriteSwapStart \/ CopyToSwap
           \/ EraseData \/ CopyToData \/ InvalidateDescriptor \/ CleanSwap
    <2>1. /\ pc \in Saving \cup Moving \cup {"c3erase"} /\ UNCHANGED <<total, free, st, op>>
          /\ pc' \in Compacting /\ Occupied' = Occupied
        <3>1. CASE EraseSwap
            BY <3>1, EraseSwapKeeps DEF EraseSwap, EraseAt, Compacting, Saving
        <3>2. CASE WriteSwapStart
            BY <3>2, WriteSwapStartKeeps DEF WriteSwapStart, Compacting, Saving, Copying1
        <3>3. CASE CopyToSwap
            <4>1. pc \in Saving
                BY <3>3 DEF CopyToSwap, Saving, Copying1
            <4> QED
                BY <3>3, <4>1, CopyToSwapKeeps DEF Compacting, Saving
        <3>4. CASE EraseData
            BY <3>4, EraseDataKeeps DEF EraseData, EraseAt, Compacting, Moving, Copying2
        <3>5. CASE CopyToData
            <4>1. pc \in Moving
                BY <3>5 DEF CopyToData, Moving, Copying2
            <4> QED
                BY <3>5, <4>1, CopyToDataKeeps DEF Compacting, Moving
        <3>6. CASE InvalidateDescriptor
            BY <3>6, InvalidateDescriptorKeeps DEF InvalidateDescriptor, Compacting, Moving, Copying2
        <3>7. CASE CleanSwap
            BY <3>7, CleanSwapKeeps DEF CleanSwap, EraseAt, Compacting
        <3> QED
            BY <1>5, <3>1, <3>2, <3>3, <3>4, <3>5, <3>6, <3>7
    <2>2. op.kind # "fmt" /\ st \in {"init", "up"} /\ pc \in Compacting /\ pc # "refuse" /\ pc' # "refuse"
        BY <1>2, <2>1 DEF Compacting, Saving, Moving, Copying1, Copying2
    <2>3. Unbooked
        BY <2>1, <2>2, SamePhase
    <2> QED
        BY <2>3, UnbookedMaps
<1> QED
    BY <1>3, <1>4, <1>5

(* The scan at the end, in the accounting *)
LEMMA RescanSpace ==
    ASSUME Core, Core', Rescan
    PROVE  Space!Next
<1>1. TypeInv /\ CallInv
    BY DEF Core
<1>2. /\ pc = "scan" /\ Scan(fl).ok /\ Occupied' = Occupied
    BY RescanMeans, RescanKeeps
<1>3. \/ st = "init" /\ st' = "up" /\ Return("none")
      \/ st = "up" /\ op.kind = "fmt" /\ st' = "up" /\ Return("ok")
      \/ /\ st = "up" /\ op.kind = "set" /\ pc' = "hdr" /\ UNCHANGED <<st, op>>
    <2>1. st \in {"init", "up"} /\ op.kind \in {"none", "set", "fmt"} /\ (st = "up" => op.kind # "none")
        BY <1>1, <1>2 DEF TypeInv, CallInv, Calls
    <2> QED
        BY <1>2, <2>1 DEF Rescan
<1>4. Occupied' = <<total', free'>> /\ Reserved' = Reserved
    <2>1. st' = "up" /\ pc' \in Answered \cup Written
        BY <1>3 DEF Return, Answered, Written
    <2>2. Reserved' = Reserved
        <3>1. st = "init" => op.kind = "none"
            BY <1>1 DEF CallInv, NoCall
        <3> QED
            BY <1>2, <1>3, <3>1 DEF Reserved, Return, NoCall
    <2> QED
        BY <2>1, <2>2, PlaceNext
<1>5. \/ Phase = "compacting" /\ Occupied[1] = Occupied[2] /\ Phase' = "writing"
      \/ Phase \in {"recovering", "formatting"} /\ Phase' = "ready"
    <2>1. CASE st = "init" /\ st' = "up" /\ pc' = "idle"
        BY <2>1, PhaseIs, PhaseNext DEF Answered
    <2>2. CASE st = "up" /\ op.kind = "fmt" /\ st' = "up" /\ pc' = "idle"
        BY <1>2, <2>2, PhaseIs, PhaseNext DEF Answered
    <2>3. CASE st = "up" /\ op.kind = "set" /\ pc' = "hdr" /\ UNCHANGED <<st, op>>
        BY <1>2, <2>3, PhaseIs, PhaseNext, PlaceOccupied DEF Compacting, Written
    <2> QED
        BY <1>3, <2>1, <2>2, <2>3 DEF Return
<1>6. Space!Resume
    BY <1>2, <1>4, <1>5 DEF Space!Resume, Occupied, Reserved
<1> QED
    BY <1>6 DEF Space!Next

(* Starts and power failures, in the accounting *)
LEMMA RestartSpace ==
    ASSUME Core, Core', FormatIsSafe, Boot \/ Crash
    PROVE  Space!Next
<1>1. CASE Boot
    <2>1. /\ st = "down" /\ pc = "idle" /\ op = NoCall /\ UNCHANGED op /\ Occupied' = Occupied
        BY <1>1, BootMeans, BootKeeps
    <2>2. Phase = "down" /\ Reserved = 0 /\ Reserved' = 0
        BY <2>1, PhaseIs DEF Reserved, NoCall
    <2>3. st' # "failed"
        BY DEF Core, TypeInv
    <2>4. CASE DescValid
        <3>1. st' = "init" /\ UNCHANGED <<total, free>>
            BY <1>1, <2>4 DEF Boot
        <3>2. Phase' = "recovering"
            BY <3>1, PhaseNext
        <3>3. Space!Boot
            BY <2>1, <2>2, <3>1, <3>2 DEF Space!Boot, Occupied, Reserved
        <3> QED
            BY <3>3 DEF Space!Next
    <2>5. CASE ~DescValid
        <3>1. /\ total' = ActiveSize(Accepted(fl)) /\ free' = ChainEnd(Accepted(fl))
              /\ st' = "init" \/ (st' = "up" /\ pc' = "idle")
            <4>1. total' = Scan(fl).total /\ free' = Scan(fl).free
                BY <1>1, <2>5 DEF Boot
            <4>2. st' = "init" \/ (st' = "up" /\ pc' = "idle")
                BY <1>1, <2>1, <2>3, <2>5 DEF Boot
            <4> QED
                BY <4>1, <4>2 DEF Scan
        <3>2. Occupied = <<total', free'>>
            BY <2>5, <3>1 DEF Occupied, Restored
        <3>3. Phase' \in {"ready", "recovering"}
            BY <3>1, PhaseNext DEF Answered
        <3>4. Space!Boot
            BY <2>1, <2>2, <3>2, <3>3 DEF Space!Boot, Occupied, Reserved
        <3> QED
            BY <3>4 DEF Space!Next
    <2> QED
        BY <2>4, <2>5
<1>2. CASE Crash
    <2>1. /\ st \in {"init", "up"} /\ st' = "down" /\ total' = 0 /\ free' = 0
          /\ op' = NoCall /\ Occupied' = Occupied
        BY <1>2, CrashKeeps DEF Crash
    <2>2. Phase # "broken"
        BY <2>1 DEF Phase
    <2>3. Phase' = "down" /\ Reserved' = 0
        BY <2>1, PhaseNext DEF Reserved, NoCall
    <2>4. Space!PowerFailure
        BY <2>1, <2>2, <2>3 DEF Space!PowerFailure, Occupied, Reserved
    <2> QED
        BY <2>4 DEF Space!Next
<1> QED
    BY <1>1, <1>2

(* A new device has no bytes in use *)
LEMMA StartSpace ==
    ASSUME Init
    PROVE  Space!Init
<1>1. Extents(fl) /\ fl = {} /\ ~Valid(desc)
    BY InitHolds, BlankInvalid DEF Init, IInv, Core, TypeInv
<1>2. DataArea(fl, fl, 0)
    BY <1>1, AreaEmpty, SizeEmpty, EmptyFits DEF DataArea
<1>3. Occupied = <<0, 0>>
    BY <1>1, <1>2, RestoredData, ValidIs, SizeEmpty
<1>4. Phase = "down" /\ Reserved = 0 /\ total = 0 /\ free = 0
    BY PhaseIs DEF Init, Reserved, NoCall
<1> QED
    BY <1>3, <1>4 DEF Space!Init, Occupied, Reserved

(***************************************************************************)
(* psm-v2.c does with the sizes of its objects what PsmSpace says, so that *)
(* what PsmSpaceProofs shows of the room for a compaction is true of it:   *)
(* the two counters in RAM are kept through writes, deletions, compactions *)
(* and restarts as the rules of admission expect them.                     *)
(***************************************************************************)
THEOREM SpaceImplemented ==
    ASSUME ValidIds, FormatIsSafe
    PROVE  Spec /\ [](OffTheEdge /\ IdsLeft) => ImplementsSpace
<1>1. Init => Space!Init
    BY StartSpace
<1>2. IInv /\ IInv' /\ OffTheEdge /\ IdsLeft /\ [Next]_vars => [Space!Next]_(Space!vars)
    <2> SUFFICES ASSUME Core, Core', OffTheEdge, IdsLeft, [Next]_vars
                 PROVE  [Space!Next]_(Space!vars)
        BY DEF IInv
    <2>1. CASE Begin
        BY <2>1, BeginSpace
    <2>2. CASE Refuse \/ WriteHeader \/ WriteData \/ Commit \/ InactivateOld \/ DeleteObject
        BY <2>2, WritingSpace
    <2>3. CASE \/ FormatErase \/ EraseSwap \/ WriteSwapStart \/ CopyToSwap \/ WriteMarker
               \/ EraseData \/ CopyToData \/ InvalidateDescriptor \/ CleanSwap
        BY <2>3, CompactionSpace
    <2>4. CASE Rescan
        BY <2>4, RescanSpace
    <2>5. CASE Boot \/ Crash
        BY <2>5, RestartSpace
    <2>6. CASE UNCHANGED vars
        <3>1. Occupied' = Occupied /\ UNCHANGED <<total, free, st, pc, op>>
            BY <2>6, DurableSame DEF vars
        <3>2. Unbooked
            BY <3>1 DEF Unbooked, Phase, Reserved
        <3> QED
            BY <3>2, UnbookedMaps
    <2> QED
        BY <2>1, <2>2, <2>3, <2>4, <2>5, <2>6 DEF Next, Work
<1> QED
    BY <1>1, <1>2, Invariant, PTL DEF Spec, ImplementsSpace, Space!Spec
=============================================================================
