----------------------------- MODULE HeapProofs -----------------------------
(***************************************************************************)
(* For every heap, every alignment and header size, and every sequence of  *)
(* allocations and frees: the blocks tile the heap, the free list is       *)
(* sorted and merged, and null means that nothing fits.                    *)
(***************************************************************************)
EXTENDS Heap, FiniteSetTheorems, TLAPS

\* The provers have half a minute for each leaf that names none itself.
USE SMTT(30), ZenonT(30)

\* Multiples of ALIGN, which is what every address and size in the heap is.
Aligned(x) == \E k \in Nat : x = k * ALIGN

\* What the code fixes about sizes and addresses.
LEMMA Constants ==
  /\ ALIGN \in Nat /\ ALIGN >= 1 /\ HEADER_SIZE \in Nat /\ HEADER_SIZE >= 1
  /\ HEAP_START \in Nat /\ HEAP_START >= 1 /\ HEAP_SIZE \in Nat /\ HEADER_SIZE <= HEAP_SIZE
  /\ END = HEAP_START + HEAP_SIZE /\ null = 0 /\ USIZE_MAX \in Nat
BY HeapAssumption DEF END, null

\* Quotient and remainder.
LEMMA DivMod ==
  ASSUME NEW v \in Nat, NEW d \in Nat, d >= 1
  PROVE  v \div d \in Nat /\ v % d \in 0 .. d - 1 /\ v = (v \div d) * d + (v % d)
OBVIOUS

\* Products grow with their factors,
LEMMA Grows ==
  ASSUME NEW a \in Int, NEW b \in Int, NEW c \in Nat, a <= b
  PROVE  a * c <= b * c
OBVIOUS

\* and only then.
LEMMA Shrinks ==
  ASSUME NEW a \in Nat, NEW b \in Nat, NEW c \in Nat, c >= 1, a * c <= b * c
  PROVE  a <= b
<1> SUFFICES ASSUME b + 1 <= a PROVE FALSE
  OBVIOUS
<1>1. (b + 1) * c <= a * c
  BY Grows
<1>2. (b + 1) * c = b * c + c
  OBVIOUS
<1> QED BY <1>1, <1>2

\* Sums and differences of multiples of ALIGN are multiples.
LEMMA AlignedSum ==
  ASSUME NEW x, NEW y, Aligned(x), Aligned(y)
  PROVE  x \in Nat /\ y \in Nat /\ Aligned(x + y) /\ (y <= x => Aligned(x - y))
<1>1. PICK j \in Nat : x = j * ALIGN
  BY DEF Aligned
<1>2. PICK k \in Nat : y = k * ALIGN
  BY DEF Aligned
<1>3. x \in Nat /\ y \in Nat
  BY <1>1, <1>2, Constants
<1>4. x + y = (j + k) * ALIGN
  BY <1>1, <1>2, Constants
<1>5. Aligned(x + y)
  BY <1>4 DEF Aligned
<1>6. ASSUME y <= x PROVE Aligned(x - y)
  <2>1. k <= j
    BY <1>1, <1>2, <1>6, Constants, Shrinks
  <2>2. x - y = (j - k) * ALIGN /\ j - k \in Nat
    BY <1>1, <1>2, <2>1, Constants
  <2> QED BY <2>2 DEF Aligned
<1> QED BY <1>3, <1>5, <1>6

\* No remainder means a multiple.
LEMMA Multiples ==
  ASSUME NEW x \in Nat, x % ALIGN = 0
  PROVE  Aligned(x)
<1>1. x \div ALIGN \in Nat /\ x = (x \div ALIGN) * ALIGN + (x % ALIGN)
  BY Constants, DivMod
<1>2. x = (x \div ALIGN) * ALIGN
  BY <1>1, Constants
<1> QED BY <1>1, <1>2 DEF Aligned

\* The heap and its header are whole multiples.
LEMMA AlignedConstants ==
  Aligned(HEAP_START) /\ Aligned(HEAP_SIZE) /\ Aligned(HEADER_SIZE) /\ Aligned(END)
<1>1. Aligned(HEAP_START) /\ Aligned(HEAP_SIZE) /\ Aligned(HEADER_SIZE)
  BY HeapAssumption, Multiples
<1> QED BY <1>1, AlignedSum, Constants

\* The addresses a header can be at are the multiples of ALIGN in the heap.
LEMMA StartsAre ==
  ASSUME NEW a
  PROVE  a \in Starts <=> Aligned(a) /\ HEAP_START <= a /\ a < END
<1>0. PICK s \in Nat : HEAP_START = s * ALIGN
  BY AlignedConstants DEF Aligned
<1>1. PICK n \in Nat : HEAP_SIZE = n * ALIGN
  BY AlignedConstants DEF Aligned
<1>2. HEAP_SIZE \div ALIGN = n
  BY <1>1, Constants
<1>3. ASSUME a \in Starts PROVE Aligned(a) /\ HEAP_START <= a /\ a < END
  <2>1. PICK i \in 0 .. n - 1 : a = HEAP_START + i * ALIGN
    BY <1>2, <1>3 DEF Starts
  <2>2. i \in Nat /\ i + 1 <= n
    BY <2>1, <1>1
  <2>3. (i + 1) * ALIGN <= n * ALIGN /\ (i + 1) * ALIGN = i * ALIGN + ALIGN
    BY <2>2, <1>1, Constants, Grows
  <2>4. i * ALIGN \in Nat /\ Aligned(i * ALIGN)
    BY <2>2, Constants DEF Aligned
  <2>5. Aligned(a)
    BY <2>1, <2>4, AlignedConstants, AlignedSum
  <2> QED BY <2>1, <2>3, <2>4, <2>5, <1>1, Constants
<1>4. ASSUME Aligned(a), HEAP_START <= a, a < END PROVE a \in Starts
  <2>0. Aligned(a - HEAP_START) /\ a \in Nat
    BY <1>4, AlignedConstants, AlignedSum
  <2>1. PICK i \in Nat : a - HEAP_START = i * ALIGN
    BY <2>0 DEF Aligned
  <2>2. i * ALIGN < n * ALIGN
    BY <2>0, <2>1, <1>4, <1>1, Constants
  <2>3. ~(n <= i)
    <3> SUFFICES ASSUME n <= i PROVE FALSE
      OBVIOUS
    <3>1. n * ALIGN <= i * ALIGN
      BY <1>1, <2>1, Constants, Grows
    <3>2. n * ALIGN \in Nat /\ i * ALIGN \in Nat
      BY <1>1, <2>1, Constants
    <3> QED BY <2>2, <3>1, <3>2
  <2>4. i \in 0 .. (HEAP_SIZE \div ALIGN) - 1
    BY <2>1, <2>3, <1>1, <1>2
  <2>5. a = HEAP_START + i * ALIGN
    BY <2>0, <2>1, Constants
  <2> QED BY <2>4, <2>5 DEF Starts
<1> QED BY <1>3, <1>4

\* align_up gives a multiple of ALIGN that is not smaller.
LEMMA RoundsUp ==
  ASSUME NEW v \in Nat, align_up(v, ALIGN) # None
  PROVE  Aligned(align_up(v, ALIGN)) /\ align_up(v, ALIGN) >= v /\ align_up(v, ALIGN) \in Nat
<1> DEFINE w == v + (ALIGN - 1)
<1>1. align_up(v, ALIGN) = w - (w % ALIGN)
  BY Constants DEF align_up
<1>2. w \in Nat /\ w >= v + ALIGN - 1
  BY Constants
<1> HIDE DEF w
<1>3. w \div ALIGN \in Nat /\ w % ALIGN \in 0 .. ALIGN - 1 /\ w = (w \div ALIGN) * ALIGN + (w % ALIGN)
  BY <1>2, Constants, DivMod, ZenonT(30)
<1>4. (w \div ALIGN) * ALIGN \in Nat
  BY <1>3, Constants
<1>5. w - (w % ALIGN) = (w \div ALIGN) * ALIGN
  BY <1>3, <1>4, <1>2, Constants
<1>6. w - (w % ALIGN) >= v
  BY <1>2, <1>3, Constants
<1> QED BY <1>1, <1>3, <1>4, <1>5, <1>6 DEF Aligned

\* What allocate looks for: whole units, and room for the header and the payload.
LEMMA BlockSize ==
  ASSUME NEW bytes \in Nat, aligned_block_size(bytes) # None
  PROVE  /\ aligned_block_size(bytes) \in Nat /\ Aligned(aligned_block_size(bytes))
         /\ aligned_block_size(bytes) >= bytes + HEADER_SIZE
<1> DEFINE w == align_up(bytes, ALIGN)
<1>1. w # None /\ aligned_block_size(bytes) = align_up(w + HEADER_SIZE, ALIGN)
  BY DEF aligned_block_size
<1>2. w \in Nat /\ w >= bytes
  BY <1>1, RoundsUp
<1> HIDE DEF w
<1>3. w + HEADER_SIZE \in Nat
  BY <1>2, Constants
<1>4. align_up(w + HEADER_SIZE, ALIGN) # None
  BY <1>1
<1>5. /\ Aligned(align_up(w + HEADER_SIZE, ALIGN)) /\ align_up(w + HEADER_SIZE, ALIGN) \in Nat
      /\ align_up(w + HEADER_SIZE, ALIGN) >= w + HEADER_SIZE
  BY <1>3, <1>4, RoundsUp
<1> QED BY <1>1, <1>2, <1>5, Constants
-----------------------------------------------------------------------------
\* A non-empty set of naturals has a least element,
LEMMA Least ==
  ASSUME NEW S, S \subseteq Nat, S # {}
  PROVE  \E x \in S : \A y \in S : x <= y
<1>1. PICK x \in S : \A y \in S : ~ (<<y, x>> \in OpToRel(<, Nat))
  BY WFMin, NatLessThanWellFounded, ZenonT(30)
<1>2. \A y \in S : ~(y < x)
  BY <1>1, ZenonT(30) DEF OpToRel
<1>3. \A y \in S : x <= y
  BY <1>2
<1> QED BY <1>3

\* and, when bounded, a greatest one.
LEMMA Greatest ==
  ASSUME NEW S, S \subseteq Nat, S # {}, NEW n \in Nat, \A y \in S : y <= n
  PROVE  \E x \in S : \A y \in S : y <= x
<1> DEFINE T == {n - y : y \in S}
<1>1. T \subseteq Nat /\ T # {}
  <2>1. PICK z \in S : TRUE
    BY ZenonT(30)
  <2>2. n - z \in T
    OBVIOUS
  <2>3. \A y \in S : n - y \in Nat
    OBVIOUS
  <2> QED BY <2>2, <2>3
<1>2. PICK t \in T : \A u \in T : t <= u
  <2> HIDE DEF T
  <2> QED BY <1>1, Least, ZenonT(30)
<1>3. PICK x \in S : t = n - x
  BY <1>2
<1>4. \A y \in S : n - x <= n - y
  BY <1>2, <1>3, ZenonT(30)
<1>5. \A y \in S : y <= x
  BY <1>3, <1>4
<1> QED BY <1>5

\* Addresses of headers are in the heap, and none is null.
LEMMA StartsAreNat == Starts \subseteq Nat \ {0} /\ \A a \in Starts : HEAP_START <= a /\ a < END
<1> SUFFICES ASSUME NEW a \in Starts PROVE a \in Nat /\ a # 0 /\ HEAP_START <= a /\ a < END
  OBVIOUS
<1>1. Aligned(a) /\ HEAP_START <= a /\ a < END
  BY StartsAre
<1>2. a \in Nat
  BY <1>1, AlignedSum
<1> QED BY <1>1, <1>2, Constants
-----------------------------------------------------------------------------
\* c comes right after p in H; null stands before the first and after the last.
Follows(H, p, c) ==
  /\ p # null => p \in H
  /\ c # null => c \in H
  /\ (p # null /\ c # null) => p < c
  /\ \A h \in H : (p # null /\ h <= p) \/ (c # null /\ c <= h)

\* The head fl and the links nx hold H, in the order of addresses.
List(fl, nx, H) ==
  /\ H \subseteq Starts
  /\ Follows(H, null, fl)
  /\ \A h \in H : Follows(H, h, nx[h])

\* Holes, for any head and links.
ClosedIn(fl, nx, S) == /\ fl # null => fl \in S
                       /\ \A a \in S : nx[a] # null => nx[a] \in S
HolesOf(fl, nx) == {a \in Starts : \A S \in SUBSET Starts : ClosedIn(fl, nx, S) => a \in S}

\* The holes of the current state.
LEMMA HolesAre == Holes = HolesOf(free_list, next)
BY DEF Holes, HolesOf, Closed, ClosedIn

\* An ordered list holds exactly what is linked.
LEMMA ListIsHoles ==
  ASSUME NEW fl, NEW nx, NEW H, List(fl, nx, H)
  PROVE  HolesOf(fl, nx) = H
<1>1. H \subseteq Starts /\ H \subseteq Nat /\ \A h \in H : h < END /\ h # 0
  BY StartsAreNat DEF List
<1>2. ClosedIn(fl, nx, H)
  BY DEF ClosedIn, List, Follows
<1>3. HolesOf(fl, nx) \subseteq H
  BY <1>1, <1>2 DEF HolesOf
<1>4. ASSUME NEW S \in SUBSET Starts, ClosedIn(fl, nx, S) PROVE H \subseteq S
  <2> SUFFICES ASSUME H \ S # {} PROVE FALSE
    OBVIOUS
  <2>1. H \ S \subseteq Nat
    BY <1>1
  <2>2. PICK x \in H \ S : \A y \in H \ S : x <= y
    BY <2>1, Least, ZenonT(30)
  <2>3. x \in Nat /\ x # 0
    BY <2>1, <1>1
  <2>4. fl # null /\ fl \in H /\ fl <= x
    BY <2>2 DEF List, Follows
  <2>5. fl \in S
    BY <2>4, <1>4 DEF ClosedIn
  <2> DEFINE B == {h \in H : h < x}
  <2>6. fl \in B
    BY <2>3, <2>4, <2>5, <2>2, <1>1
  <2>7. B \subseteq Nat /\ \A y \in B : y <= x
    <3> SUFFICES ASSUME NEW y \in B PROVE y \in Nat /\ y <= x
      OBVIOUS
    <3>1. y \in Nat /\ y < x
      BY <1>1
    <3> QED BY <3>1, <2>3
  <2>8. PICK p \in B : \A y \in B : y <= p
    <3> HIDE DEF B
    <3> QED BY <2>3, <2>6, <2>7, Greatest, ZenonT(30)
  <2>9. p \in H /\ p \in Nat /\ p # null /\ p < x
    BY <2>8, <1>1 DEF null
  <2>10. nx[p] # null /\ nx[p] <= x /\ nx[p] \in H /\ p < nx[p]
    BY <2>9, <2>2, <2>3 DEF List, Follows
  <2>11. nx[p] \in Nat
    BY <2>10, <1>1, ZenonT(30)
  <2>12. nx[p] = x
    <3> SUFFICES ASSUME nx[p] < x PROVE FALSE
      BY <2>10, <2>11, <2>3
    <3>1. nx[p] \in B
      BY <2>10
    <3>2. nx[p] <= p
      BY <2>8, <3>1
    <3> QED BY <3>2, <2>9, <2>10, <2>11
  <2>13. p \in S
    BY <2>2, <2>3, <2>9
  <2> QED BY <2>13, <2>10, <2>12, <2>2, <1>4 DEF ClosedIn
<1>5. H \subseteq HolesOf(fl, nx)
  BY <1>1, <1>4 DEF HolesOf
<1> QED BY <1>3, <1>5

\* nx1 is nx with b put in between p and c.
Inserted(fl, nx, H, p, c, b, nx1) ==
  /\ List(fl, nx, H) /\ Follows(H, p, c)
  /\ b \in Starts /\ b \notin H /\ (p # null => p < b) /\ (c # null => b < c)
  /\ nx1[b] = c /\ (p # null => nx1[p] = b)
  /\ \A h \in H : h # p => nx1[h] = nx[h]

\* insert_free's splice.
LEMMA ListInsert ==
  ASSUME NEW fl, NEW nx, NEW H, NEW p, NEW c, NEW b, NEW nx1,
         Inserted(fl, nx, H, p, c, b, nx1)
  PROVE  List(IF p = null THEN b ELSE fl, nx1, H \cup {b})
<1> USE DEF Inserted
<1> DEFINE fl1 == IF p = null THEN b ELSE fl
           H1  == H \cup {b}
<1>1. H \subseteq Nat \ {0} /\ b \in Nat \ {0} /\ H1 \subseteq Starts /\ null = 0
  BY StartsAreNat DEF List, null
<1>2. \A h \in H1 : h \in Nat /\ h # null
  BY <1>1
<1>p. p # null => p \in H /\ p \in Nat /\ p < b
  BY <1>1, ZenonT(30) DEF Follows
<1>c. c # null => c \in H /\ c \in Nat /\ b < c
  BY <1>1, ZenonT(30) DEF Follows
<1>g. \A h \in H : (p # null /\ h <= p) \/ (c # null /\ c <= h)
  BY DEF Follows
<1>3. Follows(H1, null, fl1)
  <2>1. CASE p = null
    <3>1. fl1 = b
      BY <2>1
    <3>2. ASSUME NEW h \in H1 PROVE b <= h
      BY <2>1, <1>1, <1>2, <1>c, <1>g
    <3> QED BY <3>1, <3>2, <1>1, <1>2 DEF Follows
  <2>2. CASE p # null
    <3>1. fl1 = fl /\ fl # null /\ fl \in H /\ \A h \in H : fl <= h
      BY <2>2, <1>p DEF Follows, List
    <3>2. ASSUME NEW h \in H1 PROVE fl <= h
      BY <2>2, <3>1, <1>1, <1>2, <1>p
    <3> QED BY <3>1, <3>2, <1>1, <1>2 DEF Follows
  <2> QED BY <2>1, <2>2
<1>4. ASSUME NEW h \in H1 PROVE Follows(H1, h, nx1[h])
  <2>1. CASE h = b
    <3>1. nx1[h] = c
      BY <2>1
    <3>2. ASSUME NEW g \in H1 PROVE g <= b \/ (c # null /\ c <= g)
      BY <1>1, <1>2, <1>p, <1>c, <1>g
    <3> QED BY <3>1, <3>2, <2>1, <1>1, <1>c DEF Follows
  <2>2. CASE h = p /\ p # null
    <3>1. nx1[h] = b
      BY <2>2
    <3>2. ASSUME NEW g \in H1 PROVE g <= p \/ b <= g
      BY <2>2, <1>1, <1>2, <1>p, <1>c, <1>g
    <3> QED BY <3>1, <3>2, <2>2, <1>1, <1>p DEF Follows
  <2>3. CASE h \in H /\ h # p
    <3> DEFINE e == nx[h]
    <3>1. nx1[h] = e /\ Follows(H, h, e)
      BY <2>3 DEF List
    <3> HIDE DEF e
    <3>2. h \in Nat /\ h # null
      BY <2>3, <1>2
    <3>3. e # null => e \in H /\ e \in Nat /\ h < e
      BY <3>1, <3>2, <1>1, ZenonT(30) DEF Follows
    <3>4. \A g \in H : g <= h \/ (e # null /\ e <= g)
      BY <3>1 DEF Follows
    <3>5. b <= h \/ (e # null /\ e <= b)
      <4>1. CASE p # null /\ h <= p
        <5>1. e # null /\ e <= p
          BY <4>1, <1>p, <3>2, <3>4, <2>3
        <5> QED BY <5>1, <3>3, <1>p, <1>1
      <4>2. CASE c # null /\ c <= h
        BY <4>2, <1>c, <1>1, <3>2
      <4> QED BY <4>1, <4>2, <2>3, <1>g
    <3>6. ASSUME NEW g \in H1 PROVE g <= h \/ (e # null /\ e <= g)
      BY <3>4, <3>5
    <3> QED BY <3>1, <3>2, <3>3, <3>6, <2>3 DEF Follows
  <2> QED BY <2>1, <2>2, <2>3, <1>2
<1> QED BY <1>1, <1>3, <1>4 DEF List

\* unlink, and absorbing a right neighbour: c goes, p points past it.
LEMMA ListRemove ==
  ASSUME NEW fl, NEW nx, NEW H, List(fl, nx, H),
         NEW p, NEW c \in H, Follows(H, p, c),
         NEW nx1, p # null => nx1[p] = nx[c],
         \A h \in H \ {c} : h # p => nx1[h] = nx[h]
  PROVE  /\ List(IF p = null THEN nx[c] ELSE fl, nx1, H \ {c})
         /\ Follows(H \ {c}, p, nx[c])
<1> DEFINE d == nx[c]
           fl1 == IF p = null THEN d ELSE fl
           H1  == H \ {c}
<1>1. H \subseteq Nat \ {0} /\ c \in Nat \ {0} /\ H1 \subseteq Starts /\ null = 0
  BY StartsAreNat DEF List, null
<1>2. Follows(H, c, d) /\ d # c
  BY <1>1 DEF List, Follows
<1>d. d # null => d \in H1 /\ d \in Nat /\ c < d
  BY <1>1, <1>2, ZenonT(30) DEF Follows
<1>e. \A h \in H : h <= c \/ (d # null /\ d <= h)
  BY <1>2 DEF Follows
<1> HIDE DEF d
<1>q. p # null => p \in H /\ p < c
  BY <1>1 DEF Follows
<1>p. p # null => p \in H1 /\ p \in Nat /\ p < c
  <2> SUFFICES ASSUME p # null PROVE p \in H1 /\ p \in Nat /\ p < c
    OBVIOUS
  <2>1. p \in H /\ p < c
    BY <1>q
  <2>2. p \in Nat /\ c \in Nat
    BY <1>1, <2>1
  <2>3. p # c
    BY <2>1, <2>2
  <2> QED BY <2>1, <2>2, <2>3
<1>g. \A h \in H : (p # null /\ h <= p) \/ c <= h
  BY DEF Follows
<1>3. Follows(H1, p, d)
  <2>1. ASSUME NEW h \in H1 PROVE (p # null /\ h <= p) \/ (d # null /\ d <= h)
    <3>1. h \in H /\ h \in Nat /\ h # c
      BY <1>1
    <3> QED BY <3>1, <1>1, <1>e, <1>g
  <2>2. (p # null /\ d # null) => p < d
    BY <1>p, <1>d, <1>1
  <2> QED BY <2>1, <2>2, <1>p, <1>d DEF Follows
<1>4. Follows(H1, null, fl1)
  <2>1. CASE p = null
    BY <2>1, <1>3
  <2>2. CASE p # null
    <3>1. fl1 = fl /\ fl # null /\ fl \in H /\ \A h \in H : fl <= h
      BY <2>2, <1>p DEF Follows, List
    <3>2. fl # c
      BY <3>1, <2>2, <1>p, <1>1
    <3> QED BY <3>1, <3>2, <1>1 DEF Follows
  <2> QED BY <2>1, <2>2
<1>5. ASSUME NEW h \in H1 PROVE Follows(H1, h, nx1[h])
  <2>1. CASE h = p
    <3>1. p # null
      BY <2>1, <1>1
    <3>2. nx1[h] = d
      BY <2>1, <3>1 DEF d
    <3> QED BY <2>1, <3>2, <1>3
  <2>2. CASE h # p
    <3> DEFINE e == nx[h]
    <3>1. nx1[h] = e /\ Follows(H, h, e)
      BY <2>2 DEF List
    <3> HIDE DEF e
    <3>2. h \in H /\ h \in Nat /\ h # null /\ h # c
      BY <1>1
    <3>3. e # c
      <4> SUFFICES ASSUME e = c PROVE FALSE
        OBVIOUS
      <4>1. h < c
        BY <3>1, <3>2, <1>1 DEF Follows
      <4>2. p # null /\ h <= p
        BY <4>1, <3>2, <1>1, <1>g
      <4>3. p <= h \/ c <= p
        BY <3>1, <4>2, <1>p DEF Follows
      <4> QED BY <4>2, <4>3, <3>2, <2>2, <1>1, <1>p
    <3> QED BY <3>1, <3>2, <3>3 DEF Follows
  <2> QED BY <2>1, <2>2
<1> QED BY <1>1, <1>3, <1>4, <1>5 DEF List, d

\* A list depends on the links of its members only.
LEMMA ListSame ==
  ASSUME NEW fl, NEW nx, NEW H, List(fl, nx, H), NEW nx1, \A h \in H : nx1[h] = nx[h]
  PROVE  List(fl, nx1, H)
BY DEF List
-----------------------------------------------------------------------------
\* The blocks B, with the sizes sz, cover the heap without overlapping.
Tiles(sz, B) ==
  /\ B \subseteq Starts
  /\ \A b \in B : Aligned(sz[b]) /\ sz[b] >= HEADER_SIZE /\ b + sz[b] <= END
  /\ \A b, c \in B : b < c => b + sz[b] <= c
  /\ \A a \in HEAP_START .. END - 1 : \E b \in B : b <= a /\ a < b + sz[b]

\* The blocks of a tiling are aligned, and not empty.
LEMMA TilesTypes ==
  ASSUME NEW sz, NEW B, Tiles(sz, B), NEW b \in B
  PROVE  b \in Nat /\ b # 0 /\ sz[b] \in Nat /\ sz[b] >= 1 /\ Aligned(b) /\ Aligned(sz[b])
<1>1. b \in Starts /\ Aligned(sz[b]) /\ sz[b] >= HEADER_SIZE
  BY DEF Tiles
<1>2. sz[b] \in Nat /\ Aligned(b)
  BY <1>1, AlignedSum, StartsAre
<1> QED BY <1>1, <1>2, StartsAreNat, Constants

\* A tiling depends on the sizes of its blocks only.
LEMMA TilesSame ==
  ASSUME NEW sz, NEW B, Tiles(sz, B), NEW sz1, \A b \in B : sz1[b] = sz[b]
  PROVE  Tiles(sz1, B)
BY DEF Tiles

\* allocate's split: the tail of b becomes a block of its own.
LEMMA TilesSplit ==
  ASSUME NEW sz, NEW B, Tiles(sz, B), NEW b \in B,
         NEW n, Aligned(n), n >= HEADER_SIZE, n <= sz[b], sz[b] - n >= HEADER_SIZE,
         NEW sz1, sz1[b] = n, sz1[b + n] = sz[b] - n,
         \A c \in B : c # b => sz1[c] = sz[c]
  PROVE  Tiles(sz1, B \cup {b + n}) /\ b + n \in Starts \ B
<1> DEFINE s == b + n
           B1 == B \cup {s}
<1>1. b \in Nat /\ sz[b] \in Nat /\ Aligned(b) /\ Aligned(sz[b]) /\ n \in Nat /\ n >= 1
  BY TilesTypes, AlignedSum, Constants
<1>2. b + sz[b] <= END /\ b \in Starts
  BY DEF Tiles
<1>3. s \in Nat /\ b < s /\ s < b + sz[b] /\ s < END /\ HEAP_START <= s
  BY <1>1, <1>2, Constants, StartsAreNat
<1>4. Aligned(s) /\ Aligned(sz[b] - n)
  BY <1>1, AlignedSum, ZenonT(30)
<1>5. s \in Starts
  BY <1>3, <1>4, StartsAre
<1>6. s \notin B
  <2> SUFFICES ASSUME s \in B PROVE FALSE
    OBVIOUS
  <2>1. b + sz[b] <= s
    BY <1>3 DEF Tiles
  <2> QED BY <2>1, <1>1, <1>3
<1>7. \A c \in B : c \in Nat /\ sz[c] \in Nat
  BY TilesTypes
<1>8. sz1[s] = sz[b] - n /\ s + sz1[s] = b + sz[b] /\ b + sz1[b] = s
  BY <1>1
<1> HIDE DEF s
<1>9. \A c \in B1 : Aligned(sz1[c]) /\ sz1[c] >= HEADER_SIZE /\ c + sz1[c] <= END
  <2> SUFFICES ASSUME NEW c \in B1
               PROVE  Aligned(sz1[c]) /\ sz1[c] >= HEADER_SIZE /\ c + sz1[c] <= END
    OBVIOUS
  <2>1. CASE c = s
    BY <2>1, <1>4, <1>8, <1>2
  <2>2. CASE c = b
    BY <2>2, <1>8, <1>3, <1>2, <1>1, Constants
  <2>3. CASE c \in B /\ c # b
    BY <2>3 DEF Tiles
  <2> QED BY <2>1, <2>2, <2>3
<1>10. \A c, e \in B1 : c < e => c + sz1[c] <= e
  <2> SUFFICES ASSUME NEW c \in B1, NEW e \in B1, c < e PROVE c + sz1[c] <= e
    OBVIOUS
  <2>0. c \in Nat /\ e \in Nat
    BY <1>3, <1>7
  <2>1. CASE c = s
    <3>1. e \in B /\ b < e
      BY <2>1, <2>0, <1>1, <1>3
    <3>2. b + sz[b] <= e
      BY <3>1 DEF Tiles
    <3> QED BY <2>1, <3>2, <1>8
  <2>2. CASE c = b
    <3>1. CASE e = s
      BY <2>2, <3>1, <1>8, <1>3
    <3>2. CASE e # s
      <4>1. b + sz[b] <= e
        BY <2>2, <3>2 DEF Tiles
      <4> QED BY <4>1, <2>2, <2>0, <1>1, <1>3, <1>8
    <3> QED BY <3>1, <3>2
  <2>3. CASE c \in B /\ c # b
    <3>1. sz1[c] = sz[c] /\ sz[c] \in Nat
      BY <2>3, <1>7
    <3>2. CASE e \in B
      BY <2>3, <3>1, <3>2 DEF Tiles
    <3>3. CASE e = s
      <4>1. c < b
        <5> SUFFICES ASSUME b < c PROVE FALSE
          BY <2>3, <2>0, <1>1
        <5>1. b + sz[b] <= c
          BY <2>3 DEF Tiles
        <5> QED BY <5>1, <3>3, <2>0, <1>1, <1>3
      <4>2. c + sz[c] <= b
        BY <4>1, <2>3 DEF Tiles
      <4> QED BY <4>2, <3>1, <3>3, <2>0, <1>1, <1>3
    <3> QED BY <3>2, <3>3
  <2> QED BY <2>1, <2>2, <2>3
<1>11. \A a \in HEAP_START .. END - 1 : \E c \in B1 : c <= a /\ a < c + sz1[c]
  <2> SUFFICES ASSUME NEW a \in HEAP_START .. END - 1
               PROVE  \E c \in B1 : c <= a /\ a < c + sz1[c]
    OBVIOUS
  <2>1. PICK c \in B : c <= a /\ a < c + sz[c]
    BY DEF Tiles
  <2>2. CASE c # b
    BY <2>1, <2>2
  <2>3. CASE c = b /\ a < s
    BY <2>1, <2>3, <1>8
  <2>4. CASE c = b /\ s <= a
    BY <2>1, <2>4, <1>8
  <2> QED BY <2>2, <2>3, <2>4, <1>3, Constants
<1> QED BY <1>5, <1>6, <1>9, <1>10, <1>11 DEF Tiles, s

\* insert_free's merge: l absorbs r, which starts where l ends.
LEMMA TilesJoin ==
  ASSUME NEW sz, NEW B, Tiles(sz, B), NEW l \in B, NEW r \in B, l + sz[l] = r,
         NEW sz1, sz1[l] = sz[l] + sz[r],
         \A c \in B \ {r} : c # l => sz1[c] = sz[c]
  PROVE  Tiles(sz1, B \ {r})
<1> DEFINE B1 == B \ {r}
<1>1. /\ l \in Nat /\ sz[l] \in Nat /\ sz[l] >= 1 /\ Aligned(sz[l])
      /\ r \in Nat /\ sz[r] \in Nat /\ sz[r] >= 1 /\ Aligned(sz[r])
  BY TilesTypes
<1>2. l < r /\ r + sz[r] <= END /\ l + sz1[l] = r + sz[r]
  BY <1>1 DEF Tiles
<1>3. \A c \in B : c \in Nat /\ sz[c] \in Nat
  BY TilesTypes
<1>4. \A c \in B1 : Aligned(sz1[c]) /\ sz1[c] >= HEADER_SIZE /\ c + sz1[c] <= END
  <2> SUFFICES ASSUME NEW c \in B1
               PROVE  Aligned(sz1[c]) /\ sz1[c] >= HEADER_SIZE /\ c + sz1[c] <= END
    OBVIOUS
  <2>1. CASE c = l
    <3>1. sz[l] >= HEADER_SIZE
      BY DEF Tiles
    <3>2. Aligned(sz[l] + sz[r])
      BY <1>1, AlignedSum
    <3> QED BY <2>1, <3>1, <3>2, <1>1, <1>2, Constants
  <2>2. CASE c # l
    BY <2>2 DEF Tiles
  <2> QED BY <2>1, <2>2
<1>5. \A c, e \in B1 : c < e => c + sz1[c] <= e
  <2> SUFFICES ASSUME NEW c \in B1, NEW e \in B1, c < e PROVE c + sz1[c] <= e
    OBVIOUS
  <2>0. c \in Nat /\ e \in Nat
    BY <1>3
  <2>1. CASE c = l
    <3>1. l + sz[l] <= e
      BY <2>1 DEF Tiles
    <3>2. r < e
      BY <3>1, <2>0, <1>1
    <3>3. r + sz[r] <= e
      BY <3>2 DEF Tiles
    <3> QED BY <2>1, <3>3, <1>2
  <2>2. CASE c # l
    BY <2>2 DEF Tiles
  <2> QED BY <2>1, <2>2
<1>6. \A a \in HEAP_START .. END - 1 : \E c \in B1 : c <= a /\ a < c + sz1[c]
  <2> SUFFICES ASSUME NEW a \in HEAP_START .. END - 1
               PROVE  \E c \in B1 : c <= a /\ a < c + sz1[c]
    OBVIOUS
  <2>0. a \in Nat
    BY Constants
  <2>1. PICK c \in B : c <= a /\ a < c + sz[c]
    BY DEF Tiles
  <2>2. l \in B1
    BY <1>1, <1>2
  <2>3. CASE c = l \/ c = r
    <3>1. l <= a /\ a < l + sz1[l]
      BY <2>0, <2>1, <2>3, <1>1, <1>2
    <3> QED BY <3>1, <2>2
  <2>4. CASE c # l /\ c # r
    BY <2>1, <2>4
  <2> QED BY <2>3, <2>4
<1> QED BY <1>4, <1>5, <1>6 DEF Tiles
-----------------------------------------------------------------------------
Apart(sz, nx, H) == \A h \in H : nx[h] # null => h + sz[h] < nx[h]

\* What Merge of l with its successor finds, and what it leaves.  X are the
\* holes whose own merge is still to come, Touched what l absorbs.
MergeReady(fl, nx, sz, H, B, l, X) ==
  /\ nx \in [Starts -> Nat] /\ sz \in [Starts -> Nat]
  /\ List(fl, nx, H) /\ Tiles(sz, B) /\ H \subseteq B
  /\ l \in H /\ nx[l] \notin X /\ Apart(sz, nx, (H \ X) \ {l})

Touched(nx, sz, l) == IF nx[l] # null /\ l + sz[l] = nx[l] THEN {nx[l]} ELSE {}

MergeDone(h1, G, fl, nx, sz, H, B, l, X) ==
  /\ h1.size \in [Starts -> Nat] /\ h1.next \in [Starts -> Nat]
  /\ List(fl, h1.next, H \ G) /\ Tiles(h1.size, B \ G)
  /\ Apart(h1.size, h1.next, (H \ G) \ X)
  /\ \A a \in Starts : a # l => h1.size[a] = sz[a] /\ h1.next[a] = nx[a]

\* One Merge: l absorbs its successor exactly when they touch, and then l no
\* longer touches the one after.
LEMMA MergeKeeps ==
  ASSUME NEW fl, NEW nx, NEW sz, NEW H, NEW B, NEW l, NEW X,
         MergeReady(fl, nx, sz, H, B, l, X)
  PROVE  MergeDone(Merge([size |-> sz, next |-> nx], l, nx[l]), Touched(nx, sz, l),
                   fl, nx, sz, H, B, l, X)
<1> DEFINE h1 == Merge([size |-> sz, next |-> nx], l, nx[l])
           G  == Touched(nx, sz, l)
<1>h. h1 = Merge([size |-> sz, next |-> nx], l, nx[l])
  OBVIOUS
<1>g. G = IF nx[l] # null /\ l + sz[l] = nx[l] THEN {nx[l]} ELSE {}
  BY DEF Touched
<1> HIDE DEF h1, G
<1>m. /\ nx \in [Starts -> Nat] /\ sz \in [Starts -> Nat]
      /\ List(fl, nx, H) /\ Tiles(sz, B) /\ H \subseteq B
      /\ l \in H /\ nx[l] \notin X /\ Apart(sz, nx, (H \ X) \ {l})
  BY DEF MergeReady
<1> SUFFICES /\ h1.size \in [Starts -> Nat] /\ h1.next \in [Starts -> Nat]
             /\ List(fl, h1.next, H \ G) /\ Tiles(h1.size, B \ G)
             /\ Apart(h1.size, h1.next, (H \ G) \ X)
             /\ \A a \in Starts : a # l => h1.size[a] = sz[a] /\ h1.next[a] = nx[a]
  BY DEF MergeDone, h1, G
<1> USE <1>m
<1> DEFINE r == nx[l]
<1>1. l \in Starts /\ l \in Nat /\ l # null /\ H \subseteq Starts /\ Follows(H, l, r)
  BY StartsAreNat DEF List, null
<1>2. r # null => r \in H /\ r \in Nat /\ l < r
  BY <1>1, StartsAreNat DEF Follows
<1>3. \A b \in B : b \in Nat /\ sz[b] \in Nat
  BY TilesTypes
<1>4. CASE r # null /\ l + sz[l] = r
  <2>1. G = {r}
    BY <1>4, <1>g
  <2>2. /\ h1.size = [sz EXCEPT ![l] = sz[l] + sz[r]]
        /\ h1.next = [nx EXCEPT ![l] = nx[r]]
    BY <1>1, <1>4, <1>h DEF Merge
  <2>3. r \in Starts /\ sz[r] \in Nat /\ sz[l] \in Nat /\ nx[r] \in Nat /\ r # l
    BY <1>1, <1>2, <1>4
  <2>s. sz[l] + sz[r] \in Nat /\ sz[l] + sz[r] >= sz[l]
    BY <2>3
  <2>t. h1.size \in [Starts -> Nat]
    BY <2>2, <2>s, ZenonT(30)
  <2>4. h1.next \in [Starts -> Nat]
    BY <2>2, <2>3, ZenonT(30)
  <2>5. /\ h1.size[l] = sz[l] + sz[r] /\ h1.next[l] = nx[r]
        /\ \A a \in Starts : a # l => h1.size[a] = sz[a] /\ h1.next[a] = nx[a]
    BY <2>2, <1>1
  <2> HIDE DEF r
  <2>6. List(fl, h1.next, H \ {r})
    <3>1. \A h \in H \ {r} : h # l => h1.next[h] = nx[h]
      BY <2>5, <1>1
    <3>2. Follows(H, l, r) /\ r \in H /\ h1.next[l] = nx[r]
      BY <2>5, <1>1, <1>2, <1>4
    <3> DEFINE n1 == h1.next
    <3> HIDE DEF n1
    <3>3. n1[l] = nx[r] /\ \A h \in H \ {r} : h # l => n1[h] = nx[h]
      BY <3>1, <3>2 DEF n1
    <3>4. List(IF l = null THEN nx[r] ELSE fl, n1, H \ {r})
      BY <3>2, <3>3, ListRemove, ZenonT(30)
    <3> QED BY <3>4, <1>1 DEF n1
  <2>7. Tiles(h1.size, B \ {r})
    <3>1. \A c \in B \ {r} : c # l => h1.size[c] = sz[c]
      BY <2>5 DEF Tiles
    <3>2. l \in B /\ r \in B
      BY <1>2, <1>4
    <3> QED BY <3>1, <3>2, <2>5, <1>4, TilesJoin
  <2>8. Apart(h1.size, h1.next, (H \ {r}) \ X)
    <3> SUFFICES ASSUME NEW h \in (H \ {r}) \ X, h1.next[h] # null
                 PROVE  h + h1.size[h] < h1.next[h]
      BY DEF Apart
    <3>1. CASE h = l
      <4>1. r \in (H \ X) \ {l}
        BY <1>2, <1>4, <2>3 DEF r
      <4>2. nx[r] # null
        BY <3>1, <2>5
      <4>3. r + sz[r] < nx[r]
        BY <4>1, <4>2 DEF Apart
      <4>4. l + h1.size[l] = r + sz[r]
        BY <2>5, <2>3, <1>1, <1>4
      <4> QED BY <4>3, <4>4, <3>1, <2>5
    <3>2. CASE h # l
      BY <3>2, <2>5, <1>1, ZenonT(30) DEF Apart
    <3> QED BY <3>1, <3>2
  <2>10. H \ G = H \ {r} /\ B \ G = B \ {r}
    BY <2>1
  <2> QED BY <2>t, <2>4, <2>5, <2>6, <2>7, <2>8, <2>10, ZenonT(30)
<1>5. CASE ~(r # null /\ l + sz[l] = r)
  <2>1. G = {} /\ h1 = [size |-> sz, next |-> nx]
    BY <1>5, <1>g, <1>h DEF Merge
  <2>2. h1.size = sz /\ h1.next = nx
    BY <2>1
  <2>g. H \ G = H /\ B \ G = B
    BY <2>1
  <2>3. r # null => l + sz[l] < r
    <3> SUFFICES ASSUME r # null PROVE l + sz[l] < r
      OBVIOUS
    <3>1. r \in B /\ l \in B /\ l < r /\ r \in Nat
      BY <1>2
    <3>2. l + sz[l] <= r
      BY <3>1 DEF Tiles
    <3>3. l + sz[l] # r
      BY <1>5
    <3> QED BY <3>1, <3>2, <3>3, <1>1, <1>3
  <2>4. Apart(sz, nx, H \ X)
    BY <2>3 DEF Apart
  <2> QED BY <2>2, <2>g, <2>4
<1> QED BY <1>4, <1>5
-----------------------------------------------------------------------------
Pending == IF pc = "insert" THEN {block} ELSE {}

\* Holes H, live blocks L and blocks on their way back P share the heap.
Memory(fl, nx, sz, H, L, P) ==
  /\ List(fl, nx, H) /\ Tiles(sz, H \cup L \cup P) /\ Apart(sz, nx, H)
  /\ H \cap L = {} /\ P \cap (H \cup L) = {}

Fitted(ak, sz, L) == \A b \in L : ak[b] > 0 /\ sz[b] >= ak[b] + HEADER_SIZE

\* Where the walk of allocate or insert_free stands, and what it has passed.
Walk ==
  /\ pc = "allocate" =>
       /\ Follows(Holes, prev, current)
       /\ request \in Nat /\ request > 0 /\ Aligned(needed) /\ needed >= request + HEADER_SIZE
       /\ \A h \in Holes : size[h] >= needed => current # null /\ current <= h
  /\ pc = "insert" =>
       /\ Follows(Holes, prev, current)
       /\ prev # null => prev < block

Types ==
  /\ size \in [Starts -> Nat] /\ next \in [Starts -> Nat] /\ asked \in [Starts -> Nat]
  /\ live \subseteq Starts /\ pc \in {"idle", "allocate", "insert"}
  /\ pc = "insert" => block \in Starts

NotReady == heap_start = 1 /\ heap_end = 1 /\ live = {} /\ pc = "idle" /\ free_list = null

HeapInv ==
  /\ Types
  /\ \/ NotReady
     \/ /\ heap_start = HEAP_START /\ heap_end = END
        /\ Memory(free_list, next, size, Holes, live, Pending)
        /\ Fitted(asked, size, live) /\ Walk

\* The holes after a step are those of any ordered list of them.
LEMMA HolesAfter ==
  ASSUME NEW H, List(free_list', next', H)
  PROVE  Holes' = H
<1>1. Holes' = HolesOf(free_list', next')
  BY DEF Holes, HolesOf, Closed, ClosedIn
<1> QED BY <1>1, ListIsHoles

\* No holes, no list.
LEMMA EmptyList == ASSUME NEW nx PROVE List(null, nx, {})
BY DEF List, Follows

\* The invariant holds before init.
LEMMA InitInv == Init => HeapInv
BY DEF Init, HeapInv, Types, NotReady, null

\* What the invariant says of a heap in use.
LEMMA ReadyIs ==
  ASSUME HeapInv
  PROVE  /\ NotReady => ~is_ready
         /\ is_ready => /\ heap_start = HEAP_START /\ heap_end = END
                        /\ Memory(free_list, next, size, Holes, live, Pending)
                        /\ Fitted(asked, size, live) /\ Walk
BY DEF HeapInv, NotReady, is_ready

\* init makes the heap one hole.
LEMMA InitCallInv == ASSUME HeapInv, init PROVE HeapInv'
<1>1. NotReady /\ Types
  <2>1. END > HEAP_START
    BY Constants
  <2> QED BY <2>1 DEF HeapInv, init, is_ready
<1>2. /\ HEAP_START \in Starts /\ HEAP_START \in Nat /\ HEAP_SIZE \in Nat /\ HEAP_START # 0
      /\ HEAP_START + HEAP_SIZE = END /\ Aligned(HEAP_SIZE) /\ HEAP_SIZE >= HEADER_SIZE
  BY Constants, AlignedConstants, StartsAre
<1>3. /\ size' = [size EXCEPT ![HEAP_START] = HEAP_SIZE]
      /\ next' = [next EXCEPT ![HEAP_START] = null]
      /\ heap_start' = HEAP_START /\ heap_end' = END /\ free_list' = HEAP_START
      /\ pc' = "idle" /\ live' = {} /\ asked' = asked
  BY <1>1 DEF init, NotReady
<1>4. size' \in [Starts -> Nat] /\ next' \in [Starts -> Nat]
  BY <1>1, <1>2, <1>3 DEF Types, null
<1>5. size'[HEAP_START] = HEAP_SIZE /\ next'[HEAP_START] = null
  BY <1>1, <1>2, <1>3 DEF Types
<1>6. List(free_list', next', {HEAP_START})
  BY <1>2, <1>3, <1>5 DEF List, Follows, null
<1>7. Holes' = {HEAP_START}
  BY <1>6, HolesAfter
<1>8. Tiles(size', {HEAP_START})
  BY <1>2, <1>5 DEF Tiles
<1>9. Pending' = {} /\ Walk' /\ Fitted(asked', size', live')
  BY <1>3 DEF Pending, Walk, Fitted
<1>10. Apart(size', next', {HEAP_START})
  BY <1>5 DEF Apart
<1>11. {HEAP_START} \cup live' \cup Pending' = {HEAP_START}
  BY <1>3, <1>9
<1>12. Memory(free_list', next', size', Holes', live', Pending')
  BY <1>3, <1>6, <1>7, <1>8, <1>9, <1>10, <1>11 DEF Memory
<1>13. Types'
  BY <1>1, <1>3, <1>4 DEF Types
<1> QED BY <1>3, <1>9, <1>12, <1>13 DEF HeapInv

\* A call of allocate that is not refused starts at the head of the list.
LEMMA CallInv ==
  ASSUME HeapInv, NEW bytes \in Sizes, NEW align \in Aligns, AllocateCall(bytes, align)
  PROVE  HeapInv'
<1>1. is_ready /\ bytes # 0 /\ aligned_block_size(bytes) # None
  BY DEF AllocateCall, Refused
<1>2. /\ heap_start = HEAP_START /\ heap_end = END
      /\ Memory(free_list, next, size, Holes, live, Pending)
      /\ Fitted(asked, size, live)
  BY <1>1, ReadyIs
<1>3. /\ pc = "idle" /\ pc' = "allocate" /\ request' = bytes
      /\ needed' = aligned_block_size(bytes) /\ prev' = null /\ current' = free_list
      /\ UNCHANGED <<heap_start, heap_end, free_list, used, size, next, block, live, asked>>
  BY DEF AllocateCall
<1>4. Holes' = Holes /\ Pending' = {} /\ Pending = {}
  BY <1>3 DEF Holes, Closed, Pending
<1>5. bytes \in Nat /\ bytes > 0
  BY <1>1, HeapAssumption
<1>6. Aligned(needed') /\ needed' >= request' + HEADER_SIZE
  BY <1>1, <1>3, <1>5, BlockSize
<1>7. Follows(Holes, null, free_list)
  BY <1>2 DEF Memory, List
<1>8. \A h \in Holes : free_list # null /\ free_list <= h
  BY <1>7 DEF Follows
<1>9. Walk'
  BY <1>3, <1>4, <1>5, <1>6, <1>7, <1>8 DEF Walk
<1>10. Types'
  BY <1>3 DEF HeapInv, Types
<1>11. Memory(free_list', next', size', Holes', live', Pending')
  BY <1>2, <1>3, <1>4
<1> QED BY <1>2, <1>3, <1>9, <1>10, <1>11 DEF HeapInv

\* A turn of allocate's loop goes on to the next hole.
LEMMA AllocateWalkInv == ASSUME HeapInv, AllocateWalk PROVE HeapInv'
<1>1. /\ pc = "allocate" /\ pc' = "allocate" /\ current # null /\ ~Fits(current)
      /\ prev' = current /\ current' = next[current]
      /\ UNCHANGED <<heap_start, heap_end, free_list, used, size, next, request, needed,
                     block, live, asked>>
  BY DEF AllocateWalk
<1>2. /\ heap_start = HEAP_START /\ heap_end = END
      /\ Memory(free_list, next, size, Holes, live, Pending)
      /\ Fitted(asked, size, live) /\ Walk
  BY <1>1 DEF HeapInv, NotReady
<1>3. Holes' = Holes /\ Pending' = Pending
  BY <1>1 DEF Holes, Closed, Pending
<1>4. current \in Holes
  BY <1>1, <1>2 DEF Walk, Follows
<1>5. Follows(Holes, current, next[current])
  BY <1>2, <1>4 DEF Memory, List
<1>6. ASSUME NEW h \in Holes, size[h] >= needed
      PROVE  next[current] # null /\ next[current] <= h
  <2>1. current <= h /\ h # current
    BY <1>1, <1>2, <1>6 DEF Walk, Fits
  <2>2. Holes \subseteq Nat
    BY <1>2, StartsAreNat DEF Memory, List
  <2>3. ~(h <= current)
    BY <2>1, <2>2, <1>4
  <2> QED BY <2>3, <1>5 DEF Follows
<1>7. Walk'
  BY <1>1, <1>2, <1>3, <1>5, <1>6 DEF Walk
<1>8. Types'
  BY <1>1 DEF HeapInv, Types
<1> QED BY <1>1, <1>2, <1>3, <1>7, <1>8 DEF HeapInv

\* The walk ends only past the last hole.
LEMMA AllocateFailsInv == ASSUME HeapInv, AllocateFails PROVE HeapInv'
<1>1. /\ pc = "allocate" /\ pc' = "idle"
      /\ UNCHANGED <<heap_start, heap_end, free_list, used, size, next, live, asked>>
  BY DEF AllocateFails, Return
<1>2. /\ heap_start = HEAP_START /\ heap_end = END
      /\ Memory(free_list, next, size, Holes, live, Pending)
      /\ Fitted(asked, size, live)
  BY <1>1 DEF HeapInv, NotReady
<1>3. Holes' = Holes /\ Pending' = Pending
  BY <1>1 DEF Holes, Closed, Pending
<1>4. Types' /\ Walk'
  BY <1>1 DEF HeapInv, Types, Walk
<1> QED BY <1>1, <1>2, <1>3, <1>4 DEF HeapInv

\* A turn of insert_free's loop stays below the block being freed.
LEMMA InsertWalkInv == ASSUME HeapInv, InsertWalk PROVE HeapInv'
<1>1. /\ pc = "insert" /\ pc' = "insert" /\ current # null /\ current < block
      /\ prev' = current /\ current' = next[current]
      /\ UNCHANGED <<heap_start, heap_end, free_list, used, size, next, request, needed,
                     block, live, asked>>
  BY DEF InsertWalk
<1>2. /\ heap_start = HEAP_START /\ heap_end = END
      /\ Memory(free_list, next, size, Holes, live, Pending)
      /\ Fitted(asked, size, live) /\ Walk
  BY <1>1 DEF HeapInv, NotReady
<1>3. Holes' = Holes /\ Pending' = Pending
  BY <1>1 DEF Holes, Closed, Pending
<1>4. Follows(Holes, current, next[current])
  BY <1>1, <1>2 DEF Memory, List, Walk, Follows
<1>5. Types' /\ Walk'
  BY <1>1, <1>3, <1>4 DEF HeapInv, Types, Walk
<1> QED BY <1>1, <1>2, <1>3, <1>5 DEF HeapInv

\* A split leaves the tail in the list where the whole hole was.
LEMMA TakeSplitInv ==
  ASSUME HeapInv, AllocateTake, size[current] - needed >= HEADER_SIZE
  PROVE  HeapInv'
<1> DEFINE s == current + needed
           H1 == (Holes \ {current}) \cup {s}
<1>1. /\ pc = "allocate" /\ pc' = "idle" /\ current # null /\ size[current] >= needed
      /\ live' = live \cup {current} /\ asked' = [asked EXCEPT ![current] = request]
      /\ heap_start' = heap_start /\ heap_end' = heap_end
  BY DEF AllocateTake, Return, Fits
<1>2. /\ heap_start = HEAP_START /\ heap_end = END
      /\ Memory(free_list, next, size, Holes, live, Pending)
      /\ Fitted(asked, size, live) /\ Walk
  BY <1>1 DEF HeapInv, NotReady
<1>3. /\ current \in Holes /\ Follows(Holes, prev, current) /\ Pending = {}
      /\ request \in Nat /\ request > 0 /\ Aligned(needed) /\ needed >= request + HEADER_SIZE
  BY <1>1, <1>2 DEF Walk, Follows, Pending
<1>4. /\ List(free_list, next, Holes) /\ Tiles(size, Holes \cup live)
      /\ Apart(size, next, Holes) /\ Holes \cap live = {}
  BY <1>2, <1>3 DEF Memory
<1>5. Holes \subseteq Starts /\ Holes \subseteq Nat \ {0} /\ null = 0
  BY <1>4, StartsAreNat DEF List, null
<1>6. needed \in Nat /\ needed >= HEADER_SIZE /\ needed >= 1
  BY <1>3, AlignedSum, Constants
<1>7. Types
  BY DEF HeapInv
<1>8. current \in Starts /\ size[current] \in Nat /\ next[current] \in Nat
  BY <1>3, <1>5, <1>7 DEF Types
<1>9. /\ free_list' = unlinked_head(s)
      /\ size' = [[size EXCEPT ![s] = size[current] - needed] EXCEPT ![current] = needed]
      /\ next' = [IF prev = null THEN [next EXCEPT ![s] = next[current]]
                  ELSE [[next EXCEPT ![s] = next[current]] EXCEPT ![prev] = s]
                  EXCEPT ![current] = null]
  BY ZenonT(30) DEF AllocateTake
<1>10. Aligned(size[current])
  BY <1>4, <1>3, TilesTypes
<1>11. s \in Nat /\ current < s /\ s < current + size[current]
  BY <1>6, <1>8, <1>3, <1>5, Constants
<1>12. s \in Starts
  <2>1. Aligned(s)
    BY <1>3, <1>8, AlignedSum, StartsAre
  <2>2. current + size[current] <= END /\ HEAP_START <= current
    BY <1>3, <1>4, <1>8, StartsAreNat DEF Tiles
  <2>3. HEAP_START <= s /\ s < END
    BY <2>2, <1>11, <1>8, <1>3, <1>5, Constants
  <2> QED BY <2>1, <2>3, StartsAre
<1>13. prev # null => prev \in Holes /\ prev \in Starts /\ prev < current
  BY <1>3, <1>5, ZenonT(30) DEF Follows
<1>14. prev # s /\ prev # current /\ s # current
  BY <1>11, <1>13, <1>3, <1>5
<1> HIDE DEF s
<1>15. /\ size'[current] = needed /\ size'[s] = size[current] - needed
       /\ \A a \in Starts : a # current /\ a # s => size'[a] = size[a]
  BY <1>7, <1>8, <1>9, <1>12, <1>14 DEF Types
<1>16. size' \in [Starts -> Nat]
  <2>1. size[current] - needed \in Nat
    BY <1>6, <1>8, Constants
  <2> QED BY <2>1, <1>6, <1>7, <1>9, ZenonT(30) DEF Types
<1>17. /\ next'[s] = next[current] /\ (prev # null => next'[prev] = s)
       /\ \A a \in Starts : a # current /\ a # s /\ a # prev => next'[a] = next[a]
  <2>1. CASE prev = null
    <3>1. next' = [[next EXCEPT ![s] = next[current]] EXCEPT ![current] = null]
      BY <2>1, <1>9
    <3> QED BY <2>1, <3>1, <1>7, <1>12, <1>14 DEF Types
  <2>2. CASE prev # null
    <3>1. next' = [[[next EXCEPT ![s] = next[current]] EXCEPT ![prev] = s] EXCEPT ![current] = null]
      BY <2>2, <1>9
    <3> QED BY <2>2, <3>1, <1>7, <1>12, <1>13, <1>14 DEF Types
  <2> QED BY <2>1, <2>2
<1>18. next' \in [Starts -> Nat]
  BY <1>5, <1>7, <1>8, <1>9, <1>11 DEF Types
<1>19. Tiles(size', (Holes \cup live) \cup {s}) /\ s \notin Holes \cup live
  <2>1. current \in Holes \cup live /\ needed <= size[current]
    BY <1>1, <1>3, <1>6, <1>8
  <2>2. \A c \in Holes \cup live : c # current /\ c # s => size'[c] = size[c]
    BY <1>15, <1>4 DEF Tiles
  <2>3. s \notin Holes \cup live
    <3> SUFFICES ASSUME s \in Holes \cup live PROVE FALSE
      OBVIOUS
    <3>1. current + size[current] <= s
      BY <2>1, <1>11, <1>4 DEF Tiles
    <3> QED BY <3>1, <1>11, <1>8, <1>3, <1>5
  <2>4. \A c \in Holes \cup live : c # current => size'[c] = size[c]
    BY <2>2, <2>3
  <2> DEFINE z == size'
  <2> HIDE DEF z
  <2>5. /\ z[current] = needed /\ z[current + needed] = size[current] - needed
        /\ \A c \in Holes \cup live : c # current => z[c] = size[c]
    BY <2>4, <1>15 DEF z, s
  <2>6. Tiles(z, (Holes \cup live) \cup {current + needed})
    BY <2>1, <2>5, <1>3, <1>4, <1>6, TilesSplit
  <2> QED BY <2>3, <2>6 DEF z, s
<1>20. next[current] # null => current + size[current] < next[current]
  BY <1>3, <1>4 DEF Apart
<1>21. List(free_list', next', H1)
  <2> DEFINE n0 == IF prev = null THEN next ELSE [next EXCEPT ![prev] = next[current]]
             f0 == IF prev = null THEN next[current] ELSE free_list
             H0 == Holes \ {current}
  <2>1. /\ prev # null => n0[prev] = next[current]
        /\ \A h \in H0 : h # prev => n0[h] = next[h]
    BY <1>5, <1>7, <1>13 DEF Types
  <2> HIDE DEF n0
  <2>2. List(f0, n0, H0) /\ Follows(H0, prev, next[current])
    BY <2>1, <1>3, <1>4, ListRemove
  <2>3. s \notin H0 /\ (prev # null => prev < s) /\ (next[current] # null => s < next[current])
    <3>1. current \in Nat /\ (prev # null => prev \in Nat)
      BY <1>3, <1>5, <1>13, ZenonT(30)
    <3>2. prev # null => prev < s
      BY <3>1, <1>11, <1>13
    <3>3. next[current] # null => s < next[current]
      BY <3>1, <1>8, <1>11, <1>20
    <3> QED BY <3>2, <3>3, <1>19
  <2>4. \A h \in H0 : h # prev => next'[h] = n0[h]
    BY <2>1, <1>5, <1>17, <1>19
  <2> HIDE DEF f0, H0
  <2> DEFINE n1 == next'
             d == next[current]
  <2>5. n1[s] = d /\ (prev # null => n1[prev] = s) /\ \A h \in H0 : h # prev => n1[h] = n0[h]
    BY <2>4, <1>17
  <2> HIDE DEF n1
  <2>6. List(IF prev = null THEN s ELSE f0, n1, H0 \cup {s})
    <3> HIDE DEF d
    <3>1. Follows(H0, prev, d) /\ (d # null => s < d)
      BY <2>2, <2>3 DEF d
    <3>2. n1[s] = d /\ (prev # null => n1[prev] = s) /\ \A h \in H0 : h # prev => n1[h] = n0[h]
      BY <2>5
    <3>3. List(f0, n0, H0) /\ s \in Starts /\ s \notin H0 /\ (prev # null => prev < s)
      BY <2>2, <2>3, <1>12
    <3>4. Inserted(f0, n0, H0, prev, d, s, n1)
      BY <3>1, <3>2, <3>3 DEF Inserted
    <3> QED BY <3>4, ListInsert, ZenonT(30)
  <2>7. free_list' = IF prev = null THEN s ELSE f0
    BY <1>9 DEF unlinked_head, f0
  <2> QED BY <2>6, <2>7 DEF n1, H0
<1>22. Holes' = H1 /\ Pending' = {}
  BY <1>1, <1>21, HolesAfter DEF Pending
<1>23. Apart(size', next', H1)
  <2> SUFFICES ASSUME NEW h \in H1, next'[h] # null PROVE h + size'[h] < next'[h]
    BY DEF Apart
  <2>1. CASE h = s
    <3>1. s + size'[s] = current + size[current]
      BY <1>3, <1>5, <1>6, <1>8, <1>15 DEF s
    <3> QED BY <2>1, <3>1, <1>17, <1>20
  <2>2. CASE h = prev
    <3>1. prev \in Holes /\ prev < current /\ prev # null
      BY <2>2, <1>12, <1>13, <1>5, <1>14
    <3>2. prev + size[prev] <= current
      BY <3>1, <1>3, <1>4 DEF Tiles
    <3>3. size'[prev] = size[prev] /\ size[prev] \in Nat
      BY <3>1, <1>5, <1>7, <1>14, <1>15 DEF Types
    <3> QED BY <2>2, <3>1, <3>2, <3>3, <1>3, <1>5, <1>11, <1>17
  <2>3. CASE h # s /\ h # prev
    <3>1. h \in Holes /\ h # current /\ h \in Starts
      BY <2>3, <1>5
    <3>2. next'[h] = next[h] /\ size'[h] = size[h]
      BY <2>3, <3>1, <1>15, <1>17
    <3> QED BY <3>1, <3>2, <1>4 DEF Apart
  <2> QED BY <2>1, <2>2, <2>3
<1>24. Memory(free_list', next', size', Holes', live', Pending')
  <2>1. H1 \cup live' \cup {} = (Holes \cup live) \cup {s}
    BY <1>1, <1>3
  <2>2. H1 \cap live' = {}
    BY <1>1, <1>4, <1>14, <1>19
  <2> HIDE DEF H1
  <2> QED BY <2>1, <2>2, <1>19, <1>21, <1>22, <1>23 DEF Memory
<1>25. Fitted(asked', size', live')
  <2> SUFFICES ASSUME NEW b \in live' PROVE asked'[b] > 0 /\ size'[b] >= asked'[b] + HEADER_SIZE
    BY DEF Fitted
  <2>1. CASE b = current
    BY <2>1, <1>1, <1>3, <1>7, <1>8, <1>15 DEF Types
  <2>2. CASE b # current
    <3>1. b \in live /\ b \in Starts /\ b # s
      BY <2>2, <1>1, <1>7, <1>19 DEF Types
    <3>2. asked'[b] = asked[b] /\ size'[b] = size[b]
      BY <3>1, <2>2, <1>1, <1>7, <1>15 DEF Types
    <3> QED BY <3>1, <3>2, <1>2 DEF Fitted
  <2> QED BY <2>1, <2>2
<1>26. Types' /\ Walk'
  <2>1. asked' \in [Starts -> Nat] /\ live' \subseteq Starts
    BY <1>1, <1>3, <1>7, <1>8 DEF Types
  <2> QED BY <2>1, <1>1, <1>16, <1>18, ZenonT(30) DEF Types, Walk
<1> QED BY <1>1, <1>2, <1>24, <1>25, <1>26 DEF HeapInv

\* A hole too small to split is handed out whole.
LEMMA TakeWholeInv ==
  ASSUME HeapInv, AllocateTake, ~(size[current] - needed >= HEADER_SIZE)
  PROVE  HeapInv'
<1> DEFINE H1 == Holes \ {current}
<1>1. /\ pc = "allocate" /\ pc' = "idle" /\ current # null /\ size[current] >= needed
      /\ live' = live \cup {current} /\ asked' = [asked EXCEPT ![current] = request]
      /\ heap_start' = heap_start /\ heap_end' = heap_end
  BY DEF AllocateTake, Return, Fits
<1>2. /\ heap_start = HEAP_START /\ heap_end = END
      /\ Memory(free_list, next, size, Holes, live, Pending)
      /\ Fitted(asked, size, live) /\ Walk
  BY <1>1 DEF HeapInv, NotReady
<1>3. /\ current \in Holes /\ Follows(Holes, prev, current) /\ Pending = {}
      /\ request \in Nat /\ request > 0 /\ Aligned(needed) /\ needed >= request + HEADER_SIZE
  BY <1>1, <1>2 DEF Walk, Follows, Pending
<1>4. /\ List(free_list, next, Holes) /\ Tiles(size, Holes \cup live)
      /\ Apart(size, next, Holes) /\ Holes \cap live = {}
  BY <1>2, <1>3 DEF Memory
<1>5. Holes \subseteq Starts /\ Holes \subseteq Nat \ {0} /\ null = 0
  BY <1>4, StartsAreNat DEF List, null
<1>6. needed \in Nat
  BY <1>3, AlignedSum, ZenonT(30)
<1>7. Types
  BY DEF HeapInv
<1>8. current \in Starts /\ size[current] \in Nat /\ next[current] \in Nat
  BY <1>3, <1>5, <1>7 DEF Types
<1>9. /\ free_list' = unlinked_head(next[current])
      /\ size' = [size EXCEPT ![current] = needed + (size[current] - needed)]
      /\ next' = [IF prev = null THEN next ELSE [next EXCEPT ![prev] = next[current]]
                  EXCEPT ![current] = null]
  BY ZenonT(30) DEF AllocateTake
<1>10. needed + (size[current] - needed) = size[current]
  BY <1>6, <1>8
<1>11. size' = size
  BY <1>7, <1>8, <1>9, <1>10 DEF Types
<1>12. prev # null => prev \in Holes /\ prev \in Starts /\ prev \in Nat /\ prev < current
  BY <1>3, <1>5, ZenonT(30) DEF Follows
<1>13. prev # current
  BY <1>12, <1>3, <1>5
<1>14. /\ prev # null => next'[prev] = next[current]
       /\ \A a \in Starts : a # current /\ a # prev => next'[a] = next[a]
  <2>1. CASE prev = null
    <3>1. next' = [next EXCEPT ![current] = null]
      BY <2>1, <1>9
    <3> QED BY <2>1, <3>1, <1>7 DEF Types
  <2>2. CASE prev # null
    <3>1. next' = [[next EXCEPT ![prev] = next[current]] EXCEPT ![current] = null]
      BY <2>2, <1>9
    <3> QED BY <2>2, <3>1, <1>7, <1>12, <1>13 DEF Types
  <2> QED BY <2>1, <2>2
<1>15. next' \in [Starts -> Nat]
  BY <1>5, <1>7, <1>8, <1>9 DEF Types
<1>16. List(free_list', next', H1)
  <2> DEFINE n1 == next'
  <2>1. /\ prev # null => n1[prev] = next[current]
        /\ \A h \in Holes \ {current} : h # prev => n1[h] = next[h]
    BY <1>5, <1>14, ZenonT(30)
  <2> HIDE DEF n1
  <2>2. List(IF prev = null THEN next[current] ELSE free_list, n1, H1)
    BY <2>1, <1>3, <1>4, ListRemove, ZenonT(30)
  <2> QED BY <2>2, <1>9 DEF n1, unlinked_head
<1>17. Holes' = H1 /\ Pending' = {}
  BY <1>1, <1>16, HolesAfter DEF Pending
<1>18. Apart(size', next', H1)
  <2> SUFFICES ASSUME NEW h \in H1, next'[h] # null PROVE h + size[h] < next'[h]
    BY <1>11 DEF Apart
  <2>1. CASE h = prev
    <3>1. prev \in Holes /\ prev < current /\ prev # null /\ prev \in Nat /\ prev \in Starts
      BY <2>1, <1>5, <1>12
    <3>2. prev + size[prev] <= current
      BY <3>1, <1>3, <1>4 DEF Tiles
    <3>3. next'[prev] = next[current] /\ current + size[current] < next[current]
      BY <2>1, <3>1, <1>3, <1>4, <1>14 DEF Apart
    <3>4. size[prev] \in Nat /\ current \in Nat
      BY <3>1, <1>3, <1>5, <1>7 DEF Types
    <3> QED BY <2>1, <3>1, <3>2, <3>3, <3>4, <1>8
  <2>2. CASE h # prev
    <3>1. h \in Holes /\ next'[h] = next[h]
      BY <2>2, <1>5, <1>14
    <3> QED BY <3>1, <1>4 DEF Apart
  <2> QED BY <2>1, <2>2
<1>19. Memory(free_list', next', size', Holes', live', Pending')
  <2>1. H1 \cup live' \cup {} = Holes \cup live
    BY <1>1, <1>3
  <2>2. H1 \cap live' = {}
    BY <1>1, <1>4
  <2> HIDE DEF H1
  <2> QED BY <2>1, <2>2, <1>4, <1>11, <1>16, <1>17, <1>18 DEF Memory
<1>20. Fitted(asked', size', live')
  <2> SUFFICES ASSUME NEW b \in live' PROVE asked'[b] > 0 /\ size[b] >= asked'[b] + HEADER_SIZE
    BY <1>11 DEF Fitted
  <2>1. CASE b = current
    <3>1. asked'[b] = request
      BY <2>1, <1>1, <1>7, <1>8 DEF Types
    <3> QED BY <2>1, <3>1, <1>1, <1>3, <1>6, <1>8, Constants
  <2>2. CASE b # current
    <3>1. b \in live /\ asked'[b] = asked[b]
      BY <2>2, <1>1, <1>7 DEF Types
    <3> QED BY <3>1, <1>2 DEF Fitted
  <2> QED BY <2>1, <2>2
<1>21. Types' /\ Walk'
  <2>1. asked' \in [Starts -> Nat] /\ live' \subseteq Starts
    BY <1>1, <1>3, <1>7, <1>8 DEF Types
  <2> QED BY <2>1, <1>1, <1>7, <1>11, <1>15 DEF Types, Walk
<1> QED BY <1>1, <1>2, <1>19, <1>20, <1>21 DEF HeapInv

\* A live block's header is intact, so deallocate's guards let it through.
LEMMA DeallocateInv ==
  ASSUME HeapInv, NEW b \in Starts, Deallocate(b)
  PROVE  HeapInv'
<1>1. /\ pc = "idle" /\ b \in live /\ live' = live \ {b} /\ asked' = [asked EXCEPT ![b] = 0]
      /\ UNCHANGED <<heap_start, heap_end, free_list, size, request, needed>>
  BY DEF Deallocate
<1>2. /\ heap_start = HEAP_START /\ heap_end = END
      /\ Memory(free_list, next, size, Holes, live, Pending)
      /\ Fitted(asked, size, live) /\ Types
  BY <1>1 DEF HeapInv, NotReady
<1>3. Pending = {}
  BY <1>1 DEF Pending
<1>4. /\ List(free_list, next, Holes) /\ Tiles(size, Holes \cup live)
      /\ Apart(size, next, Holes) /\ Holes \cap live = {}
  BY <1>2, <1>3 DEF Memory
<1>5. /\ is_ready /\ ~(b < heap_start) /\ ~(b >= heap_end)
      /\ ~(size[b] < HEADER_SIZE) /\ ~(b + size[b] > heap_end)
  <2>1. size[b] >= HEADER_SIZE /\ b + size[b] <= END /\ size[b] \in Nat
    BY <1>1, <1>2, <1>4 DEF Tiles, Types
  <2>2. HEAP_START <= b /\ b < END /\ b \in Nat
    BY StartsAreNat
  <2>3. is_ready
    BY <1>2, Constants DEF is_ready
  <2> QED BY <2>1, <2>2, <2>3, <1>2, Constants
<1>6. /\ next' = [next EXCEPT ![b] = null] /\ pc' = "insert" /\ block' = b
      /\ prev' = null /\ current' = free_list
  BY <1>5 DEF Deallocate
<1>7. next' \in [Starts -> Nat] /\ \A a \in Starts : a # b => next'[a] = next[a]
  BY <1>2, <1>6 DEF Types, null
<1>8. \A h \in Holes : next'[h] = next[h]
  BY <1>1, <1>4, <1>7 DEF List
<1>9. List(free_list', next', Holes)
  <2> DEFINE n1 == next'
  <2>1. \A h \in Holes : n1[h] = next[h]
    BY <1>8
  <2> HIDE DEF n1
  <2>2. List(free_list, n1, Holes)
    BY <2>1, <1>4, ListSame
  <2> QED BY <2>2, <1>1 DEF n1
<1>10. Holes' = Holes /\ Pending' = {b}
  BY <1>6, <1>9, HolesAfter, ZenonT(30) DEF Pending
<1>11. Memory(free_list', next', size', Holes', live', Pending')
  <2>1. Holes \cup live' \cup {b} = Holes \cup live
    BY <1>1
  <2>2. Holes \cap live' = {} /\ {b} \cap (Holes \cup live') = {}
    BY <1>1, <1>4
  <2>3. Apart(size', next', Holes)
    BY <1>1, <1>4, <1>8 DEF Apart
  <2> QED BY <2>1, <2>2, <2>3, <1>1, <1>4, <1>9, <1>10 DEF Memory
<1>12. Fitted(asked', size', live')
  BY <1>1, <1>2 DEF Fitted, Types
<1>13. Follows(Holes, null, free_list)
  BY <1>4 DEF List
<1>14. Types' /\ Walk'
  <2>1. asked' \in [Starts -> Nat] /\ live' \subseteq Starts /\ size' \in [Starts -> Nat]
    BY <1>1, <1>2 DEF Types
  <2> QED BY <2>1, <1>1, <1>6, <1>7, <1>10, <1>13 DEF Types, Walk
<1> QED BY <1>1, <1>2, <1>11, <1>12, <1>14 DEF HeapInv

\* An owner writes between the headers: no block's header is in its payload.
LEMMA OwnerWritesInv ==
  ASSUME HeapInv, NEW b \in Starts, NEW junk \in Junk, OwnerWrites(b, junk)
  PROVE  HeapInv'
<1>1. /\ pc = "idle" /\ b \in live
      /\ UNCHANGED <<heap_start, heap_end, free_list, used, pc, locals, live, asked>>
  BY DEF OwnerWrites
<1>2. /\ heap_start = HEAP_START /\ heap_end = END
      /\ Memory(free_list, next, size, Holes, live, Pending)
      /\ Fitted(asked, size, live) /\ Types
  BY <1>1 DEF HeapInv, NotReady
<1>3. Pending = {} /\ Pending' = {}
  BY <1>1 DEF Pending
<1>4. /\ List(free_list, next, Holes) /\ Tiles(size, Holes \cup live)
      /\ Apart(size, next, Holes) /\ Holes \cap live = {}
  BY <1>2, <1>3 DEF Memory
<1>5. /\ size' = [a \in Starts |-> IF b < a /\ a < b + size[b] THEN junk ELSE size[a]]
      /\ next' = [a \in Starts |-> IF b < a /\ a < b + size[b] THEN a ELSE next[a]]
  BY DEF OwnerWrites
<1>6. size' \in [Starts -> Nat] /\ next' \in [Starts -> Nat]
  BY <1>2, <1>5, HeapAssumption, StartsAreNat DEF Types
<1>7. ASSUME NEW c \in Holes \cup live
      PROVE  size'[c] = size[c] /\ next'[c] = next[c]
  <2>1. c \in Starts /\ c \in Nat /\ size[b] \in Nat /\ b \in Nat
    BY <1>2, <1>4, StartsAreNat, ZenonT(30) DEF Tiles, Types
  <2>2. b < c => b + size[b] <= c
    BY <1>1, <1>4 DEF Tiles
  <2>3. ~(b < c /\ c < b + size[b])
    BY <2>1, <2>2
  <2> QED BY <2>1, <2>3, <1>5
<1>8. List(free_list', next', Holes) /\ Tiles(size', Holes \cup live)
  <2> DEFINE n1 == next'
             z1 == size'
  <2>1. /\ \A h \in Holes : n1[h] = next[h]
        /\ \A c \in Holes \cup live : z1[c] = size[c]
    BY <1>7
  <2> HIDE DEF n1, z1
  <2>2. List(free_list, n1, Holes) /\ Tiles(z1, Holes \cup live)
    BY <2>1, <1>4, ListSame, TilesSame
  <2> QED BY <2>2, <1>1 DEF n1, z1
<1>9. Holes' = Holes
  BY <1>8, HolesAfter
<1>10. Apart(size', next', Holes)
  BY <1>4, <1>7 DEF Apart
<1>11. Memory(free_list', next', size', Holes', live', Pending')
  BY <1>1, <1>3, <1>4, <1>8, <1>9, <1>10 DEF Memory
<1>12. Fitted(asked', size', live')
  BY <1>1, <1>2, <1>7 DEF Fitted
<1>13. Types' /\ Walk'
  BY <1>1, <1>2, <1>6 DEF Types, Walk
<1> QED BY <1>1, <1>2, <1>11, <1>12, <1>13 DEF HeapInv

\* Merging gives sizes and links.
LEMMA MergeIsPair ==
  ASSUME NEW sz, NEW nx, NEW l, NEW r, NEW h, h = Merge([size |-> sz, next |-> nx], l, r)
  PROVE  h = [size |-> h.size, next |-> h.next]
<1> DEFINE g == [size |-> sz, next |-> nx]
<1>1. CASE l # null /\ r # null /\ l + g.size[l] = r
  <2>1. h = [size |-> [g.size EXCEPT ![l] = @ + g.size[r]],
             next |-> [g.next EXCEPT ![l] = g.next[r]]]
    BY <1>1 DEF Merge
  <2> QED BY <2>1
<1>2. CASE ~(l # null /\ r # null /\ l + g.size[l] = r)
  <2>1. h = g
    BY <1>2 DEF Merge
  <2> QED BY <2>1
<1> QED BY <1>1, <1>2

\* insert_free: the block goes in where the walk stopped, and merges both ways.
LEMMA InsertSpliceInv == ASSUME HeapInv, InsertSplice PROVE HeapInv'
<1> DEFINE linked  == [next EXCEPT ![block] = current]
           spliced == IF prev = null THEN linked ELSE [linked EXCEPT ![prev] = block]
           forward == Merge([size |-> size, next |-> spliced], block, current)
           both    == Merge(forward, prev, block)
           fl1 == IF prev = null THEN block ELSE free_list
           X   == IF prev = null THEN {} ELSE {prev}
           H0  == Holes \cup {block}
           B0  == Holes \cup live \cup {block}
           G1  == Touched(spliced, size, block)
<1>1. /\ pc = "insert" /\ pc' = "idle" /\ (current = null \/ current >= block)
      /\ size' = both.size /\ next' = both.next /\ free_list' = fl1
      /\ UNCHANGED <<heap_start, heap_end, used, live, asked>>
  BY DEF InsertSplice, Return
<1>2. /\ heap_start = HEAP_START /\ heap_end = END
      /\ Memory(free_list, next, size, Holes, live, Pending)
      /\ Fitted(asked, size, live) /\ Walk /\ Types
  BY <1>1 DEF HeapInv, NotReady
<1>3. /\ Pending = {block} /\ block \in Starts /\ Follows(Holes, prev, current)
      /\ prev # null => prev < block
  BY <1>1, <1>2 DEF Pending, Walk, Types
<1>4. /\ List(free_list, next, Holes) /\ Tiles(size, B0) /\ Apart(size, next, Holes)
      /\ Holes \cap live = {} /\ block \notin Holes \cup live
  BY <1>2, <1>3 DEF Memory
<1>5. Holes \subseteq Starts /\ Starts \subseteq Nat \ {0} /\ null = 0 /\ block \in Nat \ {0}
  BY <1>3, <1>4, StartsAreNat DEF List, null
<1>6. prev # null => prev \in Holes /\ prev \in Starts /\ prev \in Nat /\ prev < block
  BY <1>3, <1>5, ZenonT(30) DEF Follows
<1>7. current # null => current \in Holes /\ current \in Nat
  BY <1>3, <1>5, ZenonT(30) DEF Follows
<1>8. current # null => block < current
  <2>1. current # null => current >= block /\ current # block
    BY <1>1, <1>4, <1>7
  <2> QED BY <2>1, <1>5, <1>7
<1>9. prev # block
  BY <1>5, <1>6
<1>10. current \notin X
  BY <1>5, <1>6, <1>7, <1>8
<1>11. current \in Nat
  BY <1>5, <1>7
<1>12. size \in [Starts -> Nat] /\ next \in [Starts -> Nat]
  BY <1>2 DEF Types
<1>13. linked \in [Starts -> Nat]
  BY <1>11, <1>12, ZenonT(30)
<1>14. /\ spliced \in [Starts -> Nat] /\ spliced[block] = current
       /\ prev # null => spliced[prev] = block
       /\ \A a \in Starts : a # block /\ a # prev => spliced[a] = next[a]
  <2>1. CASE prev = null
    <3>1. spliced = linked
      BY <2>1
    <3> QED BY <2>1, <3>1, <1>3, <1>12, <1>13
  <2>2. CASE prev # null
    <3>1. spliced = [linked EXCEPT ![prev] = block]
      BY <2>2
    <3>2. spliced \in [Starts -> Nat]
      BY <3>1, <1>5, <1>13, ZenonT(30)
    <3> QED BY <2>2, <3>1, <3>2, <1>3, <1>6, <1>9, <1>12, <1>13
  <2> QED BY <2>1, <2>2, ZenonT(30)
<1> HIDE DEF linked, spliced
<1>15. List(fl1, spliced, H0)
  <2>1. \A h \in Holes : h # prev => spliced[h] = next[h]
    BY <1>4, <1>5, <1>14
  <2>2. block \notin Holes /\ spliced[block] = current /\ (prev # null => spliced[prev] = block)
    BY <1>4, <1>14
  <2> HIDE DEF B0, X, G1, forward, both
  <2>3. List(IF prev = null THEN block ELSE free_list, spliced, Holes \cup {block})
    <3>1. List(free_list, next, Holes) /\ Follows(Holes, prev, current) /\ block \in Starts
      BY <1>3, <1>4
    <3>2. (prev # null => prev < block) /\ (current # null => block < current)
      BY <1>3, <1>4, <1>8
    <3>3. Inserted(free_list, next, Holes, prev, current, block, spliced)
      BY <3>1, <3>2, <2>1, <2>2 DEF Inserted
    <3> QED BY <3>3, ListInsert, ZenonT(30)
  <2> QED BY <2>3
<1>16. Apart(size, spliced, (H0 \ X) \ {block})
  <2>1. \A h \in (H0 \ X) \ {block} : h \in Holes /\ spliced[h] = next[h]
    BY <1>5, <1>14
  <2> QED BY <2>1, <1>4 DEF Apart
<1> DEFINE fs == forward.size
           fn == forward.next
<1>17. /\ fs \in [Starts -> Nat] /\ fn \in [Starts -> Nat]
       /\ List(fl1, fn, H0 \ G1) /\ Tiles(fs, B0 \ G1) /\ Apart(fs, fn, (H0 \ G1) \ X)
       /\ \A a \in Starts : a # block => fs[a] = size[a] /\ fn[a] = spliced[a]
  <2>1. H0 \subseteq B0 /\ block \in H0
    OBVIOUS
  <2>2. forward = Merge([size |-> size, next |-> spliced], block, spliced[block])
    BY <1>14
  <2>3. MergeReady(fl1, spliced, size, H0, B0, block, X)
    BY <2>1, <1>4, <1>10, <1>12, <1>14, <1>15, <1>16 DEF MergeReady
  <2> HIDE DEF X, H0, B0, fl1, forward
  <2>4. MergeDone(forward, G1, fl1, spliced, size, H0, B0, block, X)
    BY <2>2, <2>3, MergeKeeps
  <2> HIDE DEF G1
  <2> QED BY <2>4 DEF MergeDone
<1>18. forward = [size |-> fs, next |-> fn]
  <2> HIDE DEF forward
  <2>1. forward = Merge([size |-> size, next |-> spliced], block, current)
    BY DEF forward
  <2>2. forward = [size |-> forward.size, next |-> forward.next]
    BY <2>1, MergeIsPair
  <2> QED BY <2>2
<1>19. G1 \subseteq Holes /\ (prev # null => prev \notin G1)
  BY <1>5, <1>6, <1>7, <1>8, <1>14 DEF Touched
<1>20. \E G2 \in SUBSET {block} :
         /\ size' \in [Starts -> Nat] /\ next' \in [Starts -> Nat]
         /\ List(fl1, next', (H0 \ G1) \ G2) /\ Tiles(size', (B0 \ G1) \ G2)
         /\ Apart(size', next', (H0 \ G1) \ G2)
         /\ \A a \in live : size'[a] = size[a]
  <2> HIDE DEF forward, fs, fn, G1, H0, B0, fl1
  <2>1. ASSUME NEW a \in live PROVE a \in Starts /\ a # block /\ a # prev
    BY <1>2, <1>4, <1>5, <1>6 DEF Types
  <2>2. CASE prev = null
    <3>1. both = forward
      BY <2>2 DEF Merge
    <3>2. size' = fs /\ next' = fn
      BY <3>1, <1>1 DEF fs, fn
    <3>3. /\ (H0 \ G1) \ X = (H0 \ G1) \ {} /\ H0 \ G1 = (H0 \ G1) \ {}
          /\ B0 \ G1 = (B0 \ G1) \ {}
      BY <2>2
    <3>4. \A a \in live : size'[a] = size[a]
      BY <2>1, <3>2, <1>17
    <3>5. /\ size' \in [Starts -> Nat] /\ next' \in [Starts -> Nat]
          /\ List(fl1, next', (H0 \ G1) \ {}) /\ Tiles(size', (B0 \ G1) \ {})
          /\ Apart(size', next', (H0 \ G1) \ {})
      BY <3>2, <3>3, <1>17
    <3>6. {} \in SUBSET {block}
      OBVIOUS
    <3> QED BY <3>4, <3>5, <3>6, ZenonT(30)
  <2>3. CASE prev # null
    <3> DEFINE G == Touched(fn, fs, prev)
               H2 == H0 \ G1
               B2 == B0 \ G1
    <3>1. fn[prev] = block
      BY <2>3, <1>6, <1>9, <1>14, <1>17
    <3>2. prev \in H2 /\ H2 \subseteq B2
      BY <2>3, <1>6, <1>19 DEF H0, B0
    <3>3. Apart(fs, fn, (H2 \ {}) \ {prev})
      <4>1. (H2 \ {}) \ {prev} = H2 \ X
        BY <2>3
      <4> QED BY <4>1, <1>17
    <3>4. both = Merge([size |-> fs, next |-> fn], prev, fn[prev])
      BY <3>1, <1>18
    <3>5. (H2 \ G) \ {} = H2 \ G /\ G \in SUBSET {block}
      BY <3>1 DEF Touched
    <3> HIDE DEF H2, B2, both
    <3>6. List(fl1, fn, H2) /\ Tiles(fs, B2) /\ fs \in [Starts -> Nat] /\ fn \in [Starts -> Nat]
      BY <1>17 DEF H2, B2
    <3>7. MergeReady(fl1, fn, fs, H2, B2, prev, {})
      BY <3>2, <3>3, <3>6 DEF MergeReady
    <3>8. MergeDone(both, G, fl1, fn, fs, H2, B2, prev, {})
      BY <3>4, <3>7, MergeKeeps
    <3> HIDE DEF G
    <3>9. /\ both.size \in [Starts -> Nat] /\ both.next \in [Starts -> Nat]
          /\ List(fl1, both.next, H2 \ G) /\ Tiles(both.size, B2 \ G)
          /\ Apart(both.size, both.next, H2 \ G)
          /\ \A a \in Starts : a # prev => both.size[a] = fs[a]
      BY <3>5, <3>8 DEF MergeDone
    <3>10. \A a \in live : size'[a] = size[a]
      BY <2>1, <3>9, <1>1, <1>17
    <3>11. size' = both.size /\ next' = both.next
      BY <1>1
    <3> QED BY <3>5, <3>9, <3>10, <3>11 DEF H2, B2
  <2> QED BY <2>2, <2>3, ZenonT(30)
<1>21. PICK G2 \in SUBSET {block} :
         /\ size' \in [Starts -> Nat] /\ next' \in [Starts -> Nat]
         /\ List(fl1, next', (H0 \ G1) \ G2) /\ Tiles(size', (B0 \ G1) \ G2)
         /\ Apart(size', next', (H0 \ G1) \ G2)
         /\ \A a \in live : size'[a] = size[a]
  BY <1>20, ZenonT(30)
<1> DEFINE H1 == (H0 \ G1) \ G2
<1>22. (B0 \ G1) \ G2 = H1 \cup live \cup {} /\ H1 \cap live = {}
  BY <1>4, <1>19
<1> HIDE DEF H0, B0, G1, H1, fl1, both, forward
<1>23. List(free_list', next', H1)
  BY <1>1, <1>21 DEF H1
<1>24. Holes' = H1 /\ Pending' = {}
  BY <1>1, <1>23, HolesAfter DEF Pending
<1>25. Memory(free_list', next', size', Holes', live', Pending')
  <2>1. live' = live
    BY <1>1
  <2>2. Tiles(size', H1 \cup live \cup {}) /\ Apart(size', next', H1)
    BY <1>21, <1>22 DEF H1
  <2> QED BY <2>1, <2>2, <1>22, <1>23, <1>24 DEF Memory
<1>26. Fitted(asked', size', live')
  BY <1>1, <1>2, <1>21 DEF Fitted
<1>27. Types' /\ Walk'
  BY <1>1, <1>2, <1>21 DEF Types, Walk
<1> QED BY <1>1, <1>2, <1>25, <1>26, <1>27 DEF HeapInv

\* Every step keeps the invariant.
LEMMA NextInv == HeapInv /\ [Next]_vars => HeapInv'
<1> SUFFICES ASSUME HeapInv, [Next]_vars PROVE HeapInv'
  OBVIOUS
<1>1. CASE UNCHANGED vars
  BY <1>1 DEF vars, locals, HeapInv, Types, NotReady, Walk, Pending, Holes, Closed
<1>2. CASE init
  BY <1>2, InitCallInv
<1>3. ASSUME NEW bytes \in Sizes, NEW align \in Aligns,
             AllocateRefused(bytes, align) \/ AllocateCall(bytes, align)
      PROVE  HeapInv'
  BY <1>1, <1>3, CallInv DEF AllocateRefused
<1>4. ASSUME NEW b \in Starts, Deallocate(b) PROVE HeapInv'
  BY <1>4, DeallocateInv
<1>5. ASSUME NEW b \in Starts, NEW junk \in Junk, OwnerWrites(b, junk) PROVE HeapInv'
  BY <1>5, OwnerWritesInv
<1>6. CASE AllocateWalk
  BY <1>6, AllocateWalkInv
<1>7. CASE AllocateTake
  BY <1>7, TakeSplitInv, TakeWholeInv
<1>8. CASE AllocateFails
  BY <1>8, AllocateFailsInv
<1>9. CASE InsertWalk
  BY <1>9, InsertWalkInv
<1>10. CASE InsertSplice
  BY <1>10, InsertSpliceInv
<1> QED BY <1>1, <1>2, <1>3, <1>4, <1>5, <1>6, <1>7, <1>8, <1>9, <1>10 DEF Next, Step

\* Before init there are no holes.
LEMMA NoHolesYet == ASSUME HeapInv, NotReady PROVE Holes = {}
BY EmptyList, ListIsHoles, HolesAre DEF NotReady

\* The invariant implies that the blocks tile the heap,
LEMMA InvGivesTile == HeapInv => BlocksTile
<1> SUFFICES ASSUME HeapInv, is_ready PROVE BlocksTile
  BY DEF BlocksTile
<1>1. /\ heap_start = HEAP_START /\ heap_end = END
      /\ Memory(free_list, next, size, Holes, live, Pending)
  BY ReadyIs
<1>2. Blocks = Holes \cup live \cup Pending /\ Tiles(size, Blocks) /\ Holes \cap live = {}
  BY <1>1 DEF Blocks, Pending, Memory
<1>3. \A b \in Blocks : b + size[b] <= heap_end
  BY <1>1, <1>2 DEF Tiles
<1>4. ASSUME NEW a \in heap_start .. heap_end - 1
      PROVE  \E b \in Blocks : Within(a, b) /\ \A c \in Blocks : Within(a, c) => c = b
  <2>1. PICK b \in Blocks : b <= a /\ a < b + size[b]
    BY <1>1, <1>2 DEF Tiles
  <2>2. ASSUME NEW c \in Blocks, Within(a, c) PROVE c = b
    <3>0. a \in Nat
      BY <1>1, Constants
    <3>1. b \in Nat /\ c \in Nat /\ size[b] \in Nat /\ size[c] \in Nat
      BY <1>2, TilesTypes
    <3>2. (b < c => b + size[b] <= c) /\ (c < b => c + size[c] <= b)
      BY <1>2 DEF Tiles
    <3> QED BY <3>0, <3>1, <3>2, <2>1, <2>2 DEF Within
  <2> QED BY <2>1, <2>2 DEF Within
<1> QED BY <1>2, <1>3, <1>4 DEF BlocksTile

\* that holes stay apart, and that null means that nothing fits.
LEMMA InvGivesRest == HeapInv => HolesStayApart /\ NullOnlyWhenNothingFits
<1> SUFFICES ASSUME HeapInv PROVE HolesStayApart /\ NullOnlyWhenNothingFits
  OBVIOUS
<1>1. CASE NotReady
  BY <1>1, NoHolesYet DEF HolesStayApart, NullOnlyWhenNothingFits
<1>2. CASE Memory(free_list, next, size, Holes, live, Pending) /\ Walk
  <2>1. HolesStayApart
    BY <1>2 DEF HolesStayApart, Memory, Apart
  <2>2. ASSUME pc = "allocate", current = null, NEW h \in Holes PROVE size[h] < needed
    <3>1. ~(size[h] >= needed) /\ Aligned(needed)
      BY <1>2, <2>2 DEF Walk
    <3>2. size[h] \in Nat /\ needed \in Nat
      <4>1. h \in Starts
        BY <1>2 DEF Memory, List
      <4> QED BY <3>1, <4>1, AlignedSum, ZenonT(30) DEF HeapInv, Types
    <3> QED BY <3>1, <3>2
  <2> QED BY <2>1, <2>2 DEF NullOnlyWhenNothingFits
<1> QED BY <1>1, <1>2 DEF HeapInv

\* The invariant holds in every reachable state.
LEMMA Invariance == Spec => []HeapInv
BY InitInv, NextInv, PTL DEF Spec

(***************************************************************************)
(* Whatever is allocated, freed and written, in any order and for any heap *)
(* of whole units, allocate and insert_free keep every byte of it in       *)
(* exactly one block.                                                      *)
(***************************************************************************)
THEOREM HeapIsTiled == Spec => []BlocksTile
BY Invariance, InvGivesTile, PTL

(***************************************************************************)
(* insert_free always leaves the list sorted and fully merged.             *)
(***************************************************************************)
THEOREM HeapIsCoalesced == Spec => []HolesStayApart
BY Invariance, InvGivesRest, PTL

(***************************************************************************)
(* First fit is exhaustive: allocate reports null only when no hole of the *)
(* heap, not just none it happened to visit, can hold the request.         *)
(***************************************************************************)
THEOREM NullMeansFull == Spec => []NullOnlyWhenNothingFits
BY Invariance, InvGivesRest, PTL
-----------------------------------------------------------------------------
\* An address in one block is neither the header nor the payload of another.
LEMMA Elsewhere ==
  ASSUME HeapInv, NEW b \in live, NEW c \in Holes \cup live \cup Pending, c # b,
         NEW a \in Starts, c <= a, a < c + size[c]
  PROVE  a # b /\ a \notin Payload(b)
<1>1. Memory(free_list, next, size, Holes, live, Pending)
  BY DEF HeapInv, NotReady
<1>2. Tiles(size, Holes \cup live \cup Pending)
  BY <1>1 DEF Memory
<1>3. b \in Nat /\ c \in Nat /\ size[b] \in Nat /\ size[c] \in Nat /\ size[b] >= 1
  BY <1>2, TilesTypes
<1>4. (b < c => b + size[b] <= c) /\ (c < b => c + size[c] <= b)
  BY <1>2 DEF Tiles
<1>5. a \in Nat
  BY StartsAreNat
<1>6. ~(b <= a /\ a < b + size[b])
  BY <1>3, <1>4, <1>5
<1> QED BY <1>3, <1>5, <1>6 DEF Payload

\* A block is in itself.
LEMMA HeaderWithin ==
  ASSUME HeapInv, live # {}, NEW c \in Holes \cup live \cup Pending
  PROVE  c \in Starts /\ c \in Nat /\ size[c] \in Nat /\ c <= c /\ c < c + size[c]
<1>0. Memory(free_list, next, size, Holes, live, Pending)
  BY DEF HeapInv, NotReady
<1>1. Tiles(size, Holes \cup live \cup Pending)
  BY <1>0 DEF Memory
<1>2. c \in Nat /\ size[c] \in Nat /\ size[c] >= 1 /\ c \in Starts
  BY <1>1, TilesTypes, ZenonT(30) DEF Tiles
<1> QED BY <1>2

\* A step that writes only inside other blocks keeps b.
Untouched(b) == size'[b] = size[b] /\ Kept(Payload(b))

\* What is written inside other blocks leaves a live block alone.
LEMMA KeptIf ==
  ASSUME HeapInv, NEW b \in live, NEW W,
         \A a \in Starts \ W : size'[a] = size[a] /\ next'[a] = next[a],
         \A w \in W : \E c \in Holes \cup live \cup Pending : c # b /\ c <= w /\ w < c + size[c]
  PROVE  Untouched(b)
<1>1. \A w \in W \cap Starts : w # b /\ w \notin Payload(b)
  BY Elsewhere
<1>2. b \in Starts /\ Payload(b) \subseteq Starts
  BY DEF HeapInv, Types, Payload
<1> QED BY <1>1, <1>2 DEF Untouched, Kept

\* No step but its owner's write changes the payload of a live block.
LEMMA StepsKeep ==
  ASSUME HeapInv, Next, NEW b \in live, b \in live'
  PROVE  size'[b] = size[b] /\ (Kept(Payload(b)) \/ \E junk \in Junk : OwnerWrites(b, junk))
<1> DEFINE B == Holes \cup live \cup Pending
<1> SUFFICES Untouched(b) \/ (size'[b] = size[b] /\ \E junk \in Junk : OwnerWrites(b, junk))
  BY DEF Untouched
<1>0. b \in Starts /\ ~NotReady /\ Types /\ size \in [Starts -> Nat] /\ next \in [Starts -> Nat]
  BY DEF HeapInv, NotReady, Types
<1>a. Memory(free_list, next, size, Holes, live, Pending) /\ Walk
  BY <1>0 DEF HeapInv
<1>b. Holes \cap live = {} /\ Pending \cap live = {} /\ Holes \subseteq Starts
  BY <1>a DEF Memory, List
<1>1. CASE UNCHANGED <<size, next>>
  BY <1>1 DEF Untouched, Kept
<1>2. CASE init
  BY <1>2, <1>0, Constants DEF HeapInv, init, is_ready
<1>3. ASSUME NEW c \in Starts, Deallocate(c) PROVE Untouched(b)
  <2>1. c \in live /\ c # b /\ size' = size
    BY <1>3 DEF Deallocate
  <2>2. \A a \in Starts \ {c} : size'[a] = size[a] /\ next'[a] = next[a]
    <3>1. next' = next \/ next' = [next EXCEPT ![c] = null]
      BY <1>3 DEF Deallocate
    <3> QED BY <3>1, <2>1, <1>0
  <2> DEFINE W == {c}
  <2>3. \A w \in W : w \in B /\ w # b /\ w <= w /\ w < w + size[w]
    BY <2>1, HeaderWithin
  <2>4. \A a \in Starts \ W : size'[a] = size[a] /\ next'[a] = next[a]
    BY <2>2
  <2> HIDE DEF W
  <2> QED BY <2>3, <2>4, KeptIf
<1>4. ASSUME NEW c \in Starts, NEW junk \in Junk, OwnerWrites(c, junk), c # b PROVE Untouched(b)
  <2> DEFINE W == {a \in Starts : c < a /\ a < c + size[c]}
  <2>1. c \in live
    BY <1>4 DEF OwnerWrites
  <2>2. \A a \in Starts \ W : size'[a] = size[a] /\ next'[a] = next[a]
    BY <1>4 DEF OwnerWrites
  <2>3. \A w \in W : c <= w /\ w < c + size[c]
    BY <1>4, StartsAreNat
  <2> HIDE DEF W
  <2> QED BY <1>4, <2>1, <2>2, <2>3, KeptIf
<1>5. ASSUME NEW junk \in Junk, OwnerWrites(b, junk) PROVE size'[b] = size[b]
  <2>1. size'[b] = IF b < b /\ b < b + size[b] THEN junk ELSE size[b]
    BY <1>5, <1>0 DEF OwnerWrites
  <2> QED BY <2>1, <1>0, StartsAreNat
<1>6. CASE AllocateTake
  <2> DEFINE s == current + needed
             W == {current} \cup (IF prev = null THEN {} ELSE {prev})
                            \cup (IF size[current] - needed >= HEADER_SIZE THEN {s} ELSE {})
  <2>1. pc = "allocate" /\ current # null /\ size[current] >= needed
    BY <1>6 DEF AllocateTake, Fits
  <2>2. current \in Holes /\ (prev # null => prev \in Holes)
        /\ Aligned(needed) /\ request \in Nat /\ needed >= request + HEADER_SIZE
    BY <2>1, <1>a DEF Walk, Follows
  <2>3. needed \in Nat /\ current \in Nat /\ size[current] \in Nat
    BY <2>2, <1>0, <1>b, AlignedSum, StartsAreNat, ZenonT(30)
  <2>4. \A a \in Starts \ W : size'[a] = size[a] /\ next'[a] = next[a]
    <3> SUFFICES ASSUME NEW a \in Starts, a \notin W
                 PROVE  size'[a] = size[a] /\ next'[a] = next[a]
      OBVIOUS
    <3>1. CASE size[current] - needed >= HEADER_SIZE
      <4>1. a # current /\ a # s /\ (prev # null => a # prev)
        BY <3>1
      <4>2. size' = [[size EXCEPT ![s] = size[current] - needed] EXCEPT ![current] = needed]
        BY <3>1, <1>6 DEF AllocateTake
      <4>3. /\ prev = null => next' = [[next EXCEPT ![s] = next[current]] EXCEPT ![current] = null]
            /\ prev # null => next' = [[[next EXCEPT ![s] = next[current]] EXCEPT ![prev] = s]
                                      EXCEPT ![current] = null]
        BY <3>1, <1>6, ZenonT(30) DEF AllocateTake
      <4> HIDE DEF s, W
      <4>4. size'[a] = size[a]
        BY <4>1, <4>2, <1>0
      <4>5. next'[a] = next[a]
        BY <4>1, <4>3, <1>0
      <4> QED BY <4>4, <4>5
    <3>2. CASE ~(size[current] - needed >= HEADER_SIZE)
      <4>1. a # current /\ (prev # null => a # prev)
        BY <3>2
      <4>2. size' = [size EXCEPT ![current] = needed + (size[current] - needed)]
        BY <3>2, <1>6, ZenonT(30) DEF AllocateTake
      <4>3. /\ prev = null => next' = [next EXCEPT ![current] = null]
            /\ prev # null => next' = [[next EXCEPT ![prev] = next[current]] EXCEPT ![current] = null]
        BY <3>2, <1>6, ZenonT(30) DEF AllocateTake
      <4> HIDE DEF s, W
      <4> QED BY <4>1, <4>2, <4>3, <1>0
    <3> QED BY <3>1, <3>2
  <2>5. ASSUME NEW w \in W PROVE \E c \in B : c # b /\ c <= w /\ w < c + size[c]
    <3>1. \A c \in Holes : c \in B /\ c # b /\ c <= c /\ c < c + size[c]
      BY <1>b, HeaderWithin
    <3>2. w = current \/ (prev # null /\ w = prev) \/ (size[current] - needed >= HEADER_SIZE /\ w = s)
      OBVIOUS
    <3>3. size[current] - needed >= HEADER_SIZE => current <= s /\ s < current + size[current]
      BY <2>3, Constants
    <3> HIDE DEF W, s, B
    <3> QED BY <2>2, <3>1, <3>2, <3>3
  <2> HIDE DEF W
  <2> QED BY <2>4, <2>5, KeptIf
<1>7. CASE InsertSplice
  <2> DEFINE W == {block} \cup (IF prev = null THEN {} ELSE {prev})
             linked  == [next EXCEPT ![block] = current]
             spliced == IF prev = null THEN linked ELSE [linked EXCEPT ![prev] = block]
             forward == Merge([size |-> size, next |-> spliced], block, current)
             both    == Merge(forward, prev, block)
  <2>1. pc = "insert" /\ Pending = {block} /\ (prev # null => prev \in Holes)
    BY <1>7, <1>a DEF InsertSplice, Pending, Walk, Follows
  <2>2. size' = both.size /\ next' = both.next
    BY <1>7 DEF InsertSplice
  <2>3. \A a \in Starts \ W : size'[a] = size[a] /\ next'[a] = next[a]
    <3> SUFFICES ASSUME NEW a \in Starts, a # block, prev # null => a # prev
                 PROVE  both.size[a] = size[a] /\ both.next[a] = next[a]
      BY <2>2
    <3>1. spliced[a] = next[a] /\ DOMAIN spliced = Starts
      BY <1>0
    <3> HIDE DEF spliced
    <3>2. /\ forward.size[a] = size[a] /\ forward.next[a] = spliced[a]
          /\ DOMAIN forward.size = Starts /\ DOMAIN forward.next = Starts
      <4> DEFINE h == [size |-> size, next |-> spliced]
      <4>1. h.size = size /\ h.next = spliced
        OBVIOUS
      <4> HIDE DEF h
      <4>2. CASE forward = h
        BY <4>1, <4>2, <3>1, <1>0
      <4>3. CASE forward = [size |-> [h.size EXCEPT ![block] = @ + h.size[current]],
                            next |-> [h.next EXCEPT ![block] = h.next[current]]]
        <5>1. /\ forward.size = [h.size EXCEPT ![block] = @ + h.size[current]]
              /\ forward.next = [h.next EXCEPT ![block] = h.next[current]]
          BY <4>3
        <5>2. DOMAIN h.size = Starts /\ DOMAIN h.next = Starts
          BY <4>1, <3>1, <1>0
        <5>3. forward.size[a] = h.size[a] /\ DOMAIN forward.size = Starts
          BY <5>1, <5>2
        <5>4. forward.next[a] = h.next[a] /\ DOMAIN forward.next = Starts
          BY <5>1, <5>2
        <5> QED BY <5>3, <5>4, <4>1
      <4> QED BY <4>2, <4>3 DEF Merge, h
    <3> HIDE DEF forward
    <3>3. CASE both = forward
      BY <3>1, <3>2, <3>3
    <3>4. CASE /\ prev # null
               /\ both = [size |-> [forward.size EXCEPT ![prev] = @ + forward.size[block]],
                          next |-> [forward.next EXCEPT ![prev] = forward.next[block]]]
      <4>1. /\ both.size = [forward.size EXCEPT ![prev] = @ + forward.size[block]]
            /\ both.next = [forward.next EXCEPT ![prev] = forward.next[block]]
        BY <3>4
      <4> HIDE DEF both
      <4> QED BY <4>1, <3>1, <3>2, <3>4
    <3> QED BY <3>3, <3>4 DEF Merge
  <2>4. ASSUME NEW w \in W PROVE \E c \in B : c # b /\ c <= w /\ w < c + size[c]
    <3>1. w \in B /\ w \notin live
      BY <2>1, <1>b
    <3>2. w <= w /\ w < w + size[w]
      BY <3>1, HeaderWithin
    <3> QED BY <3>1, <3>2
  <2> HIDE DEF W
  <2> QED BY <2>3, <2>4, KeptIf
<1>8. Next => \/ UNCHANGED <<size, next>> \/ init \/ AllocateTake \/ InsertSplice
              \/ \E c \in Starts : Deallocate(c)
              \/ \E c \in Starts, junk \in Junk : OwnerWrites(c, junk)
  BY DEF Next, Step, AllocateRefused, AllocateCall, AllocateWalk, AllocateFails, InsertWalk, vars
<1> QED BY <1>0, <1>1, <1>2, <1>3, <1>4, <1>5, <1>6, <1>7, <1>8

(***************************************************************************)
(* In every heap the callers' bytes are theirs: allocate and insert_free   *)
(* write only in holes, in the block they hand out and in the one they     *)
(* take back.                                                              *)
(***************************************************************************)
THEOREM HeapKeepsPayloads == Spec => PayloadsAreKept
<1> DEFINE K == \A b \in live \cap live' :
                  /\ size'[b] = size[b]
                  /\ Kept(Payload(b)) \/ \E junk \in Junk : OwnerWrites(b, junk)
<1>1. ASSUME HeapInv, [Next]_vars PROVE [K]_vars
  BY <1>1, StepsKeep
<1>2. Spec => [][K]_vars
  BY <1>1, Invariance, PTL DEF Spec
<1> QED BY <1>2 DEF PayloadsAreKept

\* Behind a hole of an ordered list comes one further up.
LEMMA NextIsAbove ==
  ASSUME HeapInv, pc \in {"allocate", "insert"}, current # null
  PROVE  next[current] = null \/ (current < next[current] /\ next[current] < heap_end)
<1>1. heap_end = END /\ List(free_list, next, Holes) /\ Walk
  BY DEF HeapInv, NotReady, Memory
<1>2. current \in Holes
  BY <1>1 DEF Walk, Follows
<1>3. Follows(Holes, current, next[current]) /\ Holes \subseteq Starts
  BY <1>1, <1>2 DEF List
<1>4. next[current] # null => next[current] \in Starts /\ current < next[current]
  BY <1>3 DEF Follows
<1> QED BY <1>1, <1>4, StartsAreNat, ZenonT(30)

(***************************************************************************)
(* In every heap the walks of allocate and insert_free only go up, so      *)
(* that each ends, after at most one turn for each hole.                   *)
(***************************************************************************)
THEOREM WalksEnd == Spec => WalksGoForward
<1> DEFINE F == pc # "idle" /\ pc' # "idle" =>
                  current # null /\ (current' = null \/ (current < current' /\ current' < heap_end))
<1>1. ASSUME HeapInv, Next PROVE F
  <2>1. CASE AllocateWalk
    BY <1>1, <2>1, NextIsAbove DEF AllocateWalk
  <2>2. CASE InsertWalk
    BY <1>1, <2>2, NextIsAbove DEF InsertWalk
  <2>3. CASE AllocateTake \/ AllocateFails \/ InsertSplice
    BY <2>3 DEF AllocateTake, AllocateFails, InsertSplice, Return
  <2>4. ASSUME ~Step PROVE pc = "idle"
    BY <1>1, <2>4 DEF Next, init, AllocateRefused, AllocateCall, Deallocate, OwnerWrites
  <2> QED BY <2>1, <2>2, <2>3, <2>4 DEF Step
<1>2. Spec => [][F]_vars
  BY <1>1, Invariance, PTL DEF Spec
<1> QED BY <1>2 DEF WalksGoForward
-----------------------------------------------------------------------------
\* The bytes of the blocks L.
Bytes(sz, L) == {a \in HEAP_START .. END - 1 : \E b \in L : b <= a /\ a < b + sz[b]}

\* They are finitely many,
LEMMA BytesAreFinite ==
  ASSUME NEW sz, NEW L
  PROVE  IsFiniteSet(Bytes(sz, L)) /\ Cardinality(Bytes(sz, L)) \in Nat
<1>1. HEAP_START \in Int /\ END - 1 \in Int
  BY Constants
<1>2. IsFiniteSet(HEAP_START .. END - 1)
  BY <1>1, FS_Interval
<1>3. Bytes(sz, L) \in SUBSET (HEAP_START .. END - 1)
  BY DEF Bytes
<1>4. IsFiniteSet(Bytes(sz, L))
  BY <1>2, <1>3, FS_Subset, ZenonT(30)
<1> QED BY <1>4, FS_CardinalityType

\* and depend on the sizes of those blocks only.
LEMMA BytesSame ==
  ASSUME NEW sz, NEW sz1, NEW L, \A b \in L : sz1[b] = sz[b]
  PROVE  Bytes(sz1, L) = Bytes(sz, L)
BY DEF Bytes

\* A block of a tiling that is not in L adds its size.
LEMMA BytesAdd ==
  ASSUME NEW sz, NEW B, Tiles(sz, B), NEW L, L \subseteq B, NEW c \in B, c \notin L
  PROVE  Cardinality(Bytes(sz, L \cup {c})) = Cardinality(Bytes(sz, L)) + sz[c]
<1> DEFINE own == c .. c + sz[c] - 1
<1>1. c \in Nat /\ sz[c] \in Nat /\ sz[c] >= 1 /\ c >= HEAP_START /\ c + sz[c] <= END
  BY TilesTypes, StartsAreNat, Constants, ZenonT(30) DEF Tiles
<1>2. HEAP_START \in Nat /\ END \in Nat
  BY Constants
<1>3. own = {a \in HEAP_START .. END - 1 : c <= a /\ a < c + sz[c]}
  BY <1>1, <1>2
<1>4. Bytes(sz, L \cup {c}) = Bytes(sz, L) \cup own
  BY <1>3 DEF Bytes
<1>5. ASSUME NEW a \in Bytes(sz, L) PROVE a \notin own
  <2>1. PICK b \in L : b <= a /\ a < b + sz[b]
    BY DEF Bytes
  <2>2. b \in Nat /\ sz[b] \in Nat /\ b # c
    BY TilesTypes
  <2>3. a \in Nat
    BY <1>2 DEF Bytes
  <2>4. (b < c => b + sz[b] <= c) /\ (c < b => c + sz[c] <= b)
    BY DEF Tiles
  <2> QED BY <2>1, <2>2, <2>3, <2>4, <1>1
<1>6. IsFiniteSet(own) /\ Cardinality(own) = sz[c]
  <2>1. c \in Int /\ c + sz[c] - 1 \in Int /\ ~(c > c + sz[c] - 1) /\ (c + sz[c] - 1) - c + 1 = sz[c]
    BY <1>1
  <2> QED BY <2>1, FS_Interval, ZenonT(30)
<1>7. Bytes(sz, L) \cap own = {}
  BY <1>5
<1> HIDE DEF own
<1>8. IsFiniteSet(Bytes(sz, L)) /\ Cardinality(Bytes(sz, L)) \in Nat
  BY BytesAreFinite
<1>9. Cardinality(Bytes(sz, L) \cup own) = Cardinality(Bytes(sz, L)) + Cardinality(own) - Cardinality({})
  BY <1>6, <1>7, <1>8, FS_Union
<1>10. Cardinality({}) = 0
  BY FS_EmptySet
<1>11. Cardinality(Bytes(sz, L) \cup own) = Cardinality(Bytes(sz, L)) + sz[c] - 0
  BY <1>6, <1>9, <1>10, ZenonT(30)
<1>12. ASSUME NEW n \in Nat, NEW m \in Nat PROVE n + m - 0 = n + m
  OBVIOUS
<1> QED BY <1>1, <1>4, <1>8, <1>11, <1>12, ZenonT(30)

\* `used` is the number of bytes of the live blocks.
Counted == used = Cardinality(Bytes(size, live))

\* A step that neither allocates nor frees keeps the count.
LEMMA CountKept ==
  ASSUME Counted, UNCHANGED <<used, live>>, \A b \in live : size'[b] = size[b]
  PROVE  Counted'
<1>1. Bytes(size', live) = Bytes(size, live)
  BY BytesSame
<1> QED BY <1>1 DEF Counted

\* allocate adds the block it hands out.
LEMMA TakeCounts ==
  ASSUME HeapInv, Counted, AllocateTake
  PROVE  Counted'
<1> DEFINE B1 == Holes' \cup live' \cup Pending'
<1>1. pc = "allocate" /\ current # null /\ size[current] >= needed /\ live' = live \cup {current}
  BY DEF AllocateTake, Fits
<1>2. Memory(free_list, next, size, Holes, live, Pending) /\ Walk /\ Types
  BY <1>1 DEF HeapInv, NotReady
<1>3. current \in Holes /\ Aligned(needed)
  BY <1>1, <1>2 DEF Walk, Follows
<1>4. current \in Starts /\ current \notin live
  BY <1>2, <1>3 DEF Memory, List
<1>5. size[current] \in Nat /\ needed \in Nat
  BY <1>2, <1>3, <1>4, AlignedSum, ZenonT(30) DEF Types
<1>6. used' = used + size'[current]
  <2>1. CASE size[current] - needed >= HEADER_SIZE
    <3>1. size' = [[size EXCEPT ![current + needed] = size[current] - needed] EXCEPT ![current] = needed]
          /\ used' = used + needed
      BY <2>1, ZenonT(30) DEF AllocateTake
    <3> QED BY <3>1, <1>2, <1>4 DEF Types
  <2>2. CASE ~(size[current] - needed >= HEADER_SIZE)
    <3>1. size' = [size EXCEPT ![current] = needed + (size[current] - needed)]
          /\ used' = used + (needed + (size[current] - needed))
      BY <2>2, ZenonT(30) DEF AllocateTake
    <3> QED BY <3>1, <1>2, <1>4 DEF Types
  <2> QED BY <2>1, <2>2
<1>7. HeapInv'
  BY NextInv DEF Next, Step
<1>8. Tiles(size', B1)
  BY <1>1, <1>7 DEF HeapInv, NotReady, Memory
<1>9. \A b \in live : size'[b] = size[b]
  BY <1>1, StepsKeep DEF Next, Step
<1>10. Bytes(size', live) = Bytes(size, live)
  BY <1>9, BytesSame
<1>11. live \subseteq B1 /\ current \in B1
  BY <1>1
<1> HIDE DEF B1
<1>12. Cardinality(Bytes(size', live \cup {current})) = Cardinality(Bytes(size', live)) + size'[current]
  BY <1>4, <1>8, <1>11, BytesAdd
<1> QED BY <1>1, <1>6, <1>10, <1>12 DEF Counted

\* deallocate takes off the size it reads in front of the pointer.
LEMMA DeallocateCounts ==
  ASSUME HeapInv, Counted, NEW b \in Starts, Deallocate(b)
  PROVE  Counted'
<1>1. b \in live /\ live' = live \ {b} /\ size' = size /\ pc = "idle"
  BY DEF Deallocate
<1>2. /\ heap_start = HEAP_START /\ heap_end = END /\ Types
      /\ Memory(free_list, next, size, Holes, live, Pending)
  BY <1>1 DEF HeapInv, NotReady
<1> DEFINE B == Holes \cup live \cup Pending
<1>3. Tiles(size, B) /\ b \in B /\ live \ {b} \subseteq B
  BY <1>1, <1>2 DEF Memory
<1> HIDE DEF B
<1>4. size[b] \in Nat /\ size[b] >= HEADER_SIZE /\ b + size[b] <= END
  BY <1>3, TilesTypes DEF Tiles
<1>5. b \in Nat /\ HEAP_START <= b /\ b < END
  BY StartsAreNat
<1>6. used' = saturating_sub(used, size[b])
  <2>1. ~(~is_ready \/ b < heap_start \/ b >= heap_end \/ size[b] < HEADER_SIZE \/ b + size[b] > heap_end)
    BY <1>2, <1>4, <1>5, Constants DEF is_ready
  <2> QED BY <2>1 DEF Deallocate, freed
<1>7. (live \ {b}) \cup {b} = live
  BY <1>1
<1>8. Cardinality(Bytes(size, live)) = Cardinality(Bytes(size, live \ {b})) + size[b]
  BY <1>3, <1>7, BytesAdd
<1>9. Cardinality(Bytes(size, live \ {b})) \in Nat
  BY BytesAreFinite
<1> QED BY <1>1, <1>4, <1>6, <1>8, <1>9 DEF Counted, saturating_sub

\* Every step keeps the count.
LEMMA StepCounts == ASSUME HeapInv, Counted, [Next]_vars PROVE Counted'
<1>1. CASE UNCHANGED vars
  BY <1>1, CountKept DEF vars
<1>2. CASE init
  <2>1. live = {} /\ live' = {} /\ used' = 0
    <3>1. END > HEAP_START
      BY Constants
    <3> QED BY <1>2, <3>1 DEF HeapInv, init, is_ready, NotReady
  <2>2. Bytes(size', {}) = {}
    BY DEF Bytes
  <2> QED BY <2>1, <2>2, FS_EmptySet DEF Counted
<1>3. CASE AllocateTake
  BY <1>3, TakeCounts
<1>4. ASSUME NEW b \in Starts, Deallocate(b) PROVE Counted'
  BY <1>4, DeallocateCounts
<1>5. ASSUME Next, UNCHANGED <<used, live>> PROVE Counted'
  BY <1>5, StepsKeep, CountKept
<1>6. Next => \/ init \/ AllocateTake \/ (\E b \in Starts : Deallocate(b)) \/ UNCHANGED <<used, live>>
  BY DEF Next, Step, AllocateRefused, AllocateCall, AllocateWalk, AllocateFails, InsertWalk,
         InsertSplice, OwnerWrites, vars
<1> QED BY <1>1, <1>2, <1>3, <1>4, <1>5, <1>6

(***************************************************************************)
(* For every heap, every request a caller was granted is in a block large  *)
(* enough for it, and `used` counts exactly the bytes of those blocks: the *)
(* saturating subtraction in deallocate never saturates.                   *)
(***************************************************************************)
THEOREM HeapIsAccounted == Spec => []LiveIsAccounted
<1>1. Init => Counted
  <2>1. Bytes(size, {}) = {}
    BY DEF Bytes
  <2> QED BY <2>1, FS_EmptySet DEF Init, Counted
<1>2. HeapInv /\ Counted => LiveIsAccounted
  <2> SUFFICES ASSUME HeapInv, Counted PROVE LiveIsAccounted
    OBVIOUS
  <2>1. LiveBytes = Bytes(size, live)
    BY DEF LiveBytes, Bytes, Within
  <2>2. \A b \in live : asked[b] > 0 /\ size[b] >= asked[b] + HEADER_SIZE
    BY DEF HeapInv, NotReady, Fitted
  <2> QED BY <2>1, <2>2 DEF Counted, LiveIsAccounted
<1> QED BY <1>1, <1>2, Invariance, StepCounts, PTL DEF Spec
=============================================================================
