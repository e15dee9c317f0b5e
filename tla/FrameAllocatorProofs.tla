------------------------ MODULE FrameAllocatorProofs ------------------------
(***************************************************************************)
(* Proofs about FrameAllocator, for every pool.                            *)
(*                                                                         *)
(* The inductive invariant names the free list: a sequence of frames that  *)
(* the links spell out, none of them owned.  An owner's write then cannot  *)
(* reach a link, the double-free walk of `free` is exact, and neither the  *)
(* list nor the cursor can yield a frame somebody owns.                    *)
(***************************************************************************)
EXTENDS FrameSelfTest, FiniteSetTheorems, TLAPS

\* The provers have half a minute for each leaf that names none itself.
USE SMTT(30), ZenonT(30)

(***************************************************************************)
(* Induction over the naturals, as a fact about sets of naturals.          *)
(***************************************************************************)
\* A non-empty set of natural numbers has a least element.
LEMMA LeastNat ==
  ASSUME NEW S \in SUBSET Nat, S # {}
  PROVE  \E m \in S : \A k \in S : m <= k
<1>1. PICK m \in S : \A y \in S : ~(<<y, m>> \in OpToRel(<, Nat))
  BY NatLessThanWellFounded, WFMin, ZenonT(30)
<1>2. \A y \in S : ~(y < m)
  BY <1>1, ZenonT(30) DEF OpToRel
<1> QED BY <1>2

\* A set of naturals closed under successor and holding zero is all of them.
LEMMA NatSetInduction ==
  ASSUME NEW S \in SUBSET Nat, 0 \in S, \A n \in S : n + 1 \in S
  PROVE  S = Nat
<1> SUFFICES ASSUME Nat \ S # {} PROVE FALSE
  BY ZenonT(30)
<1>1. PICK m \in Nat \ S : \A k \in Nat \ S : m <= k
  BY LeastNat, ZenonT(30)
<1>2. m # 0 /\ m - 1 \in Nat
  BY <1>1
<1>3. m - 1 \in S
  BY <1>1, <1>2
<1> QED BY <1>1, <1>2, <1>3

(***************************************************************************)
(* The free list as a sequence.                                            *)
(***************************************************************************)
IsChain(s) ==
  /\ free_list = IF free_count = 0 THEN NO_FRAME ELSE s[1]
  /\ \A i \in 1 .. free_count : link[s[i]] = IF i = free_count THEN NO_FRAME ELSE s[i + 1]
  /\ \A i, j \in 1 .. free_count : s[i] = s[j] => i = j
  /\ \A i \in 1 .. free_count : Managed(s[i]) /\ handed_out(s[i]) /\ owners[s[i]] = 0

Chains == [1 .. free_count -> Frames]
Elements(s) == {s[i] : i \in 1 .. free_count}

IInv ==
  /\ TypeOK
  /\ SingleOwner
  /\ OwnedIsManaged
  /\ \E s \in Chains : IsChain(s)

\* on_free_list's walk visits exactly the frames of the list, in order.
LEMMA WalkIsChain ==
  ASSUME TypeOK, NEW s \in Chains, IsChain(s)
  PROVE  \A n \in Nat : walk[n] = IF n < free_count THEN s[n + 1] ELSE NO_FRAME
<1> DEFINE g == [n \in Nat |-> IF n < free_count THEN s[n + 1] ELSE NO_FRAME]
           Step(w) == [n \in Nat |-> IF n = 0 THEN free_list
                                     ELSE IF w[n - 1] \in Frames THEN link[w[n - 1]] ELSE NO_FRAME]
<1>1. g = Step(g)
  <2> SUFFICES ASSUME NEW n \in Nat PROVE g[n] = Step(g)[n]
    OBVIOUS
  <2>1. CASE n = 0
    BY <2>1 DEF IsChain, TypeOK
  <2>2. CASE n # 0 /\ n - 1 < free_count
    <3>1. g[n - 1] = s[n] /\ s[n] \in Frames
      BY <2>2 DEF TypeOK, Chains
    <3>2. link[s[n]] = g[n]
      BY <2>2 DEF IsChain, TypeOK
    <3> QED BY <2>2, <3>1, <3>2
  <2>3. CASE n # 0 /\ n - 1 >= free_count
    BY <2>3, FrameAssumption DEF TypeOK
  <2> QED BY <2>1, <2>2, <2>3 DEF TypeOK
<1>2. walk = CHOOSE w : w = Step(w)
  BY DEF walk
<1> HIDE DEF g, Step
<1>3. walk = Step(walk)
  BY <1>1, <1>2
<1> DEFINE S == {n \in Nat : walk[n] = g[n]}
<1>4. 0 \in S
  BY <1>1, <1>3 DEF Step
<1>5. \A n \in S : n + 1 \in S
  <2> SUFFICES ASSUME NEW n \in S PROVE walk[n + 1] = g[n + 1]
    OBVIOUS
  <2>1. n + 1 \in Nat /\ n + 1 # 0 /\ (n + 1) - 1 = n /\ walk[n] = g[n]
    OBVIOUS
  <2>2. walk[n + 1] = IF walk[n] \in Frames THEN link[walk[n]] ELSE NO_FRAME
    BY <1>3, <2>1 DEF Step
  <2>3. g[n + 1] = IF g[n] \in Frames THEN link[g[n]] ELSE NO_FRAME
    BY <1>1, <2>1 DEF Step
  <2> QED BY <2>1, <2>2, <2>3
<1>6. S = Nat
  BY <1>4, <1>5, NatSetInduction, ZenonT(30)
<1> QED BY <1>6, ZenonT(30) DEF g

\* free refuses a frame that is on the list: `Ok` means it is not there.
LEMMA NotOnListIsNotInChain ==
  ASSUME TypeOK, NEW s \in Chains, IsChain(s), NEW index \in Frames, ~on_free_list(index)
  PROVE  \A i \in 1 .. free_count : s[i] # index
<1> SUFFICES ASSUME NEW i \in 1 .. free_count, s[i] = index PROVE FALSE
  OBVIOUS
<1>1. i - 1 \in 0 .. free_count - 1 /\ i - 1 \in Nat /\ (i - 1) + 1 = i /\ i - 1 < free_count
  BY DEF TypeOK
<1>2. walk[i - 1] = s[i]
  BY <1>1, WalkIsChain
<1> QED BY <1>1, <1>2 DEF on_free_list

(***************************************************************************)
(* The bump cursor.                                                        *)
(***************************************************************************)
\* A run ahead of the cursor holds only pool frames the cursor has not passed.
LEMMA RunIsAhead ==
  ASSUME TypeOK, NEW r \in 1 .. Len(regions), NEW s \in Frames, NEW count \in Nat,
         IsRun(r, s, count), NEW f \in s .. s + count - 1
  PROVE  f \in Frames /\ InRegion(f, r) /\ Managed(f) /\ ~handed_out(f)
<1>1. regions[r] \in FrameRange /\ regions[r].end <= MAX_FRAME_INDEX /\ MAX_FRAME_INDEX \in Nat
  BY RegionsAssumption, FrameAssumption
<1>2. f \in Frames /\ InRegion(f, r)
  BY <1>1 DEF IsRun, InRegion, contains, Frames, FrameRange
<1>3. Managed(f)
  BY <1>2 DEF IsRun, Managed
<1>4. ASSUME handed_out(f) PROVE FALSE
  <2>1. PICK q \in 1 .. Len(regions) :
          InRegion(f, q) /\ (q < cursor_region \/ (q = cursor_region /\ f < cursor_frame))
    BY <1>4 DEF handed_out
  <2>2. q = r
    BY <1>2, <2>1, RegionsAssumption DEF InRegion
  <2>3. Len(regions) \in Nat
    BY RegionsAssumption
  <2> QED BY <2>1, <2>2, <2>3, <1>2 DEF IsRun, TypeOK, Frames
<1> QED BY <1>2, <1>3, <1>4

\* Bump and Exhaust only move the cursor forward.
CursorForward ==
  cursor_region' > cursor_region \/ (cursor_region' = cursor_region /\ cursor_frame' >= cursor_frame)

\* A cursor that only moves forward keeps every frame it has passed behind it.
LEMMA ForwardKeepsHandedOut ==
  ASSUME TypeOK, TypeOK', CursorForward
  PROVE  \A f \in Frames : handed_out(f) => handed_out(f)'
<1> SUFFICES ASSUME NEW f \in Frames, handed_out(f) PROVE handed_out(f)'
  OBVIOUS
<1>1. PICK q \in 1 .. Len(regions) :
        InRegion(f, q) /\ (q < cursor_region \/ (q = cursor_region /\ f < cursor_frame))
  BY DEF handed_out
<1>2. Len(regions) \in Nat
  BY RegionsAssumption
<1>3. q < cursor_region' \/ (q = cursor_region' /\ f < cursor_frame')
  BY <1>1, <1>2, FrameAssumption DEF CursorForward, TypeOK, Frames
<1> QED BY <1>1, <1>3 DEF handed_out, InRegion

\* Taking a run of frames, or running out, moves the cursor forward and keeps it in range.
LEMMA BumpMoves ==
  ASSUME TypeOK, NEW count \in Nat, Bump(count) \/ Exhaust(count)
  PROVE  CursorForward /\ cursor_region' \in 1 .. Len(regions) + 1 /\ cursor_frame' \in 0 .. MAX_FRAME_INDEX
<1>0. Len(regions) \in Nat /\ MAX_FRAME_INDEX \in Nat
  BY RegionsAssumption, FrameAssumption
<1>1. CASE Bump(count)
  <2>1. PICK r \in 1 .. Len(regions), s \in Frames :
          IsRun(r, s, count) /\ cursor_region' = r /\ cursor_frame' = s + count
    BY <1>1 DEF Bump, FirstRun
  <2>2. regions[r] \in FrameRange /\ regions[r].end <= MAX_FRAME_INDEX
    BY RegionsAssumption
  <2>3. s + count \in 0 .. MAX_FRAME_INDEX
    BY <1>0, <2>1, <2>2 DEF IsRun, Frames, FrameRange
  <2>4. r > cursor_region \/ (r = cursor_region /\ s + count >= cursor_frame)
    BY <1>0, <2>1 DEF IsRun, Frames, TypeOK
  <2> QED BY <1>0, <2>1, <2>3, <2>4 DEF CursorForward
<1>2. CASE Exhaust(count)
  BY <1>0, <1>2 DEF Exhaust, CursorForward, TypeOK
<1> QED BY <1>1, <1>2

(***************************************************************************)
(* Every operation preserves the invariant.                                *)
(***************************************************************************)
LEMMA InitEstablishes == Init => IInv
<1> SUFFICES ASSUME Init PROVE IInv
  OBVIOUS
<1> USE DEF Init
<1>1. TypeOK
  <2>1. Len(regions) \in Nat /\ (regions # << >> => 1 \in 1 .. Len(regions))
    BY RegionsAssumption
  <2>2. cursor_frame \in 0 .. MAX_FRAME_INDEX
    <3>1. CASE regions = << >>
      BY <3>1, FrameAssumption
    <3>2. CASE regions # << >>
      <4>1. regions[1] \in FrameRange /\ regions[1].start < regions[1].end
              /\ regions[1].end <= MAX_FRAME_INDEX
        BY <2>1, <3>2, RegionsAssumption
      <4> QED BY <3>2, <4>1, FrameAssumption DEF FrameRange
    <3> QED BY <3>1, <3>2
  <2> QED BY <2>1, <2>2, FrameAssumption DEF TypeOK, Word
<1>2. SingleOwner /\ OwnedIsManaged
  BY DEF SingleOwner, OwnedIsManaged, Owned
<1>3. [i \in 1 .. 0 |-> 0] \in Chains /\ IsChain([i \in 1 .. 0 |-> 0])
  BY DEF Chains, IsChain
<1> QED BY <1>1, <1>2, <1>3 DEF IInv

\* The list survives any step that leaves its links and its frames alone.
LEMMA ChainKept ==
  ASSUME TypeOK, NEW s \in Chains, IsChain(s), UNCHANGED <<free_list, free_count>>,
         \A i \in 1 .. free_count : /\ link'[s[i]] = link[s[i]]
                                    /\ owners'[s[i]] = 0
                                    /\ handed_out(s[i])'
  PROVE  s \in Chains' /\ IsChain(s)'
BY DEF Chains, IsChain, Managed, InRegion, TypeOK

\* allocate and allocate_contiguous from the cursor keep the invariant.
LEMMA BumpKeeps ==
  ASSUME IInv, NEW count \in Nat, Bump(count)
  PROVE  IInv' /\ \A c \in Chains : IsChain(c) => c \in Chains' /\ IsChain(c)'
<1>1. PICK r \in 1 .. Len(regions), s \in Frames :
        /\ IsRun(r, s, count)
        /\ cursor_region' = r
        /\ cursor_frame' = s + count
        /\ in_use' = in_use + count
        /\ Grant(s .. s + count - 1)
        /\ UNCHANGED <<free_list, free_count, link, stray>>
  BY DEF Bump, FirstRun
<1> DEFINE run == s .. s + count - 1
<1>2. \A f \in run : f \in Frames /\ InRegion(f, r) /\ Managed(f) /\ ~handed_out(f)
  BY <1>1, RunIsAhead DEF IInv
<1>3. \A f \in run : owners[f] = 0
  BY <1>2 DEF IInv, OwnedIsManaged, Owned, TypeOK
<1>4. TypeOK'
  <2>1. cursor_region' \in 1 .. Len(regions) + 1 /\ cursor_frame' \in 0 .. MAX_FRAME_INDEX
    BY BumpMoves DEF IInv
  <2>2. owners' \in [Frames -> Nat] /\ ever' \subseteq Frames
    <3>1. owners \in [Frames -> Nat] /\ ever \subseteq Frames
      BY DEF IInv, TypeOK
    <3>2. /\ owners' = [f \in Frames |-> IF f \in run THEN owners[f] + 1 ELSE owners[f]]
          /\ ever' = ever \cup run
      BY <1>1 DEF Grant
    <3>3. run \subseteq Frames
      BY <1>2
    <3>4. ASSUME NEW f \in Frames PROVE (IF f \in run THEN owners[f] + 1 ELSE owners[f]) \in Nat
      BY <3>1
    <3>5. owners' \in [Frames -> Nat]
      BY <3>2, <3>4
    <3> QED BY <3>1, <3>2, <3>3, <3>5
  <2>3. in_use' \in Nat
    <3>1. in_use \in Nat
      BY DEF IInv, TypeOK
    <3> QED BY <1>1, <3>1
  <2> QED BY <1>1, <2>1, <2>2, <2>3 DEF IInv, TypeOK
<1>5. \A f \in Frames : handed_out(f) => handed_out(f)'
  BY <1>4, BumpMoves, ForwardKeepsHandedOut DEF IInv
<1>6. \A f \in run : handed_out(f)'
  <2> SUFFICES ASSUME NEW f \in run PROVE handed_out(f)'
    OBVIOUS
  <2>1. f < s + count
    BY FrameAssumption DEF Frames
  <2>2. InRegion(f, r) /\ r = cursor_region' /\ f < cursor_frame'
    BY <1>1, <1>2, <2>1
  <2> QED BY <2>2 DEF handed_out, InRegion
<1>7. SingleOwner'
  BY <1>1, <1>3 DEF Grant, IInv, SingleOwner, TypeOK
<1>8. OwnedIsManaged'
  <2> SUFFICES ASSUME NEW f \in Frames, owners'[f] > 0 PROVE Managed(f) /\ handed_out(f)'
    BY DEF OwnedIsManaged, Owned, Managed, InRegion
  <2>1. CASE f \in run
    BY <1>2, <1>6, <2>1
  <2>2. CASE f \notin run
    BY <1>1, <1>5, <2>2 DEF Grant, IInv, OwnedIsManaged, Owned
  <2> QED BY <2>1, <2>2
<1>9. ASSUME NEW c \in Chains, IsChain(c) PROVE c \in Chains' /\ IsChain(c)'
  <2>2. ASSUME NEW i \in 1 .. free_count
        PROVE  link'[c[i]] = link[c[i]] /\ owners'[c[i]] = 0 /\ handed_out(c[i])'
    <3>1. c[i] \in Frames /\ handed_out(c[i]) /\ owners[c[i]] = 0
      BY <1>9 DEF Chains, IsChain
    <3>2. c[i] \notin run
      BY <3>1, <1>2
    <3> QED BY <1>1, <1>5, <3>1, <3>2 DEF Grant
  <2> QED BY <1>1, <1>9, <2>2, ChainKept DEF IInv
<1> QED BY <1>4, <1>7, <1>8, <1>9 DEF IInv

\* Running out of frames keeps the invariant.
LEMMA ExhaustKeeps ==
  ASSUME IInv, NEW count \in Nat, Exhaust(count)
  PROVE  IInv' /\ \A c \in Chains : IsChain(c) => c \in Chains' /\ IsChain(c)'
<1>1. TypeOK'
  BY BumpMoves DEF IInv, TypeOK, Exhaust
<1>2. \A f \in Frames : handed_out(f) => handed_out(f)'
  BY <1>1, BumpMoves, ForwardKeepsHandedOut DEF IInv
<1>3. SingleOwner' /\ OwnedIsManaged'
  BY <1>2 DEF IInv, Exhaust, SingleOwner, OwnedIsManaged, Owned, Managed, InRegion
<1>4. ASSUME NEW c \in Chains, IsChain(c) PROVE c \in Chains' /\ IsChain(c)'
  <2>2. \A i \in 1 .. free_count : c[i] \in Frames /\ handed_out(c[i]) /\ owners[c[i]] = 0
    BY <1>4 DEF Chains, IsChain
  <2> QED BY <1>2, <1>4, <2>2, ChainKept DEF IInv, Exhaust
<1> QED BY <1>1, <1>3, <1>4 DEF IInv

\* allocate from the free list keeps the invariant: the rest of the chain remains.
LEMMA PopKeeps ==
  ASSUME IInv, AllocateFromFreeList, NEW c \in Chains, IsChain(c)
  PROVE  /\ IInv'
         /\ free_list \in Frames /\ owners[free_list] = 0 /\ free_list \in Elements(c)
         /\ \E d \in Chains' : IsChain(d)' /\ Elements(d)' = Elements(c) \ {free_list}
<1> USE DEF AllocateFromFreeList, pop_free, saturating_pred
<1>1. IsChain(c)
  OBVIOUS
<1>2. free_count \in Nat /\ free_count # 0 /\ free_list = c[1] /\ free_list \in Frames
  BY <1>1 DEF IInv, TypeOK, IsChain, Chains
<1>3. owners[free_list] = 0 /\ Managed(free_list) /\ handed_out(free_list)
  BY <1>1, <1>2 DEF IsChain
<1>4. free_count' = free_count - 1 /\ link' = link
  BY <1>2
<1>5. TypeOK'
  BY <1>2, <1>4 DEF Grant, IInv, TypeOK
<1>6. \A f : handed_out(f)' <=> handed_out(f)
  BY DEF handed_out, InRegion
<1>7. SingleOwner' /\ OwnedIsManaged'
  BY <1>2, <1>3, <1>6 DEF Grant, IInv, TypeOK, SingleOwner, OwnedIsManaged, Owned, Managed, InRegion
<1>8. \E d \in Chains' : IsChain(d)' /\ Elements(d)' = Elements(c) \ {free_list}
  <2> PICK d : d = [i \in 1 .. free_count - 1 |-> c[i + 1]]
    BY ZenonT(30)
  <2>1. d \in Chains'
    BY <1>2, <1>4 DEF Chains
  <2>2. \A i \in 1 .. free_count - 1 : d[i] = c[i + 1] /\ i + 1 \in 1 .. free_count
    BY <1>2
  <2>3. free_list' = IF free_count' = 0 THEN NO_FRAME ELSE d[1]
    BY <1>1, <1>2, <1>4 DEF IsChain
  <2>4. \A i \in 1 .. free_count' : link'[d[i]] = IF i = free_count' THEN NO_FRAME ELSE d[i + 1]
    BY <1>1, <1>2, <1>4 DEF IsChain
  <2>5. \A i, j \in 1 .. free_count' : d[i] = d[j] => i = j
    BY <1>1, <1>2, <1>4, <2>2 DEF IsChain
  <2>6. \A i \in 1 .. free_count' : Managed(d[i])' /\ handed_out(d[i])' /\ owners'[d[i]] = 0
    <3> SUFFICES ASSUME NEW i \in 1 .. free_count'
                 PROVE  Managed(d[i])' /\ handed_out(d[i])' /\ owners'[d[i]] = 0
      BY ZenonT(30)
    <3>1. d[i] = c[i + 1] /\ i + 1 \in 1 .. free_count /\ c[i + 1] # c[1]
      BY <1>1, <1>2, <1>4, <2>2 DEF IsChain
    <3>2. Managed(d[i]) /\ handed_out(d[i]) /\ owners[d[i]] = 0 /\ d[i] \in Frames
      BY <3>1, <1>1 DEF IsChain, Chains
    <3> QED BY <1>2, <1>6, <3>1, <3>2 DEF Grant, Managed, InRegion
  <2>7. Elements(d)' = Elements(c) \ {free_list}
    <3>1. ASSUME NEW i \in 1 .. free_count - 1 PROVE d[i] \in Elements(c) \ {free_list}
      <4>1. c[i + 1] # c[1]
        BY <1>1, <1>2, <2>2 DEF IsChain
      <4> QED BY <1>2, <2>2, <4>1 DEF Elements
    <3>2. ASSUME NEW j \in 1 .. free_count, c[j] # free_list PROVE c[j] \in Elements(d)'
      <4>1. j - 1 \in 1 .. free_count' /\ d[j - 1] = c[j]
        BY <1>2, <1>4, <3>2
      <4> QED BY <4>1 DEF Elements
    <3> QED BY <1>4, <3>1, <3>2 DEF Elements
  <2> QED BY <2>1, <2>3, <2>4, <2>5, <2>6, <2>7, ZenonT(30) DEF IsChain
<1>9. free_list \in Elements(c)
  BY <1>2 DEF Elements
<1> QED BY <1>2, <1>3, <1>5, <1>7, <1>8, <1>9 DEF IInv

\* free keeps the invariant: the frame, unowned and not in the chain, becomes its head.
LEMMA FreeKeeps ==
  ASSUME IInv, NEW index \in Frames, Free(index), NEW c \in Chains, IsChain(c)
  PROVE  /\ IInv'
         /\ index \notin Elements(c)
         /\ owners' = [owners EXCEPT ![index] = 0]
         /\ \E d \in Chains' : IsChain(d)' /\ Elements(d)' = Elements(c) \cup {index}
<1> USE DEF Free, push_free
<1>1. IsChain(c)
  OBVIOUS
<1>2. Managed(index) /\ handed_out(index) /\ ~on_free_list(index)
  BY DEF FreeError
<1>3. \A i \in 1 .. free_count : c[i] # index
  BY <1>1, <1>2, NotOnListIsNotInChain DEF IInv
<1>4. owners'[index] = 0 /\ owners' = [owners EXCEPT ![index] = 0]
  <2>1. owners \in [Frames -> Nat] /\ owners[index] \in {0, 1}
    BY DEF IInv, TypeOK, SingleOwner
  <2>2. saturating_pred(owners[index]) = 0
    BY <2>1 DEF saturating_pred
  <2> QED BY <2>1, <2>2
<1>5. TypeOK'
  BY <1>4 DEF IInv, TypeOK, Word, saturating_pred
<1>6. \A f : handed_out(f)' <=> handed_out(f)
  BY DEF handed_out, InRegion
<1>7. SingleOwner' /\ OwnedIsManaged'
  BY <1>4, <1>6 DEF IInv, TypeOK, SingleOwner, OwnedIsManaged, Owned, Managed, InRegion
<1>8. \E d \in Chains' : IsChain(d)' /\ Elements(d)' = Elements(c) \cup {index}
  <2> PICK d : d = [i \in 1 .. free_count + 1 |-> IF i = 1 THEN index ELSE c[i - 1]]
    BY ZenonT(30)
  <2>0. free_count \in Nat /\ free_count' = free_count + 1 /\ link \in [Frames -> Word]
    BY DEF IInv, TypeOK
  <2>1. d \in Chains'
    BY <2>0 DEF Chains
  <2>2. d[1] = index /\ \A i \in 2 .. free_count + 1 : d[i] = c[i - 1] /\ i - 1 \in 1 .. free_count
    BY <2>0
  <2>3. free_list' = IF free_count' = 0 THEN NO_FRAME ELSE d[1]
    BY <2>0
  <2>4. ASSUME NEW i \in 1 .. free_count'
        PROVE  link'[d[i]] = IF i = free_count' THEN NO_FRAME ELSE d[i + 1]
    <3>1. CASE i = 1
      BY <1>1, <2>0, <2>2, <3>1 DEF IsChain
    <3>2. CASE i # 1
      <4>1. d[i] = c[i - 1] /\ i - 1 \in 1 .. free_count /\ c[i - 1] \in Frames /\ c[i - 1] # index
        BY <1>3, <2>0, <2>2, <3>2 DEF Chains
      <4>2. link'[d[i]] = link[c[i - 1]]
        BY <4>1, <2>0
      <4>3. link[c[i - 1]] = IF i - 1 = free_count THEN NO_FRAME ELSE c[i]
        BY <1>1, <4>1 DEF IsChain
      <4> QED BY <2>0, <3>2, <4>2, <4>3
    <3> QED BY <3>1, <3>2
  <2>5. \A i, j \in 1 .. free_count' : d[i] = d[j] => i = j
    BY <1>1, <1>3, <2>0, <2>2 DEF IsChain
  <2>6. ASSUME NEW i \in 1 .. free_count'
        PROVE  Managed(d[i])' /\ handed_out(d[i])' /\ owners'[d[i]] = 0
    <3>1. CASE i = 1
      BY <1>2, <1>4, <1>6, <3>1 DEF Managed, InRegion
    <3>2. CASE i # 1
      <4>1. d[i] = c[i - 1] /\ i - 1 \in 1 .. free_count /\ c[i - 1] \in Frames /\ c[i - 1] # index
        BY <1>3, <2>0, <2>2, <3>2 DEF Chains
      <4> QED BY <1>1, <1>4, <1>6, <4>1 DEF IsChain, Managed, InRegion, IInv, TypeOK
    <3> QED BY <3>1, <3>2
  <2>7. Elements(d)' = Elements(c) \cup {index}
    <3>1. ASSUME NEW i \in 1 .. free_count + 1 PROVE d[i] \in Elements(c) \cup {index}
      <4>1. i = 1 \/ i \in 2 .. free_count + 1
        BY <2>0
      <4> QED BY <2>2, <4>1, ZenonT(30) DEF Elements
    <3>2. ASSUME NEW j \in 1 .. free_count PROVE c[j] \in Elements(d)'
      <4>1. j + 1 \in 1 .. free_count' /\ d[j + 1] = c[j]
        BY <2>0
      <4> QED BY <4>1 DEF Elements
    <3>3. index \in Elements(d)'
      BY <2>0, <2>2 DEF Elements
    <3>4. Elements(d)' = {d[i] : i \in 1 .. free_count + 1}
      BY <2>0 DEF Elements
    <3>5. Elements(c) \cup {index} \subseteq Elements(d)'
      BY <3>2, <3>3 DEF Elements
    <3> QED BY <3>1, <3>4, <3>5
  <2> QED BY <2>1, <2>3, <2>4, <2>5, <2>6, <2>7, ZenonT(30) DEF IsChain
<1> QED BY <1>3, <1>4, <1>5, <1>7, <1>8, ZenonT(30) DEF IInv, Elements

\* An owner writes outside the chain, so its write keeps the invariant.
LEMMA OwnerWritesKeeps ==
  ASSUME IInv, NEW index \in Frames, NEW word \in Data, OwnerWrites(index, word)
  PROVE  IInv' /\ \A c \in Chains : IsChain(c) => c \in Chains' /\ IsChain(c)'
<1> USE DEF OwnerWrites, allocator
<1>1. TypeOK'
  BY FrameAssumption DEF IInv, TypeOK
<1>2. \A f : handed_out(f)' <=> handed_out(f)
  BY DEF handed_out, InRegion
<1>3. SingleOwner' /\ OwnedIsManaged'
  BY <1>2 DEF IInv, SingleOwner, OwnedIsManaged, Owned, Managed, InRegion
<1>4. ASSUME NEW c \in Chains, IsChain(c) PROVE c \in Chains' /\ IsChain(c)'
  <2>2. \A i \in 1 .. free_count : c[i] \in Frames /\ handed_out(c[i]) /\ owners[c[i]] = 0
    BY <1>4 DEF Chains, IsChain
  <2>3. \A i \in 1 .. free_count : link'[c[i]] = link[c[i]]
    BY <2>2 DEF IInv, TypeOK
  <2> QED BY <1>2, <1>4, <2>2, <2>3, ChainKept DEF IInv
<1> QED BY <1>1, <1>3, <1>4 DEF IInv

(***************************************************************************)
(* The theorems.                                                           *)
(***************************************************************************)
LEMMA NextKeeps == IInv /\ [Next]_vars => IInv'
<1> SUFFICES ASSUME IInv, [Next]_vars PROVE IInv'
  OBVIOUS
<1>1. CASE AllocateFromFreeList
  BY <1>1, PopKeeps DEF IInv
<1>2. CASE Bump(1) \/ Exhaust(1)
  BY <1>2, BumpKeeps, ExhaustKeeps
<1>3. ASSUME NEW count \in RunLengths, AllocateContiguous(count) PROVE IInv'
  BY <1>3, FrameAssumption, BumpKeeps, ExhaustKeeps DEF AllocateContiguous
<1>4. ASSUME NEW index \in Frames, Free(index) PROVE IInv'
  BY <1>4, FreeKeeps DEF IInv
<1>5. ASSUME NEW index \in Frames, NEW word \in Data, OwnerWrites(index, word) PROVE IInv'
  BY <1>5, OwnerWritesKeeps
<1>6. CASE UNCHANGED vars
  <2>1. TypeOK' /\ SingleOwner' /\ OwnedIsManaged'
    BY <1>6 DEF vars, allocator, IInv, TypeOK, SingleOwner, OwnedIsManaged, Owned, Managed,
                InRegion, handed_out
  <2>2. \E s \in Chains' : IsChain(s)'
    <3>1. PICK s \in Chains : IsChain(s)
      BY DEF IInv
    <3>2. \A f : handed_out(f)' <=> handed_out(f)
      BY <1>6 DEF vars, allocator, handed_out, InRegion
    <3> QED BY <1>6, <3>1, <3>2, ChainKept DEF vars, allocator, IInv, IsChain
  <2> QED BY <2>1, <2>2 DEF IInv
<1> QED BY <1>1, <1>2, <1>3, <1>4, <1>5, <1>6 DEF Next, Allocate

\* IInv is an invariant of the allocator under any callers.
THEOREM Inductive == Spec => []IInv
<1>1. IInv /\ [Next]_vars => IInv'
  BY NextKeeps
<1> QED BY InitEstablishes, <1>1, PTL DEF Spec

\* In every pool and for any callers, every variable stays in its type.
THEOREM TypeCorrect == Spec => []TypeOK
<1>1. IInv => TypeOK
  BY DEF IInv
<1> QED BY Inductive, <1>1, PTL

\* In every pool and for any callers, no frame ever has two owners, and only
\* unreserved usable frames are handed out.
THEOREM FramesHaveOneOwner == Spec => []OwnersAreSound
<1>1. IInv => OwnersAreSound
  BY DEF IInv, OwnersAreSound
<1> QED BY Inductive, <1>1, PTL

\* The chain of the invariant is what the walk of on_free_list meets.
LEMMA ChainIsSound == IInv => FreeListSound
<1> SUFFICES ASSUME IInv PROVE FreeListSound
  OBVIOUS
<1>1. PICK c \in Chains : IsChain(c)
  BY DEF IInv
<1>2. free_count \in Nat /\ TypeOK
  BY DEF IInv, TypeOK
<1>3. \A n \in Nat : walk[n] = IF n < free_count THEN c[n + 1] ELSE NO_FRAME
  BY <1>1, <1>2, WalkIsChain
<1>4. walk[free_count] = NO_FRAME
  BY <1>2, <1>3
<1>5. ASSUME NEW n \in 0 .. free_count - 1
      PROVE  /\ walk[n] \in Pool \ Owned
             /\ handed_out(walk[n])
             /\ \A m \in 0 .. n - 1 : walk[m] # walk[n]
  <2>1. n \in Nat /\ n + 1 \in 1 .. free_count /\ walk[n] = c[n + 1]
    BY <1>2, <1>3
  <2>2. c[n + 1] \in Frames /\ Managed(c[n + 1]) /\ handed_out(c[n + 1]) /\ owners[c[n + 1]] = 0
    BY <1>1, <2>1 DEF Chains, IsChain
  <2>3. ASSUME NEW m \in 0 .. n - 1 PROVE walk[m] # walk[n]
    <3>1. m \in Nat /\ m + 1 \in 1 .. free_count /\ m + 1 # n + 1 /\ walk[m] = c[m + 1]
      BY <1>2, <1>3, <2>1
    <3> QED BY <1>1, <2>1, <3>1 DEF IsChain
  <2> QED BY <2>1, <2>2, <2>3 DEF Pool, Owned
<1> QED BY <1>4, <1>5 DEF FreeListSound

\* In every pool and for any callers, the links kept in free frames always
\* spell out a list of exactly free_count distinct, managed, unowned frames.
THEOREM FreeListStaysSound == Spec => []FreeListSound
BY Inductive, ChainIsSound, PTL

\* In every pool and for any callers, the cursor never un-passes a frame.
THEOREM CursorNeverMovesBack == Spec => CursorMovesForward
<1>1. ASSUME IInv, [Next]_vars
      PROVE  [\A f \in Frames : handed_out(f) => handed_out(f)']_vars
  <2>1. ASSUME NEW count \in Nat, Bump(count) \/ Exhaust(count)
        PROVE  \A f \in Frames : handed_out(f) => handed_out(f)'
    BY <1>1, <2>1, BumpMoves, NextKeeps, ForwardKeepsHandedOut DEF IInv
  <2>2. ASSUME UNCHANGED <<cursor_region, cursor_frame>>
        PROVE  \A f \in Frames : handed_out(f) => handed_out(f)'
    BY <2>2 DEF handed_out, InRegion
  <2> QED BY <1>1, <2>1, <2>2, FrameAssumption
          DEF Next, Allocate, AllocateFromFreeList, AllocateContiguous, Free,
              OwnerWrites, allocator
<1> QED BY Inductive, <1>1, PTL DEF Spec, CursorMovesForward

(***************************************************************************)
(* Accounting, until a frame is freed that was never handed out.           *)
(***************************************************************************)
CarefulInv ==
  /\ IInv
  /\ in_use = Cardinality(Owned)
  /\ \E c \in Chains : IsChain(c) /\ ever = Owned \cup Elements(c)

StrayInv == IInv /\ (stray = {} => CarefulInv)

\* The frames and their owners can be counted.
LEMMA FramesAreFinite ==
  /\ IsFiniteSet(Owned)
  /\ \A S \in SUBSET Frames : IsFiniteSet(S)
<1>1. IsFiniteSet(Frames)
  BY FrameAssumption, FS_Interval DEF Frames
<1> QED BY <1>1, FS_Subset DEF Owned

\* Granting a set of unowned frames adds exactly its size to what is owned.
LEMMA GrantCounts ==
  ASSUME TypeOK, NEW run \in SUBSET Frames, \A f \in run : owners[f] = 0, Grant(run)
  PROVE  /\ Owned' = Owned \cup run
         /\ Cardinality(Owned') = Cardinality(Owned) + Cardinality(run)
<1>1. Owned' = Owned \cup run
  BY DEF Grant, Owned, TypeOK
<1>2. Owned \cap run = {}
  BY DEF Owned
<1>3. IsFiniteSet(Owned) /\ IsFiniteSet(run)
  BY FramesAreFinite
<1>4. Cardinality(Owned) \in Nat /\ Cardinality(run) \in Nat
  BY <1>3, FS_CardinalityType
<1>5. Cardinality(Owned \cap run) = 0
  BY <1>2, FS_EmptySet
<1>6. Cardinality(Owned \cup run) = Cardinality(Owned) + Cardinality(run) - Cardinality(Owned \cap run)
  BY <1>3, FS_Union
<1> QED BY <1>1, <1>3, <1>4, <1>5, <1>6

\* A run taken at the cursor is counted, and owned.
LEMMA CarefulBumpKeeps ==
  ASSUME CarefulInv, NEW count \in Nat, Bump(count)
  PROVE  CarefulInv'
<1>1. PICK r \in 1 .. Len(regions), s \in Frames :
        /\ IsRun(r, s, count)
        /\ in_use' = in_use + count
        /\ Grant(s .. s + count - 1)
        /\ UNCHANGED <<free_list, free_count, link, stray>>
  BY DEF Bump, FirstRun
<1> DEFINE run == s .. s + count - 1
<1>2. \A f \in run : f \in Frames /\ ~handed_out(f)
  BY <1>1, RunIsAhead DEF CarefulInv, IInv
<1>3. run \in SUBSET Frames /\ \A f \in run : owners[f] = 0
  <2>1. owners \in [Frames -> Nat] /\ OwnedIsManaged
    BY DEF CarefulInv, IInv, TypeOK
  <2> QED BY <1>2, <2>1 DEF OwnedIsManaged, Owned
<1>4. Cardinality(run) = count
  <2>1. s \in Int /\ s + count - 1 \in Int
    BY FrameAssumption DEF Frames
  <2>2. Cardinality(run) = IF s > s + count - 1 THEN 0 ELSE (s + count - 1) - s + 1
    BY <2>1, FS_Interval
  <2> QED BY <2>1, <2>2
<1>5. Owned' = Owned \cup run /\ in_use' = Cardinality(Owned)'
  BY <1>1, <1>3, <1>4, GrantCounts, ZenonT(30) DEF CarefulInv, IInv
<1>6. PICK c \in Chains : IsChain(c) /\ ever = Owned \cup Elements(c)
  BY DEF CarefulInv
<1>7. IInv' /\ c \in Chains' /\ IsChain(c)'
  BY <1>6, BumpKeeps DEF CarefulInv
<1>8. ever' = Owned' \cup Elements(c)'
  BY <1>1, <1>5, <1>6 DEF Grant, Elements
<1> QED BY <1>5, <1>7, <1>8 DEF CarefulInv

\* A frame taken from the free list is counted, and leaves the chain.
LEMMA CarefulPopKeeps ==
  ASSUME CarefulInv, AllocateFromFreeList
  PROVE  CarefulInv'
<1>1. PICK c \in Chains : IsChain(c) /\ ever = Owned \cup Elements(c)
  BY DEF CarefulInv
<1>2. PICK d \in Chains' : IsChain(d)' /\ Elements(d)' = Elements(c) \ {free_list}
  BY <1>1, PopKeeps DEF CarefulInv
<1>3. IInv' /\ free_list \in Frames /\ owners[free_list] = 0 /\ free_list \in Elements(c)
  BY <1>1, PopKeeps DEF CarefulInv
<1>4. Cardinality({free_list}) = 1
  BY FS_Singleton
<1>5. Owned' = Owned \cup {free_list} /\ Cardinality(Owned') = Cardinality(Owned) + 1
  BY <1>3, <1>4, GrantCounts DEF AllocateFromFreeList, CarefulInv, IInv
<1>6. ever' = Owned' \cup Elements(d)'
  BY <1>1, <1>2, <1>3, <1>5 DEF AllocateFromFreeList, Grant
<1>7. in_use' = Cardinality(Owned)'
  BY <1>5 DEF AllocateFromFreeList, CarefulInv
<1> QED BY <1>2, <1>3, <1>6, <1>7 DEF CarefulInv

\* A frame freed by its owner is counted out, and joins the chain.
LEMMA CarefulFreeKeeps ==
  ASSUME CarefulInv, NEW index \in ever, Free(index)
  PROVE  CarefulInv'
<1>1. PICK c \in Chains : IsChain(c) /\ ever = Owned \cup Elements(c)
  BY DEF CarefulInv
<1>2. index \in Frames
  BY DEF CarefulInv, IInv, TypeOK
<1>3. PICK d \in Chains' : IsChain(d)' /\ Elements(d)' = Elements(c) \cup {index}
  BY <1>1, <1>2, FreeKeeps DEF CarefulInv
<1>4. IInv' /\ index \notin Elements(c) /\ owners' = [owners EXCEPT ![index] = 0]
  BY <1>1, <1>2, FreeKeeps DEF CarefulInv
<1>5. index \in Owned
  BY <1>1, <1>4
<1>6. Owned' = Owned \ {index}
  <2>1. owners \in [Frames -> Nat]
    BY DEF CarefulInv, IInv, TypeOK
  <2> QED BY <1>2, <1>4, <2>1 DEF Owned
<1>7. Cardinality(Owned)' = Cardinality(Owned) - 1
  BY <1>5, <1>6, FramesAreFinite, FS_RemoveElement, ZenonT(30)
<1>8. Cardinality(Owned) \in Nat /\ Cardinality(Owned) # 0
  BY <1>5, FramesAreFinite, FS_CardinalityType, FS_EmptySet
<1>9. in_use' = Cardinality(Owned)'
  BY <1>7, <1>8 DEF Free, saturating_pred, CarefulInv
<1>10. ever' = Owned' \cup Elements(d)'
  BY <1>1, <1>3, <1>5, <1>6 DEF Free
<1> QED BY <1>3, <1>4, <1>9, <1>10 DEF CarefulInv

\* A step after which there is still no stray frame was taken when there was none.
LEMMA CarefulNextKeeps == StrayInv /\ [Next]_vars => StrayInv'
<1> SUFFICES ASSUME IInv, CarefulInv, [Next]_vars, stray' = {} PROVE CarefulInv'
  <2>1. [Next]_vars => stray \subseteq stray'
    BY DEF Next, Allocate, AllocateFromFreeList, AllocateContiguous, Bump, Exhaust, Free,
           OwnerWrites, vars
  <2>2. IInv /\ [Next]_vars => IInv'
    BY NextKeeps
  <2> QED BY <2>1, <2>2 DEF StrayInv
<1>1. CASE AllocateFromFreeList
  BY <1>1, CarefulPopKeeps
<1>2. ASSUME NEW count \in Nat, Bump(count) PROVE CarefulInv'
  BY <1>2, CarefulBumpKeeps
<1>3. ASSUME NEW index \in Frames, Free(index) PROVE CarefulInv'
  BY <1>3, CarefulFreeKeeps, ZenonT(30) DEF Free
<1>4. ASSUME UNCHANGED <<owners, ever, in_use, free_count>>, IInv',
             \A c \in Chains : IsChain(c) => c \in Chains' /\ IsChain(c)'
      PROVE  CarefulInv'
  BY <1>4 DEF CarefulInv, Owned, Elements
<1>5. ASSUME NEW count \in Nat, Exhaust(count) PROVE CarefulInv'
  BY <1>4, <1>5, ExhaustKeeps DEF Exhaust, CarefulInv
<1>6. ASSUME NEW index \in Frames, NEW word \in Data, OwnerWrites(index, word) PROVE CarefulInv'
  BY <1>4, <1>6, OwnerWritesKeeps, ZenonT(30) DEF OwnerWrites, allocator, CarefulInv
<1>7. CASE UNCHANGED vars
  <2>0. UNCHANGED <<cursor_region, cursor_frame, free_list, free_count, link, owners>>
    BY <1>7 DEF vars, allocator
  <2>1. \A c \in Chains : IsChain(c) => c \in Chains' /\ IsChain(c)'
    <3>1. Chains' = Chains
      BY <2>0 DEF Chains
    <3>2. \A c : IsChain(c)' <=> IsChain(c)
      <4>1. \A f : (handed_out(f)' <=> handed_out(f)) /\ (Managed(f)' <=> Managed(f))
        BY <2>0 DEF handed_out, Managed, InRegion
      <4> QED BY <2>0, <4>1 DEF IsChain
    <3> QED BY <3>1, <3>2, ZenonT(30)
  <2> QED BY <1>4, <1>7, <2>1, NextKeeps DEF vars, allocator, CarefulInv
<1> QED BY <1>1, <1>2, <1>3, <1>5, <1>6, <1>7, FrameAssumption
        DEF Next, Allocate, AllocateContiguous

\* The accounts are right when nothing has been handed out.
LEMMA CarefulInitEstablishes == Init => CarefulInv
<1> SUFFICES ASSUME Init PROVE CarefulInv
  OBVIOUS
<1>1. IInv
  BY InitEstablishes
<1>2. Owned = {}
  <2>1. \A f \in Frames : owners[f] = 0
    BY DEF Init
  <2>2. \A f \in Frames : ~(owners[f] > 0)
    BY <2>1
  <2> QED BY <2>2 DEF Owned
<1>3. PICK c \in Chains : IsChain(c)
  BY <1>1 DEF IInv
<1>4. Elements(c) = {}
  BY DEF Init, Elements
<1> QED BY <1>1, <1>2, <1>3, <1>4, FS_EmptySet DEF Init, CarefulInv

\* In every pool, until a frame is freed that was never handed out, in_use is
\* the number of frames owned and no frame handed out is ever lost.
THEOREM AccountingIsExact == Spec => []Accounting
<1>1. StrayInv => Accounting
  <2> SUFFICES ASSUME CarefulInv PROVE Accounting
    BY DEF StrayInv, Accounting
  <2>1. PICK c \in Chains : IsChain(c) /\ ever = Owned \cup Elements(c)
    BY DEF CarefulInv
  <2>2. \A n \in Nat : walk[n] = IF n < free_count THEN c[n + 1] ELSE NO_FRAME
    BY <2>1, WalkIsChain DEF CarefulInv, IInv
  <2>3. free_count \in Nat
    BY DEF CarefulInv, IInv, TypeOK
  <2>4. ASSUME NEW i \in 1 .. free_count PROVE c[i] \in {walk[n] : n \in 0 .. free_count - 1}
    <3>1. i - 1 \in 0 .. free_count - 1 /\ walk[i - 1] = c[i]
      BY <2>2, <2>3
    <3> QED BY <3>1
  <2>5. ASSUME NEW n \in 0 .. free_count - 1 PROVE walk[n] \in Elements(c)
    <3>1. n + 1 \in 1 .. free_count /\ walk[n] = c[n + 1]
      BY <2>2, <2>3
    <3> QED BY <3>1 DEF Elements
  <2>6. Elements(c) = {walk[n] : n \in 0 .. free_count - 1}
    BY <2>4, <2>5 DEF Elements
  <2> QED BY <2>1, <2>6 DEF Accounting, CarefulInv
<1>2. Init => StrayInv
  BY CarefulInitEstablishes DEF StrayInv, CarefulInv
<1> QED BY CarefulNextKeeps, <1>1, <1>2, PTL DEF Spec

(***************************************************************************)
(* self_test is one more caller.                                           *)
(***************************************************************************)
Reasons == {"none", "ran_out", "bad_frame", "refused", "nothing_left", "not_lifo", "double_free",
            "went_missing"}
SelfTests == [frames : Seq(Frames), freed : Seq(Frames), reused : Word, failure : Reasons]

\* What self_test remembers are frames, as many as its steps rely on.
TestInv ==
  /\ test \in SelfTests
  /\ step = "give" => Len(test.frames) >= 3 /\ Len(test.freed) <= 1
  /\ step = "check" => Len(test.frames) >= 3 /\ Len(test.freed) = 0
  /\ step = "take" => Len(test.freed) = 0
  /\ step \in {"reuse", "refree", "return"} => Len(test.freed) = 2

\* Giving a reason changes no other field.
LEMMA FailKeeps ==
  ASSUME NEW t \in SelfTests, NEW reason \in Reasons
  PROVE  fail(t, reason) \in SelfTests /\ fail(t, reason).frames = t.frames /\ fail(t, reason).freed = t.freed
BY DEF fail, SelfTests

\* What a sequence of frames holds are frames.
LEMMA ElementOfSeq ==
  ASSUME NEW q \in Seq(Frames), NEW i \in 1 .. Len(q)
  PROVE  q[i] \in Frames
OBVIOUS

\* Append makes a sequence of frames one longer.
LEMMA AppendLength ==
  ASSUME NEW s \in Seq(Frames), NEW f \in Frames
  PROVE  Append(s, f) \in Seq(Frames) /\ Len(Append(s, f)) = Len(s) + 1 /\ Len(s) \in Nat
OBVIOUS

\* What self_test asks of the allocator is one of its operations, or is refused.
LEMMA AllocateIsStep == ASSUME NEW frame, allocate(frame) PROVE Next
BY DEF allocate, Next, Allocate

\* free, accepted or refused, is a step of the allocator or none.
LEMMA FreeIsStep == ASSUME NEW frame \in Frames, NEW result, free(frame, result) PROVE [Next]_vars
BY DEF free, Next

\* Every step of self_test keeps its invariant, and is a step of the allocator or none.
LEMMA TestKeeps ==
  ASSUME TestInv, [TestNext]_<<vars, test_vars>>
  PROVE  TestInv' /\ [Next]_vars
<1>1. /\ test \in SelfTests /\ test.frames \in Seq(Frames) /\ test.freed \in Seq(Frames)
      /\ Len(test.frames) \in Nat /\ Len(test.freed) \in Nat
  BY DEF TestInv, SelfTests
<1>2. new \in SelfTests /\ Len(new.freed) = 0
  BY DEF new, SelfTests, Word, Reasons
<1>3. CASE begin
  BY <1>2, <1>3 DEF begin, TestInv
<1>4. CASE take
  <2>1. PICK frame \in Word :
          /\ allocate(frame)
          /\ test' = IF frame = NO_FRAME THEN fail(test, "ran_out")
                                         ELSE [test EXCEPT !.frames = Append(@, frame)]
          /\ step' = IF frame = NO_FRAME THEN "done"
                     ELSE IF Len(test'.frames) = SELF_TEST_FRAMES THEN "check" ELSE "take"
    BY <1>4, ZenonT(30) DEF take
  <2>2. [Next]_vars
    BY <2>1, AllocateIsStep
  <2>3. CASE frame = NO_FRAME
    BY <1>1, <2>1, <2>2, <2>3, FailKeeps DEF Reasons, TestInv
  <2>4. CASE frame # NO_FRAME
    <3>1. frame \in Frames /\ test' = [test EXCEPT !.frames = Append(@, frame)]
      BY <2>1, <2>4 DEF Word
    <3>2. Append(test.frames, frame) \in Seq(Frames)
      BY <1>1, <3>1, AppendLength
    <3>3. test' \in SelfTests /\ test'.freed = test.freed
      BY <1>1, <3>1, <3>2, ZenonT(30) DEF SelfTests
    <3>4. Len(test'.freed) = 0
      BY <1>4, <3>3 DEF take, TestInv
    <3>5. (step' = "check" /\ Len(test'.frames) >= 3) \/ step' = "take"
      BY <2>1, <2>4, SelfTestAssumption
    <3> QED BY <2>2, <3>3, <3>4, <3>5 DEF TestInv
  <2> QED BY <2>3, <2>4
<1>5. CASE check
  BY <1>1, <1>5, FailKeeps DEF Reasons, check, TestInv
<1>6. CASE give
  <2> DEFINE frame == test.frames[Len(test.frames) - Len(test.freed)]
  <2>1. Len(test.frames) >= 3 /\ Len(test.freed) <= 1
    BY <1>6 DEF give, TestInv
  <2>2. frame \in Frames
    <3>1. Len(test.frames) - Len(test.freed) \in 1 .. Len(test.frames)
      <4>1. \A a, b \in Nat : a >= 3 /\ b <= 1 => a - b \in 1 .. a
        OBVIOUS
      <4> QED BY <1>1, <2>1, <4>1, ZenonT(30)
    <3> QED BY <1>1, <3>1
  <2> HIDE DEF frame
  <2>3. PICK result \in Results :
          /\ free(frame, result)
          /\ test' = IF result = "Ok" THEN [test EXCEPT !.freed = Append(@, frame)]
                                      ELSE fail(test, "refused")
          /\ step' = IF result # "Ok" THEN "done" ELSE IF Len(test'.freed) = 2 THEN "reuse" ELSE "give"
    BY <1>6 DEF give, frame
  <2>4. [Next]_vars
    BY <2>2, <2>3, FreeIsStep
  <2>5. CASE result # "Ok"
    BY <1>1, <2>3, <2>4, <2>5, FailKeeps DEF Reasons, TestInv
  <2>6. CASE result = "Ok"
    <3>1. Append(test.freed, frame) \in Seq(Frames) /\ Len(Append(test.freed, frame)) = Len(test.freed) + 1
      BY <1>1, <2>2, AppendLength
    <3>2. /\ test' \in SelfTests /\ test'.frames = test.frames
          /\ test'.freed = Append(test.freed, frame)
      BY <1>1, <2>3, <2>6, <3>1, ZenonT(30) DEF SelfTests
    <3>3. Len(test'.freed) = 2 \/ Len(test'.freed) <= 1
      BY <1>1, <2>1, <3>1, <3>2
    <3>4. (step' = "reuse" /\ Len(test'.freed) = 2) \/ (step' = "give" /\ Len(test'.freed) <= 1)
      BY <2>3, <2>6, <3>3
    <3> QED BY <2>1, <2>4, <3>2, <3>4 DEF TestInv
  <2> QED BY <2>5, <2>6
<1>7. CASE reuse
  <2>1. PICK frame \in Word :
          /\ allocate(frame)
          /\ test' = IF frame = NO_FRAME THEN fail(test, "nothing_left")
                     ELSE IF frame = last_freed THEN [test EXCEPT !.reused = frame]
                     ELSE fail([test EXCEPT !.reused = frame], "not_lifo")
    BY <1>7 DEF reuse
  <2>2. [Next]_vars
    BY <2>1, AllocateIsStep
  <2>3. /\ [test EXCEPT !.reused = frame] \in SelfTests
        /\ [test EXCEPT !.reused = frame].freed = test.freed
    BY <1>1 DEF SelfTests
  <2>4. test' \in SelfTests /\ test'.freed = test.freed
    BY <1>1, <2>1, <2>3, FailKeeps, ZenonT(30) DEF Reasons
  <2> QED BY <1>7, <2>2, <2>4 DEF reuse, TestInv
<1>8. CASE refree
  <2>1. Len(test.freed) = 2
    BY <1>8 DEF refree, TestInv
  <2>2. still_free \in Frames
    BY <1>1, <2>1 DEF still_free
  <2>3. PICK result \in Results :
          /\ free(still_free, result)
          /\ test' = IF result = "AlreadyFree" THEN test ELSE fail(test, "double_free")
    BY <1>8 DEF refree
  <2>4. test' \in SelfTests /\ test'.freed = test.freed
    BY <1>1, <2>3, FailKeeps DEF Reasons
  <2> QED BY <1>8, <2>1, <2>2, <2>3, <2>4, FreeIsStep DEF refree, TestInv
<1>9. CASE return
  <2>1. /\ Head(test.frames) \in Frames /\ Tail(test.frames) \in Seq(Frames)
        /\ Len(test.freed) = 2 /\ step' = step /\ step = "return"
    BY <1>1, <1>9 DEF return, TestInv
  <2>2. ASSUME NEW t \in SelfTests, t.freed = test.freed
        PROVE  [t EXCEPT !.frames = Tail(test.frames)] \in SelfTests
               /\ [t EXCEPT !.frames = Tail(test.frames)].freed = test.freed
    BY <2>1, <2>2, ZenonT(30) DEF SelfTests
  <2>3. CASE Head(test.frames) = still_free
    <3>1. test' = [test EXCEPT !.frames = Tail(test.frames)] /\ UNCHANGED vars
      BY <1>9, <2>3 DEF return
    <3> QED BY <1>1, <2>1, <2>2, <3>1 DEF TestInv
  <2>4. CASE Head(test.frames) # still_free
    <3>1. PICK result \in Results :
            /\ free(Head(test.frames), result)
            /\ test' = [(IF result = "Ok" THEN test ELSE fail(test, "refused")) EXCEPT !.frames = Tail(@)]
      BY <1>9, <2>4 DEF return
    <3>2. [Next]_vars
      BY <2>1, <3>1, FreeIsStep
    <3>3. PICK t \in SelfTests : /\ t.freed = test.freed /\ t.frames = test.frames
                                 /\ test' = [t EXCEPT !.frames = Tail(t.frames)]
      BY <1>1, <3>1, FailKeeps, ZenonT(30) DEF Reasons
    <3> QED BY <2>1, <2>2, <3>2, <3>3 DEF TestInv
  <2> QED BY <2>3, <2>4
<1>10. CASE recount
  BY <1>1, <1>10, FailKeeps DEF Reasons, recount, TestInv
<1>11. CASE returned
  BY <1>2, <1>11 DEF returned, TestInv
<1>12. CASE (step = "idle" /\ Next /\ UNCHANGED test_vars) \/ UNCHANGED <<vars, test_vars>>
  BY <1>12 DEF test_vars, TestInv
<1> QED BY <1>3, <1>4, <1>5, <1>6, <1>7, <1>8, <1>9, <1>10, <1>11, <1>12 DEF TestNext, self_test

\* The boot self-test of frame.rs uses the allocator as any caller may: with it
\* running, everything proved of the allocator still holds.
THEOREM SelfTestIsACaller == TestSpec => Spec
<1>1. TestInit => TestInv /\ Init
  <2>1. new \in SelfTests
    BY DEF new, SelfTests, Word, Reasons
  <2> QED BY <2>1 DEF TestInit, TestInv
<1>2. TestInv /\ [TestNext]_<<vars, test_vars>> => TestInv' /\ [Next]_vars
  BY TestKeeps
<1> QED BY <1>1, <1>2, PTL DEF TestSpec, Spec

(***************************************************************************)
(* The verdict of self_test.                                               *)
(***************************************************************************)
\* The pool's frames that the cursor has not passed.
Ahead == {f \in Pool : ~handed_out(f)}

\* What can still be had is a number.
LEMMA AvailableIsNat ==
  ASSUME TypeOK
  PROVE  IsFiniteSet(Ahead) /\ Cardinality(Ahead) \in Nat /\ Available = free_count + Cardinality(Ahead)
<1>1. Ahead \in SUBSET Frames
  BY DEF Ahead, Pool
<1>2. IsFiniteSet(Ahead)
  BY <1>1, FramesAreFinite
<1>3. Available = free_count + Cardinality(Ahead)
  BY DEF Available, Ahead
<1> QED BY <1>2, <1>3, FS_CardinalityType

\* A frame ahead of the cursor is one that allocate would stop at.
LEMMA AheadIsRun ==
  ASSUME TypeOK, NEW f \in Ahead
  PROVE  f \in Frames /\ \E q \in 1 .. Len(regions) : IsRun(q, f, 1)
<1>1. f \in Frames /\ Managed(f) /\ ~handed_out(f)
  BY DEF Ahead, Pool
<1>2. PICK q \in 1 .. Len(regions) : InRegion(f, q)
  BY <1>1 DEF Managed
<1>3. ~(q < cursor_region \/ (q = cursor_region /\ f < cursor_frame))
  BY <1>1, <1>2 DEF handed_out
<1>4. Len(regions) \in Nat /\ regions[q] \in FrameRange /\ f \in Nat
  <2>1. regions \in Seq(FrameRange)
    BY RegionsAssumption
  <2>2. f \in Nat
    BY <1>1, FrameAssumption DEF Frames
  <2> QED BY <2>1, <2>2
<1>5. f + 1 <= regions[q].end
  BY <1>2, <1>4 DEF InRegion, contains, FrameRange
<1>6. q > cursor_region \/ (q = cursor_region /\ f >= cursor_frame)
  BY <1>3, <1>4 DEF TypeOK
<1>7. \A g \in f .. f + 1 - 1 : g = f
  BY <1>4
<1>8. ~is_reserved(f)
  BY <1>1 DEF Managed
<1> QED BY <1>1, <1>2, <1>5, <1>6, <1>7, <1>8 DEF IsRun

\* Taking one frame at the cursor leaves every other frame ahead of it ahead.
LEMMA BumpOneTakesOne ==
  ASSUME IInv, NEW r \in 1 .. Len(regions), NEW s \in Frames, FirstRun(r, s, 1),
         cursor_region' = r, cursor_frame' = s + 1, CursorForward, TypeOK'
  PROVE  s \in Ahead /\ Ahead' = Ahead \ {s}
<1>1. IsRun(r, s, 1) /\ TypeOK /\ s \in Nat /\ s \in s .. s + 1 - 1
  BY FrameAssumption DEF FirstRun, IInv, Frames
<1>2. InRegion(s, r) /\ Managed(s) /\ ~handed_out(s)
  BY <1>1, RunIsAhead
<1>3. s \in Ahead
  BY <1>2 DEF Ahead, Pool
<1>4. handed_out(s)'
  <2>1. s < s + 1
    BY <1>1
  <2> QED BY <1>2, <2>1 DEF handed_out, InRegion
<1>5. \A f \in Frames : handed_out(f) => handed_out(f)'
  BY <1>1, ForwardKeepsHandedOut
<1>6. ASSUME NEW f \in Ahead, f # s PROVE ~handed_out(f)'
  <2>1. PICK q \in 1 .. Len(regions) : IsRun(q, f, 1)
    BY <1>1, AheadIsRun
  <2>2. f \in Frames /\ f \in Nat /\ InRegion(f, q)
    BY <1>1, <2>1, AheadIsRun, FrameAssumption DEF IsRun, Frames
  <2>3. r < q \/ (r = q /\ s <= f)
    BY <2>1, <2>2 DEF FirstRun
  <2>4. Len(regions) \in Nat
    BY RegionsAssumption
  <2>5. SUFFICES ASSUME NEW p \in 1 .. Len(regions), InRegion(f, p),
                        p < r \/ (p = r /\ f < s + 1)
                 PROVE  FALSE
    BY DEF handed_out, InRegion
  <2>6. p = q
    BY <2>2, <2>5, RegionsAssumption DEF InRegion
  <2> QED BY <1>1, <1>6, <2>2, <2>3, <2>4, <2>5, <2>6
<1>7. \A f \in Pool : f \in Frames
  BY DEF Pool
<1> QED BY <1>3, <1>4, <1>5, <1>6, <1>7 DEF Ahead

\* A successful allocate hands out one frame nobody owns, and one fewer is to be had.
LEMMA AllocateTakesOne ==
  ASSUME IInv, NEW frame \in Frames, allocate(frame)
  PROVE  /\ frame \notin Owned /\ Owned' = Owned \cup {frame}
         /\ in_use' = in_use + 1
         /\ Available = Available' + 1 /\ Available' \in Nat
         /\ free_list \in Frames => frame = free_list /\ free_list' = link[free_list] /\ link' = link
<1>1. Allocate /\ owners'[frame] = owners[frame] + 1 /\ owners[frame] \in Nat /\ TypeOK
  BY DEF allocate, IInv, TypeOK
<1>2. IInv' /\ TypeOK'
  BY <1>1, NextKeeps DEF Next, IInv
<1>3. /\ Cardinality(Ahead) \in Nat /\ Available = free_count + Cardinality(Ahead) /\ IsFiniteSet(Ahead)
  BY <1>1, AvailableIsNat
<1>4. Available' = free_count' + Cardinality(Ahead') /\ Available' \in Nat
  <2>1. Available' = free_count' + Cardinality(Ahead')
    BY DEF Available, Ahead
  <2>2. Ahead' \in SUBSET Frames
    BY DEF Ahead, Pool
  <2>3. Cardinality(Ahead') \in Nat
    BY <2>2, FramesAreFinite, FS_CardinalityType
  <2>4. free_count' \in Nat
    BY <1>2 DEF TypeOK
  <2> QED BY <2>1, <2>3, <2>4
<1>5. CASE AllocateFromFreeList
  <2>1. PICK c \in Chains : IsChain(c)
    BY DEF IInv
  <2>2. free_list \in Frames /\ owners[free_list] = 0
    BY <1>5, <2>1, PopKeeps
  <2>3. Grant({free_list}) /\ in_use' = in_use + 1 /\ free_list' = link[free_list] /\ link' = link
        /\ free_count' = saturating_pred(free_count) /\ UNCHANGED <<cursor_region, cursor_frame>>
    BY <1>5 DEF AllocateFromFreeList, pop_free
  <2>4. frame = free_list
    BY <1>1, <2>3 DEF Grant
  <2>5. Owned' = Owned \cup {free_list} /\ free_list \notin Owned
    <3>1. {free_list} \in SUBSET Frames /\ \A f \in {free_list} : owners[f] = 0
      BY <2>2
    <3>2. Owned' = Owned \cup {free_list}
      BY <1>1, <2>3, <3>1, GrantCounts
    <3>3. free_list \notin Owned
      BY <2>2 DEF Owned
    <3> QED BY <3>2, <3>3
  <2>6. Ahead' = Ahead
    BY <2>3 DEF Ahead, handed_out, InRegion
  <2>7. free_count \in Nat /\ free_count # 0
    BY <1>1, <2>1, <2>2, FrameAssumption DEF TypeOK, IsChain
  <2>8. free_count = free_count' + 1 /\ free_count' \in Nat
    BY <2>3, <2>7 DEF saturating_pred
  <2> QED BY <1>3, <1>4, <2>3, <2>4, <2>5, <2>6, <2>8
<1>6. CASE free_list = NO_FRAME /\ Bump(1)
  <2>1. PICK r \in 1 .. Len(regions), s \in Frames :
          /\ FirstRun(r, s, 1) /\ cursor_region' = r /\ cursor_frame' = s + 1
          /\ in_use' = in_use + 1 /\ Grant(s .. s + 1 - 1) /\ free_count' = free_count
    BY <1>6 DEF Bump
  <2>2. s .. s + 1 - 1 = {s}
    BY FrameAssumption DEF Frames
  <2>3. Grant({s})
    BY <2>1, <2>2, ZenonT(30)
  <2>4. CursorForward
    BY <1>1, <1>6, BumpMoves
  <2>5. s \in Ahead /\ Ahead' = Ahead \ {s}
    BY <1>2, <2>1, <2>4, BumpOneTakesOne
  <2>6. frame = s
    BY <1>1, <2>3 DEF Grant
  <2>7. s \notin Owned
    BY <2>5 DEF Ahead, IInv, OwnedIsManaged
  <2>8. owners[s] = 0
    BY <1>1, <2>7 DEF Owned, TypeOK
  <2>9. Owned' = Owned \cup {s}
    BY <1>1, <2>3, <2>8, GrantCounts
  <2>10. Cardinality(Ahead') = Cardinality(Ahead) - 1
    BY <1>3, <2>5, FS_RemoveElement, ZenonT(30)
  <2>11. free_count \in Nat
    BY <1>1 DEF TypeOK
  <2>12. Available = Available' + 1
    BY <1>3, <1>4, <2>1, <2>10, <2>11
  <2> QED BY <1>4, <1>6, <2>1, <2>6, <2>7, <2>9, <2>12, FrameAssumption
<1>7. CASE Exhaust(1)
  BY <1>1, <1>7 DEF Exhaust
<1> QED BY <1>1, <1>5, <1>6, <1>7 DEF Allocate

\* allocate fails only when there is no frame to be had.
LEMMA AllocateNone ==
  ASSUME IInv, allocate(NO_FRAME)
  PROVE  Available = 0 /\ free_list = NO_FRAME
<1>1. free_list = NO_FRAME /\ NoRun(1) /\ TypeOK
  BY FrameAssumption DEF allocate, Exhaust, IInv
<1>2. Ahead = {}
  <2> SUFFICES ASSUME NEW f \in Ahead PROVE FALSE
    OBVIOUS
  <2> QED BY <1>1, AheadIsRun DEF NoRun
<1>3. free_count = 0
  <2>1. PICK c \in Chains : IsChain(c)
    BY DEF IInv
  <2>2. CASE free_count # 0
    <3>1. 1 \in 1 .. free_count
      BY <1>1, <2>2 DEF TypeOK
    <3>2. c[1] \in Frames /\ free_list = c[1]
      BY <2>1, <2>2, <3>1 DEF Chains, IsChain
    <3> QED BY <1>1, <3>2, FrameAssumption
  <2> QED BY <2>2
<1> QED BY <1>1, <1>2, <1>3, AvailableIsNat, FS_EmptySet

\* free takes back any frame that is owned.
LEMMA FreeOwned ==
  ASSUME IInv, NEW f \in Owned, NEW result, free(f, result)
  PROVE  /\ result = "Ok" /\ f \in Frames
         /\ Owned' = Owned \ {f} /\ in_use' = saturating_pred(in_use)
         /\ free_list' = f /\ link'[f] = free_list
<1>1. PICK c \in Chains : IsChain(c)
  BY DEF IInv
<1>2. f \in Frames /\ owners[f] > 0 /\ Managed(f) /\ handed_out(f) /\ TypeOK
  BY DEF IInv, OwnedIsManaged, Owned
<1>3. ~on_free_list(f)
  <2> SUFFICES ASSUME NEW n \in 0 .. free_count - 1, walk[n] = f PROVE FALSE
    BY DEF on_free_list
  <2>1. walk[n] \notin Owned
    BY ChainIsSound DEF FreeListSound
  <2> QED BY <2>1
<1>4. FreeError(f) = "Ok"
  BY <1>2, <1>3 DEF FreeError
<1>5. result = "Ok" /\ Free(f)
  BY <1>4 DEF free
<1>6. owners' = [owners EXCEPT ![f] = 0]
  BY <1>1, <1>2, <1>5, FreeKeeps
<1>7. Owned' = Owned \ {f}
  BY <1>2, <1>6 DEF Owned, TypeOK
<1>8. link'[f] = free_list
  BY <1>2, <1>5 DEF Free, push_free, TypeOK
<1> QED BY <1>2, <1>5, <1>7, <1>8 DEF Free, push_free

\* free refuses the frame at the head of the list.
LEMMA FreeHead ==
  ASSUME IInv, NEW f \in Frames, free_list = f, NEW result, free(f, result)
  PROVE  result = "AlreadyFree" /\ UNCHANGED vars
<1>1. PICK c \in Chains : IsChain(c)
  BY DEF IInv
<1>2. free_count \in Nat /\ free_count # 0 /\ TypeOK
  <2>1. TypeOK
    BY DEF IInv
  <2>2. free_count \in Nat
    BY <2>1 DEF TypeOK
  <2>3. free_list # NO_FRAME
    BY FrameAssumption
  <2>4. free_list = IF free_count = 0 THEN NO_FRAME ELSE c[1]
    BY <1>1 DEF IsChain
  <2>5. free_count # 0
    BY <2>3, <2>4, ZenonT(30)
  <2> QED BY <2>1, <2>2, <2>5
<1>3. f = c[1] /\ Managed(f) /\ handed_out(f)
  <2>1. free_list = IF free_count = 0 THEN NO_FRAME ELSE c[1]
    BY <1>1 DEF IsChain
  <2>2. f = c[1]
    BY <1>2, <2>1, ZenonT(30)
  <2>3. 1 \in 1 .. free_count
    BY <1>2
  <2>4. \A i \in 1 .. free_count : Managed(c[i]) /\ handed_out(c[i]) /\ owners[c[i]] = 0
    BY <1>1, ZenonT(30) DEF IsChain
  <2> QED BY <2>2, <2>3, <2>4, ZenonT(30)
<1>4. 0 \in 0 .. free_count - 1 /\ walk[0] = c[0 + 1]
  BY <1>1, <1>2, WalkIsChain
<1>5. on_free_list(f)
  BY <1>3, <1>4 DEF on_free_list
<1>6. FreeError(f) = "AlreadyFree"
  BY <1>3, <1>5 DEF FreeError
<1> QED BY <1>6 DEF free

Entries(q) == {q[i] : i \in 1 .. Len(q)}
Distinct(q) == \A i, j \in 1 .. Len(q) : q[i] = q[j] => i = j

\* One more entry.
LEMMA AppendEntries ==
  ASSUME NEW q \in Seq(Frames), NEW f \in Frames
  PROVE  /\ Entries(Append(q, f)) = Entries(q) \cup {f}
         /\ Distinct(q) /\ f \notin Entries(q) => Distinct(Append(q, f))
<1>1. /\ Len(q) \in Nat /\ Len(Append(q, f)) = Len(q) + 1
      /\ \A i \in 1 .. Len(q) : Append(q, f)[i] = q[i]
      /\ Append(q, f)[Len(q) + 1] = f
  OBVIOUS
<1>2. \A i \in 1 .. Len(q) + 1 : i \in 1 .. Len(q) \/ i = Len(q) + 1
  BY <1>1
<1>3. \A i \in 1 .. Len(q) : i \in 1 .. Len(q) + 1
  BY <1>1
<1>4. Len(q) + 1 \in 1 .. Len(q) + 1
  BY <1>1
<1> DEFINE r == Append(q, f)
           n == Len(q)
<1>5. Len(r) = n + 1 /\ (\A i \in 1 .. n : r[i] = q[i]) /\ r[n + 1] = f
  BY <1>1
<1> HIDE DEF r
<1>6. Entries(r) = Entries(q) \cup {f}
  BY <1>2, <1>3, <1>4, <1>5 DEF Entries
<1>7. ASSUME Distinct(q), f \notin Entries(q) PROVE Distinct(r)
  <2>1. SUFFICES ASSUME NEW i \in 1 .. n + 1, NEW j \in 1 .. n + 1, r[i] = r[j] PROVE i = j
    BY <1>5 DEF Distinct
  <2>2. \A k \in 1 .. n : q[k] # f
    BY <1>7 DEF Entries
  <2> QED BY <1>2, <1>5, <1>7, <2>1, <2>2 DEF Distinct
<1> QED BY <1>6, <1>7 DEF r

\* One entry fewer.
LEMMA TailEntries ==
  ASSUME NEW q \in Seq(Frames), q # << >>, Distinct(q)
  PROVE  /\ Entries(q) = Entries(Tail(q)) \cup {Head(q)} /\ Head(q) \notin Entries(Tail(q))
         /\ Distinct(Tail(q))
<1>1. /\ Len(q) \in Nat /\ Len(q) >= 1 /\ Len(Tail(q)) = Len(q) - 1 /\ Head(q) = q[1]
      /\ \A i \in 1 .. Len(q) - 1 : Tail(q)[i] = q[i + 1]
  OBVIOUS
<1> DEFINE r == Tail(q)
           h == Head(q)
           n == Len(q)
<1>2. /\ n \in Nat /\ n >= 1 /\ Len(r) = n - 1 /\ h = q[1]
      /\ \A i \in 1 .. n - 1 : r[i] = q[i + 1]
  BY <1>1
<1> HIDE DEF r, h, n
<1>3. \A i \in 1 .. n - 1 : i + 1 \in 1 .. n /\ i + 1 # 1
  BY <1>2
<1>4. \A i \in 1 .. n : i = 1 \/ (i - 1 \in 1 .. n - 1 /\ (i - 1) + 1 = i)
  BY <1>2
<1>5. \A i, j \in 1 .. n : q[i] = q[j] => i = j
  BY DEF Distinct, n
<1>6. Entries(q) = {q[i] : i \in 1 .. n} /\ Entries(r) = {r[i] : i \in 1 .. n - 1}
  BY <1>2 DEF Entries, n
<1>7. ASSUME NEW i \in 1 .. n PROVE q[i] \in Entries(r) \cup {h}
  <2>1. CASE i = 1
    BY <1>2, <2>1
  <2>2. CASE i # 1
    <3>1. i - 1 \in 1 .. n - 1 /\ (i - 1) + 1 = i
      BY <1>4, <2>2
    <3>2. r[i - 1] = q[i]
      BY <1>2, <3>1
    <3> QED BY <1>6, <3>1, <3>2
  <2> QED BY <2>1, <2>2
<1>8. 1 \in 1 .. n
  BY <1>2
<1>9. Entries(q) = Entries(r) \cup {h}
  BY <1>2, <1>3, <1>6, <1>7, <1>8
<1>10. h \notin Entries(r)
  BY <1>2, <1>3, <1>5, <1>6, <1>8
<1>11. ASSUME NEW i \in 1 .. n - 1, NEW j \in 1 .. n - 1, r[i] = r[j] PROVE i = j
  <2>1. q[i + 1] = q[j + 1] /\ i + 1 \in 1 .. n /\ j + 1 \in 1 .. n
    BY <1>2, <1>3, <1>11
  <2>2. i + 1 = j + 1
    BY <1>5, <2>1
  <2> QED BY <1>2, <2>2
<1>12. Distinct(r)
  BY <1>2, <1>11 DEF Distinct
<1> QED BY <1>9, <1>10, <1>12 DEF r, h

\* The frames self_test has taken and not given back.
HeldBy(st, frames, freed) ==
  Entries(frames) \ (IF st \in {"refree", "return"} THEN {freed[1]} ELSE Entries(freed))

\* The caller owns H on top of what was owned, and is counted for it.
Books(owned, use, owned0, use0, H) ==
  /\ owned = owned0 \cup H /\ owned0 \cap H = {}
  /\ use0 \in Nat /\ IsFiniteSet(H) /\ use = use0 + Cardinality(H)

\* A frame more,
LEMMA BooksTake ==
  ASSUME NEW owned, NEW use, NEW owned0, NEW use0, NEW H, Books(owned, use, owned0, use0, H),
         NEW f, f \notin owned
  PROVE  Books(owned \cup {f}, use + 1, owned0, use0, H \cup {f})
<1>1. IsFiniteSet(H \cup {f}) /\ Cardinality(H \cup {f}) = Cardinality(H) + 1 /\ Cardinality(H) \in Nat
  BY FS_AddElement, FS_CardinalityType DEF Books
<1>2. use + 1 = use0 + Cardinality(H \cup {f})
  BY <1>1 DEF Books
<1> QED BY <1>1, <1>2 DEF Books

\* or one less: the count never saturates.
LEMMA BooksGive ==
  ASSUME NEW owned, NEW use, NEW owned0, NEW use0, NEW H, Books(owned, use, owned0, use0, H),
         NEW f \in H
  PROVE  Books(owned \ {f}, saturating_pred(use), owned0, use0, H \ {f})
<1>1. IsFiniteSet(H \ {f}) /\ Cardinality(H \ {f}) = Cardinality(H) - 1
  BY FS_RemoveElement DEF Books
<1>2. Cardinality(H) \in Nat /\ Cardinality(H \ {f}) \in Nat
  BY <1>1, FS_CardinalityType DEF Books
<1>3. use0 \in Nat /\ use = use0 + Cardinality(H)
  BY DEF Books
<1>4. saturating_pred(use) = use0 + Cardinality(H \ {f})
  BY <1>1, <1>2, <1>3 DEF saturating_pred
<1> QED BY <1>1, <1>4 DEF Books

Running == {"take", "check", "give", "reuse", "refree", "return"}

\* While self_test runs, nothing has failed and its books are right; the frames
\* it gave back are the head of the free list, newest first.
Verdict ==
  /\ step \in Running =>
       /\ test.failure = "none" /\ Distinct(test.frames)
       /\ Books(Owned, in_use, before.owned, in_use_before, HeldBy(step, test.frames, test.freed))
  /\ step = "take" => /\ Len(test.frames) < SELF_TEST_FRAMES
                      /\ before.available = Available + Len(test.frames)
  /\ step \in Running \ {"take"} => before.available >= SELF_TEST_FRAMES
  /\ step = "give" => \A k \in 1 .. Len(test.freed) :
                         test.freed[k] = test.frames[Len(test.frames) + 1 - k]
  /\ step = "give" /\ Len(test.freed) = 1 => free_list = test.freed[1]
  /\ step = "reuse" => /\ free_list = test.freed[2] /\ link[test.freed[2]] = test.freed[1]
                       /\ test.freed[2] \in Entries(test.frames) /\ test.freed[1] # test.freed[2]
  /\ step = "refree" => free_list = test.freed[1]
  /\ SelfTestIsTrue

\* self_test begins with nothing, its books closed.
LEMMA VerdictBegin == ASSUME IInv, begin PROVE Verdict'
<1>1. /\ step' = "take" /\ test' = new /\ in_use_before' = in_use
      /\ before' = [owned |-> Owned, available |-> Available] /\ UNCHANGED vars
  BY DEF begin
<1>2. Owned' = Owned /\ in_use' = in_use /\ Available' = Available
  BY <1>1 DEF vars, allocator, Owned, Available, handed_out, InRegion
<1>3. /\ test'.frames = << >> /\ test'.freed = << >> /\ test'.failure = "none"
      /\ before'.owned = Owned /\ before'.available = Available
  BY <1>1 DEF new
<1>4. Entries(<< >>) = {} /\ Distinct(<< >>) /\ Len(<< >>) = 0
  BY DEF Entries, Distinct
<1>5. HeldBy("take", << >>, << >>) = {}
  BY <1>4 DEF HeldBy
<1>6. in_use \in Nat /\ free_count \in Nat /\ TypeOK
  BY DEF IInv, TypeOK
<1>7. Books(Owned, in_use, Owned, in_use, {})
  BY <1>6, FS_EmptySet DEF Books
<1>8. Available = Available + 0 /\ 0 < SELF_TEST_FRAMES
  <2>1. Available \in Nat
    BY <1>6, AvailableIsNat
  <2> QED BY <2>1, SelfTestAssumption
<1>9. Books(Owned', in_use', before'.owned, in_use_before', HeldBy(step', test'.frames, test'.freed))
  BY <1>1, <1>2, <1>3, <1>5, <1>7, ZenonT(30)
<1> QED BY <1>1, <1>2, <1>3, <1>4, <1>8, <1>9 DEF Verdict, Running, SelfTestIsTrue

\* It takes a frame nobody owns, or finds that there is none to be had.
LEMMA VerdictTake == ASSUME IInv, TestInv, Verdict, take PROVE Verdict'
<1>1. PICK frame \in Word :
        /\ allocate(frame)
        /\ test' = IF frame = NO_FRAME THEN fail(test, "ran_out")
                                       ELSE [test EXCEPT !.frames = Append(@, frame)]
        /\ step' = IF frame = NO_FRAME THEN "done"
                   ELSE IF Len(test'.frames) = SELF_TEST_FRAMES THEN "check" ELSE "take"
  BY DEF take
<1>2. step = "take" /\ UNCHANGED <<in_use_before, before>> /\ TypeOK
  BY DEF take, IInv
<1>3. /\ test \in SelfTests /\ test.frames \in Seq(Frames) /\ Len(test.freed) = 0
      /\ Len(test.frames) \in Nat /\ SELF_TEST_FRAMES \in Nat
  BY <1>2, SelfTestAssumption DEF TestInv, SelfTests
<1>4. /\ test.failure = "none" /\ Distinct(test.frames)
      /\ Books(Owned, in_use, before.owned, in_use_before, HeldBy("take", test.frames, test.freed))
      /\ Len(test.frames) < SELF_TEST_FRAMES /\ before.available = Available + Len(test.frames)
  BY <1>2 DEF Verdict, Running
<1>5. Entries(test.freed) = {}
  BY <1>3 DEF Entries
<1>6. \A st, q : st \in {"take", "check"} => HeldBy(st, q, test.freed) = Entries(q)
  BY <1>5 DEF HeldBy
<1>7. Available \in Nat
  <2>1. free_count \in Nat
    BY <1>2 DEF TypeOK
  <2> QED BY <1>2, <2>1, AvailableIsNat
<1>8. CASE frame = NO_FRAME
  <2>1. Available = 0
    BY <1>1, <1>8, AllocateNone
  <2>2. ~(before.available >= SELF_TEST_FRAMES)
    BY <1>3, <1>4, <2>1
  <2>3. step' = "done" /\ test' = fail(test, "ran_out")
    BY <1>1, <1>8
  <2>4. test'.failure = "ran_out"
    BY <1>3, <1>4, <2>3 DEF fail, SelfTests
  <2> QED BY <1>2, <2>2, <2>3, <2>4 DEF Verdict, Running, SelfTestIsTrue
<1>9. CASE frame # NO_FRAME
  <2>1. frame \in Frames
    BY <1>9 DEF Word
  <2>2. /\ test' = [test EXCEPT !.frames = Append(test.frames, frame)]
        /\ step' = IF Len(test'.frames) = SELF_TEST_FRAMES THEN "check" ELSE "take"
    BY <1>1, <1>9
  <2>3. /\ test'.frames = Append(test.frames, frame) /\ test'.freed = test.freed
        /\ test'.failure = test.failure
    BY <1>3, <2>2 DEF SelfTests
  <2>4. /\ frame \notin Owned /\ Owned' = Owned \cup {frame} /\ in_use' = in_use + 1
        /\ Available = Available' + 1 /\ Available' \in Nat
    BY <1>1, <2>1, AllocateTakesOne
  <2>5. Books(Owned, in_use, before.owned, in_use_before, Entries(test.frames))
    BY <1>4, <1>6
  <2>6. frame \notin Entries(test.frames)
    BY <2>4, <2>5 DEF Books
  <2>7. Entries(test'.frames) = Entries(test.frames) \cup {frame} /\ Distinct(test'.frames)
    BY <1>3, <1>4, <2>1, <2>3, <2>6, AppendEntries
  <2>8. Books(Owned \cup {frame}, in_use + 1, before.owned, in_use_before, Entries(test.frames) \cup {frame})
    BY <2>4, <2>5, BooksTake
  <2>9. step' \in {"take", "check"}
    BY <2>2
  <2>10. HeldBy(step', test'.frames, test'.freed) = Entries(test.frames) \cup {frame}
    <3>1. HeldBy(step', test'.frames, test'.freed) = HeldBy(step', test'.frames, test.freed)
      BY <2>3, ZenonT(30)
    <3>2. HeldBy(step', test'.frames, test.freed) = Entries(test'.frames)
      BY <1>6, <2>9
    <3> QED BY <2>7, <3>1, <3>2, ZenonT(30)
  <2>11. Books(Owned', in_use', before'.owned, in_use_before', HeldBy(step', test'.frames, test'.freed))
    BY <1>2, <2>4, <2>8, <2>10
  <2>12. Len(test'.frames) = Len(test.frames) + 1
    BY <1>3, <2>1, <2>3, AppendLength
  <2>13. before'.available = Available' + Len(test'.frames)
    <3>1. PICK a \in Nat, b \in Nat, n \in Nat : a = Available /\ b = Available' /\ n = Len(test.frames)
      BY <1>3, <1>7, <2>4, ZenonT(30)
    <3>2. a + n = b + (n + 1)
      BY <2>4, <3>1
    <3> QED BY <1>2, <1>4, <2>12, <3>1, <3>2
  <2>14. CASE step' = "take"
    <3>1. Len(test'.frames) < SELF_TEST_FRAMES
      BY <1>3, <1>4, <2>2, <2>12, <2>14
    <3> QED BY <1>4, <2>3, <2>7, <2>11, <2>13, <2>14, <3>1 DEF Verdict, Running, SelfTestIsTrue
  <2>15. CASE step' = "check"
    <3>1. before'.available >= SELF_TEST_FRAMES
      BY <1>3, <2>2, <2>4, <2>13, <2>15
    <3> QED BY <1>4, <2>3, <2>7, <2>11, <2>15, <3>1 DEF Verdict, Running, SelfTestIsTrue
  <2> QED BY <2>9, <2>14, <2>15
<1> QED BY <1>8, <1>9

\* The frames it got pass every test.
LEMMA VerdictCheck == ASSUME IInv, TestInv, Verdict, check PROVE Verdict'
<1>1. step = "check" /\ step' = "give" /\ UNCHANGED <<vars, in_use_before, before>>
  BY DEF check
<1>2. /\ test \in SelfTests /\ Len(test.freed) = 0 /\ Len(test.frames) \in Nat
  <2>1. test \in SelfTests /\ Len(test.freed) = 0
    BY <1>1, ZenonT(30) DEF TestInv
  <2>2. test.frames \in Seq(Frames)
    BY <2>1 DEF SelfTests
  <2> QED BY <2>1, <2>2
<1>3. /\ test.failure = "none" /\ Distinct(test.frames) /\ before.available >= SELF_TEST_FRAMES
      /\ Books(Owned, in_use, before.owned, in_use_before, HeldBy("check", test.frames, test.freed))
  <2>1. step \in Running /\ step \in Running \ {"take"}
    BY <1>1 DEF Running
  <2>2. Books(Owned, in_use, before.owned, in_use_before, HeldBy(step, test.frames, test.freed))
    BY <2>1, ZenonT(30) DEF Verdict
  <2>3. Books(Owned, in_use, before.owned, in_use_before, HeldBy("check", test.frames, test.freed))
    BY <1>1, <2>2, ZenonT(30)
  <2>4. test.failure = "none" /\ Distinct(test.frames) /\ before.available >= SELF_TEST_FRAMES
    BY <2>1, ZenonT(30) DEF Verdict
  <2> QED BY <2>3, <2>4
<1>4. ~Repeated(test.frames)
  <2> SUFFICES ASSUME NEW i \in 1 .. Len(test.frames), NEW j \in 1 .. Len(test.frames),
                      i < j, test.frames[i] = test.frames[j]
               PROVE  FALSE
    BY DEF Repeated
  <2>1. i = j
    BY <1>3, ZenonT(30) DEF Distinct
  <2> QED BY ONLY <2>1, i < j, SMTT(30)
<1>5. Entries(test.freed) = {}
  BY <1>2 DEF Entries
<1>6. HeldBy("check", test.frames, test.freed) = Entries(test.frames)
      /\ HeldBy("give", test.frames, test.freed) = Entries(test.frames)
  BY <1>5 DEF HeldBy
<1>7. ASSUME NEW i \in 1 .. Len(test.frames)
      PROVE  ~Outside(test.frames[i]) /\ ~is_reserved(test.frames[i])
  <2>1. test.frames[i] \in Owned
    BY <1>3, <1>6 DEF Books, Entries
  <2> QED BY <2>1 DEF IInv, OwnedIsManaged, Managed, Outside
<1>8. test' = test
  BY <1>4, <1>7 DEF check
<1>9. Owned' = Owned /\ in_use' = in_use
  BY <1>1 DEF vars, allocator, Owned
<1>10. Books(Owned', in_use', before'.owned, in_use_before', HeldBy(step', test'.frames, test'.freed))
  <2>1. HeldBy(step', test'.frames, test'.freed) = Entries(test.frames)
    BY <1>1, <1>6, <1>8, ZenonT(30)
  <2>2. Books(Owned, in_use, before.owned, in_use_before, Entries(test.frames))
    BY <1>3, <1>6, ZenonT(30)
  <2>3. before' = before /\ in_use_before' = in_use_before
    BY <1>1
  <2> QED BY <1>9, <2>1, <2>2, <2>3, ZenonT(30)
<1>11. \A k \in 1 .. Len(test.freed) : FALSE
  BY <1>2
<1>12. test'.failure = "none" /\ Distinct(test'.frames) /\ before'.available >= SELF_TEST_FRAMES
  BY <1>1, <1>3, <1>8
<1>13. (\A k \in 1 .. Len(test'.freed) : FALSE) /\ Len(test'.freed) # 1
  <2>1. test'.freed = test.freed
    BY <1>8, ZenonT(30)
  <2>2. Len(test.freed) # 1
    BY <1>2
  <2> QED BY <1>11, <2>1, <2>2, ZenonT(30)
<1> QED BY <1>1, <1>10, <1>12, <1>13 DEF Verdict, SelfTestIsTrue

\* The places of the frames given back, from the end.
LEMMA LastPlaces ==
  ASSUME NEW n \in Nat, NEW m \in Nat, n >= 3, m <= 1
  PROVE  /\ m = 0 \/ m = 1
         /\ n - m \in 1 .. n
         /\ \A k \in 1 .. m : n + 1 - k \in 1 .. n /\ n + 1 - k # n - m
OBVIOUS

\* It gives back the last two, which become the head of the free list.
LEMMA VerdictGive == ASSUME IInv, TestInv, Verdict, give PROVE Verdict'
<1> DEFINE T == test.frames
           F == test.freed
           frame == T[Len(T) - Len(F)]
<1>1. step = "give" /\ UNCHANGED <<in_use_before, before>>
  BY DEF give
<1>2. /\ test \in SelfTests /\ T \in Seq(Frames) /\ F \in Seq(Frames)
      /\ Len(T) \in Nat /\ Len(T) >= 3 /\ Len(F) \in Nat /\ Len(F) <= 1
  <2>1. test \in SelfTests /\ Len(T) >= 3 /\ Len(F) <= 1
    BY <1>1, ZenonT(30) DEF TestInv
  <2>2. T \in Seq(Frames) /\ F \in Seq(Frames)
    BY <2>1 DEF SelfTests
  <2>3. Len(T) \in Nat /\ Len(F) \in Nat
    BY <2>2
  <2> QED BY <2>1, <2>2, <2>3
<1>3. /\ test.failure = "none" /\ Distinct(T) /\ before.available >= SELF_TEST_FRAMES
      /\ Books(Owned, in_use, before.owned, in_use_before, HeldBy("give", T, F))
      /\ \A k \in 1 .. Len(F) : F[k] = T[Len(T) + 1 - k]
      /\ Len(F) = 1 => free_list = F[1]
  BY <1>1 DEF Verdict, Running
<1>4. HeldBy("give", T, F) = Entries(T) \ Entries(F)
  BY DEF HeldBy
<1>0. PICK n \in Nat, m \in Nat : n = Len(T) /\ m = Len(F) /\ n >= 3 /\ m <= 1
  BY <1>2
<1>5. n - m \in 1 .. n /\ \A k \in 1 .. m : n + 1 - k \in 1 .. n /\ n + 1 - k # n - m
  BY <1>0, LastPlaces, ZenonT(30)
<1>6. PICK result \in Results :
        /\ free(frame, result)
        /\ test' = IF result = "Ok" THEN [test EXCEPT !.freed = Append(@, frame)]
                                    ELSE fail(test, "refused")
        /\ step' = IF result # "Ok" THEN "done" ELSE IF Len(test'.freed) = 2 THEN "reuse" ELSE "give"
  BY DEF give
<1>7. frame \in Entries(T) \ Entries(F) /\ frame \in Frames
  <2>1. frame = T[n - m]
    BY <1>0
  <2>2. frame \in Entries(T) /\ frame \in Frames
    <3>1. n - m \in 1 .. Len(T)
      BY <1>0, <1>5, ZenonT(30)
    <3>2. T[n - m] \in Frames
      BY <1>2, <3>1
    <3>3. T[n - m] \in Entries(T)
      BY <3>1, ZenonT(30) DEF Entries
    <3> QED BY <2>1, <3>2, <3>3
  <2>3. ASSUME NEW k \in 1 .. Len(F) PROVE F[k] # frame
    <3>1. n + 1 - k \in 1 .. n /\ n + 1 - k # n - m /\ F[k] = T[n + 1 - k]
      BY <1>0, <1>3, <1>5, ZenonT(30)
    <3>2. T[n + 1 - k] = T[n - m] => n + 1 - k = n - m
      BY <1>0, <1>3, <1>5, <3>1 DEF Distinct
    <3> QED BY <2>1, <3>1, <3>2
  <2> QED BY <2>2, <2>3 DEF Entries
<1> HIDE DEF frame
<1>8. frame \in Owned
  BY <1>3, <1>4, <1>7 DEF Books
<1>9. /\ result = "Ok" /\ Owned' = Owned \ {frame} /\ in_use' = saturating_pred(in_use)
      /\ free_list' = frame /\ link'[frame] = free_list
  BY <1>6, <1>8, FreeOwned
<1>10. test' = [test EXCEPT !.freed = Append(F, frame)]
       /\ step' = IF Len(test'.freed) = 2 THEN "reuse" ELSE "give"
  BY <1>6, <1>9
<1>11. test'.frames = T /\ test'.freed = Append(F, frame) /\ test'.failure = "none"
  BY <1>2, <1>3, <1>10 DEF SelfTests
<1>12. Entries(test'.freed) = Entries(F) \cup {frame} /\ Len(test'.freed) = Len(F) + 1
  BY <1>2, <1>7, <1>11, AppendEntries, AppendLength
<1>13. Books(Owned \ {frame}, saturating_pred(in_use), before.owned, in_use_before,
             (Entries(T) \ Entries(F)) \ {frame})
  BY <1>3, <1>4, <1>7, BooksGive
<1>14. HeldBy(step', test'.frames, test'.freed) = (Entries(T) \ Entries(F)) \ {frame}
  <2>1. step' \notin {"refree", "return"}
    BY <1>10
  <2> QED BY <1>11, <1>12, <2>1 DEF HeldBy
<1>15. Books(Owned', in_use', before'.owned, in_use_before', HeldBy(step', test'.frames, test'.freed))
  BY <1>1, <1>9, <1>13, <1>14
<1>16. CASE Len(F) = 0
  <2>1. Len(test'.freed) = 1 /\ step' = "give" /\ test'.freed[1] = frame
    BY <1>2, <1>7, <1>10, <1>11, <1>12, <1>16
  <2>2. frame = T[Len(T) + 1 - 1]
    <3>1. Len(T) - Len(F) = Len(T) + 1 - 1
      BY <1>2, <1>16
    <3> QED BY <3>1, ZenonT(30) DEF frame
  <2>3. \A k \in 1 .. Len(test'.freed) : test'.freed[k] = test'.frames[Len(test'.frames) + 1 - k]
    <3>1. \A k \in 1 .. Len(test'.freed) : k = 1
      BY <2>1
    <3> QED BY <1>11, <2>1, <2>2, <3>1
  <2> QED BY <1>1, <1>3, <1>9, <1>11, <1>15, <2>1, <2>3 DEF Verdict, Running, SelfTestIsTrue
<1>17. CASE Len(F) = 1
  <2>1. Len(test'.freed) = 2 /\ step' = "reuse"
    BY <1>2, <1>10, <1>12, <1>17
  <2>2. test'.freed[1] = F[1] /\ test'.freed[2] = frame
    BY <1>2, <1>7, <1>11, <1>17
  <2>3. F[1] \in Entries(F) /\ frame # F[1]
    BY <1>2, <1>7, <1>17 DEF Entries
  <2> QED BY <1>1, <1>3, <1>7, <1>9, <1>11, <1>15, <1>17, <2>1, <2>2, <2>3
          DEF Verdict, Running, SelfTestIsTrue
<1> QED BY <1>0, <1>16, <1>17, LastPlaces, ZenonT(30)

\* The next allocate returns the frame freed last.
LEMMA VerdictReuse == ASSUME IInv, TestInv, Verdict, reuse PROVE Verdict'
<1> DEFINE T == test.frames
           F == test.freed
<1>1. step = "reuse" /\ step' = "refree" /\ UNCHANGED <<in_use_before, before>>
  BY DEF reuse
<1>2. test \in SelfTests /\ F \in Seq(Frames) /\ Len(F) = 2
  BY <1>1 DEF TestInv, SelfTests
<1>3. F[1] \in Frames /\ F[2] \in Frames /\ Entries(F) = {F[1], F[2]}
  <2>1. 1 .. Len(F) = {1, 2}
    BY <1>2
  <2> QED BY <1>2, <2>1 DEF Entries
<1>4. /\ test.failure = "none" /\ Distinct(T) /\ before.available >= SELF_TEST_FRAMES
      /\ Books(Owned, in_use, before.owned, in_use_before, HeldBy("reuse", T, F))
      /\ free_list = F[2] /\ link[F[2]] = F[1] /\ F[2] \in Entries(T) /\ F[1] # F[2]
  BY <1>1 DEF Verdict, Running
<1>5. PICK frame \in Word :
        /\ allocate(frame)
        /\ test' = IF frame = NO_FRAME THEN fail(test, "nothing_left")
                   ELSE IF frame = last_freed THEN [test EXCEPT !.reused = frame]
                   ELSE fail([test EXCEPT !.reused = frame], "not_lifo")
  BY DEF reuse
<1>6. frame \in Frames
  <2>1. CASE frame = NO_FRAME
    BY <1>3, <1>4, <1>5, <2>1, AllocateNone, FrameAssumption
  <2> QED BY <2>1 DEF Word
<1>7. /\ frame = F[2] /\ F[2] \notin Owned /\ Owned' = Owned \cup {F[2]} /\ in_use' = in_use + 1
      /\ free_list' = F[1]
  BY <1>3, <1>4, <1>5, <1>6, AllocateTakesOne
<1>8. test' = [test EXCEPT !.reused = frame]
  BY <1>2, <1>5, <1>6, <1>7, FrameAssumption DEF last_freed
<1>9. test'.frames = T /\ test'.freed = F /\ test'.failure = "none"
  BY <1>2, <1>4, <1>8 DEF SelfTests
<1>10. HeldBy("reuse", T, F) = Entries(T) \ {F[1], F[2]}
  BY <1>3 DEF HeldBy
<1>11. HeldBy("refree", T, F) = (Entries(T) \ {F[1], F[2]}) \cup {F[2]}
  BY <1>4 DEF HeldBy
<1>12. Books(Owned \cup {F[2]}, in_use + 1, before.owned, in_use_before,
             (Entries(T) \ {F[1], F[2]}) \cup {F[2]})
  BY <1>4, <1>7, <1>10, BooksTake
<1>13. Books(Owned', in_use', before'.owned, in_use_before', HeldBy(step', test'.frames, test'.freed))
  BY <1>1, <1>7, <1>9, <1>11, <1>12
<1> QED BY <1>1, <1>4, <1>7, <1>9, <1>13 DEF Verdict, Running, SelfTestIsTrue

\* The other one is refused a second time, and nothing changes.
LEMMA VerdictRefree == ASSUME IInv, TestInv, Verdict, refree PROVE Verdict'
<1> DEFINE T == test.frames
           F == test.freed
<1>1. step = "refree" /\ step' = "return" /\ UNCHANGED <<in_use_before, before>>
  BY DEF refree
<1>2. test \in SelfTests /\ F \in Seq(Frames) /\ Len(F) = 2 /\ F[1] \in Frames
  <2>0. step \in {"reuse", "refree", "return"}
    BY <1>1
  <2>1. test \in SelfTests /\ Len(F) = 2
    BY <2>0, ZenonT(30) DEF TestInv
  <2>2. F \in Seq(Frames)
    BY <2>1 DEF SelfTests
  <2>3. 1 \in 1 .. Len(F)
    BY <2>1
  <2>4. F[1] \in Frames
    BY <2>2, <2>3, ElementOfSeq
  <2> QED BY <2>1, <2>2, <2>4, ZenonT(30)
<1>3. /\ test.failure = "none" /\ Distinct(T) /\ before.available >= SELF_TEST_FRAMES
      /\ Books(Owned, in_use, before.owned, in_use_before, HeldBy("refree", T, F))
      /\ free_list = F[1]
  BY <1>1 DEF Verdict, Running
<1>4. PICK result \in Results :
        /\ free(F[1], result)
        /\ test' = IF result = "AlreadyFree" THEN test ELSE fail(test, "double_free")
  BY DEF refree, still_free
<1>5. result = "AlreadyFree" /\ UNCHANGED vars
  BY <1>2, <1>3, <1>4, FreeHead
<1>6. test' = test /\ Owned' = Owned /\ in_use' = in_use
  BY <1>4, <1>5 DEF vars, allocator, Owned
<1>7. HeldBy("refree", T, F) = HeldBy("return", T, F)
  BY DEF HeldBy
<1>8. Books(Owned', in_use', before'.owned, in_use_before', HeldBy(step', test'.frames, test'.freed))
  BY <1>1, <1>3, <1>6, <1>7
<1> QED BY <1>1, <1>3, <1>6, <1>8 DEF Verdict, Running, SelfTestIsTrue

\* Each frame but that one is given back, and accepted.
LEMMA VerdictReturn == ASSUME IInv, TestInv, Verdict, return PROVE Verdict'
<1> DEFINE T == test.frames
           F == test.freed
<1>1. step = "return" /\ step' = "return" /\ T # << >> /\ UNCHANGED <<in_use_before, before>>
  BY DEF return
<1>2. test \in SelfTests /\ T \in Seq(Frames)
  BY DEF TestInv, SelfTests
<1>3. /\ test.failure = "none" /\ Distinct(T) /\ before.available >= SELF_TEST_FRAMES
      /\ Books(Owned, in_use, before.owned, in_use_before, HeldBy("return", T, F))
  BY <1>1 DEF Verdict, Running
<1>4. /\ Entries(T) = Entries(Tail(T)) \cup {Head(T)} /\ Head(T) \notin Entries(Tail(T))
      /\ Distinct(Tail(T))
  BY <1>1, <1>2, <1>3, TailEntries
<1>5. \A q : HeldBy("return", q, F) = Entries(q) \ {F[1]}
  BY DEF HeldBy
<1>6. ASSUME test' = [test EXCEPT !.frames = Tail(T)],
             Books(Owned', in_use', before.owned, in_use_before, Entries(Tail(T)) \ {F[1]})
      PROVE  Verdict'
  <2>1. test'.frames = Tail(T) /\ test'.freed = F /\ test'.failure = "none"
    BY <1>2, <1>3, <1>6 DEF SelfTests
  <2>2. Books(Owned', in_use', before'.owned, in_use_before', HeldBy(step', test'.frames, test'.freed))
    BY <1>1, <1>5, <1>6, <2>1, ZenonT(30)
  <2> QED BY <1>1, <1>3, <1>4, <2>1, <2>2 DEF Verdict, Running, SelfTestIsTrue
<1>7. CASE Head(T) = F[1]
  <2>1. test' = [test EXCEPT !.frames = Tail(T)] /\ UNCHANGED vars
    BY <1>7 DEF return, still_free
  <2>2. Entries(T) \ {F[1]} = Entries(Tail(T)) \ {F[1]}
    BY <1>4, <1>7
  <2>3. Owned' = Owned /\ in_use' = in_use
    BY <2>1 DEF vars, allocator, Owned
  <2> QED BY <1>3, <1>5, <1>6, <2>1, <2>2, <2>3, ZenonT(30)
<1>8. CASE Head(T) # F[1]
  <2>1. PICK result \in Results :
          /\ free(Head(T), result)
          /\ test' = [(IF result = "Ok" THEN test ELSE fail(test, "refused")) EXCEPT !.frames = Tail(@)]
    BY <1>8 DEF return, still_free
  <2>2. Head(T) \in Entries(T) \ {F[1]}
    BY <1>4, <1>8
  <2>3. Head(T) \in Owned
    BY <1>3, <1>5, <2>2 DEF Books
  <2>4. result = "Ok" /\ Owned' = Owned \ {Head(T)} /\ in_use' = saturating_pred(in_use)
    BY <2>1, <2>3, FreeOwned
  <2>5. test' = [test EXCEPT !.frames = Tail(T)]
    BY <2>1, <2>4
  <2>6. Books(Owned \ {Head(T)}, saturating_pred(in_use), before.owned, in_use_before,
              (Entries(T) \ {F[1]}) \ {Head(T)})
    BY <1>3, <1>5, <2>2, BooksGive
  <2>7. (Entries(T) \ {F[1]}) \ {Head(T)} = Entries(Tail(T)) \ {F[1]}
    BY <1>4
  <2> QED BY <1>6, <2>4, <2>5, <2>6, <2>7, ZenonT(30)
<1> QED BY <1>7, <1>8

\* At the end the count is where it was, and so is every frame.
LEMMA VerdictRecount == ASSUME IInv, TestInv, Verdict, recount PROVE Verdict'
<1> DEFINE F == test.freed
<1>1. /\ step = "return" /\ step' = "done" /\ test.frames = << >>
      /\ UNCHANGED <<vars, in_use_before, before>>
  BY DEF recount
<1>2. /\ test.failure = "none" /\ before.available >= SELF_TEST_FRAMES
      /\ Books(Owned, in_use, before.owned, in_use_before, HeldBy("return", << >>, F))
  BY <1>1 DEF Verdict, Running
<1>3. HeldBy("return", << >>, F) = {}
  BY DEF HeldBy, Entries
<1>4. Owned = before.owned /\ in_use = in_use_before
  <2>1. Cardinality({}) = 0
    BY FS_EmptySet
  <2>2. Owned = before.owned \cup {} /\ in_use_before \in Nat /\ in_use = in_use_before + 0
    BY <1>2, <1>3, <2>1, ZenonT(30) DEF Books
  <2>3. in_use = in_use_before
    BY <2>2
  <2>4. before.owned \cup {} = before.owned
    BY ZenonT(30)
  <2> QED BY <2>2, <2>3, <2>4, ZenonT(30)
<1>5. test' = test /\ Owned' = Owned
  BY <1>1, <1>4 DEF recount, vars, Owned
<1> QED BY <1>1, <1>2, <1>4, <1>5 DEF Verdict, Running, SelfTestIsTrue

\* Nothing is claimed of a self_test that is not running,
LEMMA VerdictIdle == ASSUME step' = "idle" PROVE Verdict'
BY DEF Verdict, Running, SelfTestIsTrue

\* and what is claimed of one that is, is about these.
LEMMA VerdictSame ==
  ASSUME Verdict, UNCHANGED <<step, test, in_use_before, before>>,
         Owned' = Owned /\ in_use' = in_use /\ Available' = Available /\ free_list' = free_list
         /\ link' = link
  PROVE  Verdict'
<1>1. SelfTestIsTrue'
  BY DEF Verdict, SelfTestIsTrue
<1>2. step \in Running =>
        /\ test'.failure = "none" /\ Distinct(test'.frames)
        /\ Books(Owned', in_use', before'.owned, in_use_before', HeldBy(step', test'.frames, test'.freed))
  BY DEF Verdict
<1> QED BY <1>1, <1>2 DEF Verdict

(***************************************************************************)
(* For every pool and every number of frames the test takes, the verdict   *)
(* of self_test is true of the allocator it ran on, whatever its callers   *)
(* did before: it fails exactly when there are too few frames to be had,   *)
(* and a test that succeeds leaves every frame owned, or not, as it was.   *)
(***************************************************************************)
THEOREM SelfTestVerdict == TestSpec => []SelfTestIsTrue
<1>1. TestInit => IInv /\ TestInv /\ Verdict
  <2> SUFFICES ASSUME TestInit PROVE IInv /\ TestInv /\ Verdict
    OBVIOUS
  <2>1. new \in SelfTests
    BY DEF new, SelfTests, Word, Reasons
  <2> QED BY <2>1, InitEstablishes DEF TestInit, TestInv, Verdict, Running, SelfTestIsTrue
<1>2. IInv /\ TestInv /\ Verdict /\ [TestNext]_<<vars, test_vars>> => IInv' /\ TestInv' /\ Verdict'
  <2> SUFFICES ASSUME IInv, TestInv, Verdict, [TestNext]_<<vars, test_vars>>
               PROVE  IInv' /\ TestInv' /\ Verdict'
    OBVIOUS
  <2>1. TestInv' /\ [Next]_vars
    BY TestKeeps
  <2>2. IInv'
    BY <2>1, NextKeeps
  <2>3. CASE step = "idle" /\ UNCHANGED test_vars
    <3>1. step' = "idle"
      BY <2>3 DEF test_vars
    <3> QED BY <2>1, <2>2, <3>1, VerdictIdle
  <2>4. CASE UNCHANGED <<vars, test_vars>>
    <3>1. Owned' = Owned /\ in_use' = in_use /\ Available' = Available /\ free_list' = free_list
          /\ link' = link
      BY <2>4 DEF vars, allocator, Owned, Available, handed_out, InRegion
    <3>2. UNCHANGED <<step, test, in_use_before, before>>
      BY <2>4 DEF test_vars
    <3> QED BY <2>1, <2>2, <3>1, <3>2, VerdictSame
  <2>5. CASE returned
    <3>1. step' = "idle"
      BY <2>5 DEF returned
    <3> QED BY <2>1, <2>2, <3>1, VerdictIdle
  <2>6. Verdict'
    BY <2>3, <2>4, <2>5, VerdictBegin, VerdictTake, VerdictCheck, VerdictGive, VerdictReuse,
       VerdictRefree, VerdictReturn, VerdictRecount DEF TestNext, self_test
  <2> QED BY <2>1, <2>2, <2>6
<1>3. Verdict => SelfTestIsTrue
  BY DEF Verdict
<1> QED BY <1>1, <1>2, <1>3, PTL DEF TestSpec
=============================================================================
