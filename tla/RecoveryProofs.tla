--------------------------- MODULE RecoveryProofs ---------------------------
(***************************************************************************)
(* What holds of Recovery for any number of pushes and signals: the chain  *)
(* is that of the open blocks, and states are cleaned up in order.         *)
(*                                                                         *)
(* The invariant speaks of every frame of the stack and the frames below   *)
(* it: what the router had still to call when it was entered is what was   *)
(* open there.  It is stated of values (the stack st, the chain ch, ...),  *)
(* so that a lemma speaks of them before and after a step alike; of the    *)
(* frames of a stack a step replaces the uppermost only.                   *)
(***************************************************************************)
EXTENDS Recovery, SequenceTheorems, WellFoundedInduction, TLAPS

FlagSets == SUBSET ((UNION Flags) \cup {"RETRY"})
States == [id : Nat, flags : FlagSets, enabled : BOOLEAN, abended : BOOLEAN]
Blocks == [kind : {"block"}, id : Nat, flags : FlagSets, recovered : BOOLEAN, mask : SUBSET Signals]
Routers == [kind : {"router"}, number : Nat, mask : SUBSET Signals, current : Nat,
            next : Seq(States), at : {"analysis", "cleanup"}]
Frames == Blocks \cup Routers
Calls == [id : Nat, number : Nat]

\* Of the first n frames a block is open that has its state, and that no router
\* among them has passed.
OpenAt(st, n, id) ==
    \E k \in 1..n :
        /\ IsBlock(st[k]) /\ st[k].id = id /\ HasState(st[k])
        /\ \A r \in (k + 1)..n : IsRouter(st[r]) => id <= st[r].current
OpenSet(st, n) == {id \in Nat : OpenAt(st, n, id)}

Descending(s) == \A i, j \in 1..Len(s) : i < j => s[i].id > s[j].id

\* A state has the flag its block was pushed with.
FlagsAgree(s, st, n) ==
    \A i \in 1..Len(s) : \A k \in 1..n :
        IsBlock(st[k]) /\ st[k].id = s[i].id =>
            ("DELETE_ON_RETRY" \in s[i].flags <=> "DELETE_ON_RETRY" \in st[k].flags)

\* Block k is newer than those below, and a retry has resumed it after its
\* clean-up function was called.
BlockInv(st, k, cl, pu) ==
    /\ st[k].id <= pu
    /\ \A l \in 1..(k - 1) : IsBlock(st[l]) => st[l].id < st[k].id
    /\ st[k].recovered => st[k].id \in Ids(cl)

\* Router r calls the functions of a state that was open below it, and the open
\* ones further out are next.
RouterInv(st, r) ==
    /\ Descending(st[r].next)
    /\ st[r].current \in OpenSet(st, r - 1)
    /\ Ids(st[r].next) = {id \in OpenSet(st, r - 1) : id < st[r].current}
    /\ FlagsAgree(st[r].next, st, r - 1)

\* It is the latest call of the router, and has called no clean-up function yet
\* of the states it goes on to.
CallInv(st, r, cl, ab) ==
    /\ st[r].number <= ab
    /\ \A l \in 1..(r - 1) : IsRouter(st[l]) => st[l].number < st[r].number
    /\ \A i \in 1..Len(cl) : cl[i].number = st[r].number =>
           st[r].current < cl[i].id \/ (st[r].at = "cleanup" /\ st[r].current = cl[i].id)

\* The blocks it has passed are cleaned up or spared.
PassedInv(st, r, cl, sp) ==
    /\ st[r].at = "cleanup" => st[r].current \in Ids(cl)
    /\ \A k \in 1..(r - 1) :
           IsBlock(st[k]) /\ st[r].current < st[k].id => st[k].id \in Ids(cl) \cup sp

FrameInv(st, k, cl, sp, pu, ab) ==
    /\ st[k] \in Frames
    /\ IsBlock(st[k]) => BlockInv(st, k, cl, pu)
    /\ IsRouter(st[k]) => RouterInv(st, k) /\ CallInv(st, k, cl, ab) /\ PassedInv(st, k, cl, sp)

FramesInv(st, n, cl, sp, pu, ab) == \A k \in 1..n : FrameInv(st, k, cl, sp, pu, ab)

ChainInv(st, ch) ==
    /\ ch \in Seq(States)
    /\ Descending(ch)
    /\ Ids(ch) = OpenSet(st, Len(st))
    /\ FlagsAgree(ch, st, Len(st))

\* Each call of the router cleans up innermost states first.
CleanedInv(cl, ab) ==
    /\ cl \in Seq(Calls)
    /\ \A i \in 1..Len(cl) : cl[i].number <= ab
    /\ \A i, j \in 1..Len(cl) : i < j /\ cl[i].number = cl[j].number => cl[i].id > cl[j].id

RecoveryInv ==
    /\ pushes \in Nat /\ abends \in Nat /\ dead \in BOOLEAN
    /\ CleanedInv(cleaned, abends)
    /\ unwound \subseteq spared \cup Ids(cleaned)
    /\ dead \/ /\ stack \in Seq(Frames)
               /\ FramesInv(stack, Len(stack), cleaned, spared, pushes, abends)
               /\ ChainInv(stack, chain)

-----------------------------------------------------------------------------
(* The frames of a stack below the one a step replaces.                    *)

SameBelow(st, st2, n) == \A k \in 1..n : st2[k] = st[k]

LEMMA Kinds ==
    ASSUME NEW f \in Frames
    PROVE  /\ IsBlock(f) => f \in Blocks /\ ~IsRouter(f)
           /\ IsRouter(f) => f \in Routers /\ ~IsBlock(f)
           /\ IsBlock(f) \/ IsRouter(f)
BY DEF Frames, Blocks, Routers, IsBlock, IsRouter

LEMMA OpenSame ==
    ASSUME NEW st, NEW st2, NEW n \in Nat, SameBelow(st, st2, n)
    PROVE  OpenSet(st2, n) = OpenSet(st, n)
<1>1. ASSUME NEW id PROVE OpenAt(st2, n, id) <=> OpenAt(st, n, id)
  <2>1. ASSUME OpenAt(st2, n, id) PROVE OpenAt(st, n, id)
    <3>1. PICK k \in 1..n :
            /\ IsBlock(st2[k]) /\ st2[k].id = id /\ HasState(st2[k])
            /\ \A r \in (k + 1)..n : IsRouter(st2[r]) => id <= st2[r].current
      BY <2>1 DEF OpenAt
    <3>2. st2[k] = st[k] /\ \A r \in (k + 1)..n : st2[r] = st[r]
      BY DEF SameBelow
    <3> QED BY <3>1, <3>2 DEF OpenAt
  <2>2. ASSUME OpenAt(st, n, id) PROVE OpenAt(st2, n, id)
    <3>1. PICK k \in 1..n :
            /\ IsBlock(st[k]) /\ st[k].id = id /\ HasState(st[k])
            /\ \A r \in (k + 1)..n : IsRouter(st[r]) => id <= st[r].current
      BY <2>2 DEF OpenAt
    <3>2. st2[k] = st[k] /\ \A r \in (k + 1)..n : st2[r] = st[r]
      BY DEF SameBelow
    <3> QED BY <3>1, <3>2 DEF OpenAt
  <2> QED BY <2>1, <2>2
<1> QED BY <1>1 DEF OpenSet

\* A block on top.
LEMMA OpenWithBlock ==
    ASSUME NEW st, NEW n \in Nat, IsBlock(st[n + 1]), ~IsRouter(st[n + 1]), st[n + 1].id \in Nat
    PROVE  OpenSet(st, n + 1) =
               OpenSet(st, n) \cup IF HasState(st[n + 1]) THEN {st[n + 1].id} ELSE {}
<1>1. ASSUME NEW id, OpenAt(st, n + 1, id)
      PROVE  OpenAt(st, n, id) \/ (HasState(st[n + 1]) /\ id = st[n + 1].id)
  <2>1. PICK k \in 1..(n + 1) :
            /\ IsBlock(st[k]) /\ st[k].id = id /\ HasState(st[k])
            /\ \A r \in (k + 1)..(n + 1) : IsRouter(st[r]) => id <= st[r].current
    BY <1>1 DEF OpenAt
  <2>2. CASE k = n + 1
    BY <2>1, <2>2
  <2>3. CASE k # n + 1
    <3>1. k \in 1..n /\ \A r \in (k + 1)..n : IsRouter(st[r]) => id <= st[r].current
      BY <2>1, <2>3
    <3> QED BY <2>1, <3>1 DEF OpenAt
  <2> QED BY <2>2, <2>3
<1>2. ASSUME NEW id, OpenAt(st, n, id) PROVE OpenAt(st, n + 1, id)
  <2>1. PICK k \in 1..n :
            /\ IsBlock(st[k]) /\ st[k].id = id /\ HasState(st[k])
            /\ \A r \in (k + 1)..n : IsRouter(st[r]) => id <= st[r].current
    BY <1>2 DEF OpenAt
  <2>2. k \in 1..(n + 1) /\ \A r \in (k + 1)..(n + 1) : r \in (k + 1)..n \/ r = n + 1
    OBVIOUS
  <2>3. \A r \in (k + 1)..(n + 1) : IsRouter(st[r]) => id <= st[r].current
    BY <2>1, <2>2
  <2> QED BY <2>1, <2>2, <2>3 DEF OpenAt
<1>3. ASSUME HasState(st[n + 1]) PROVE OpenAt(st, n + 1, st[n + 1].id)
  <2>1. n + 1 \in 1..(n + 1) /\ ((n + 1) + 1)..(n + 1) = {}
    OBVIOUS
  <2> QED BY <1>3, <2>1 DEF OpenAt
<1> QED BY <1>1, <1>2, <1>3 DEF OpenSet

\* A router on top.
LEMMA OpenWithRouter ==
    ASSUME NEW st, NEW n \in Nat, IsRouter(st[n + 1]), ~IsBlock(st[n + 1])
    PROVE  OpenSet(st, n + 1) = {id \in OpenSet(st, n) : id <= st[n + 1].current}
<1>1. ASSUME NEW id, OpenAt(st, n + 1, id)
      PROVE  OpenAt(st, n, id) /\ id <= st[n + 1].current
  <2>1. PICK k \in 1..(n + 1) :
            /\ IsBlock(st[k]) /\ st[k].id = id /\ HasState(st[k])
            /\ \A r \in (k + 1)..(n + 1) : IsRouter(st[r]) => id <= st[r].current
    BY <1>1 DEF OpenAt
  <2>2. k # n + 1
    BY <2>1
  <2>3. k \in 1..n /\ n + 1 \in (k + 1)..(n + 1)
        /\ \A r \in (k + 1)..n : r \in (k + 1)..(n + 1)
    BY <2>2
  <2> QED BY <2>1, <2>3 DEF OpenAt
<1>2. ASSUME NEW id, OpenAt(st, n, id), id <= st[n + 1].current PROVE OpenAt(st, n + 1, id)
  <2>1. PICK k \in 1..n :
            /\ IsBlock(st[k]) /\ st[k].id = id /\ HasState(st[k])
            /\ \A r \in (k + 1)..n : IsRouter(st[r]) => id <= st[r].current
    BY <1>2 DEF OpenAt
  <2>2. k \in 1..(n + 1) /\ \A r \in (k + 1)..(n + 1) : r \in (k + 1)..n \/ r = n + 1
    OBVIOUS
  <2>3. \A r \in (k + 1)..(n + 1) : IsRouter(st[r]) => id <= st[r].current
    BY <1>2, <2>1, <2>2
  <2> QED BY <2>1, <2>2, <2>3 DEF OpenAt
<1> QED BY <1>1, <1>2 DEF OpenSet

\* Of a stack of blocks with growing ids, cut back to the block of an open id,
\* the same lower ids are open.
Growing(st, n) ==
    \A k, l \in 1..n : l < k /\ IsBlock(st[k]) /\ IsBlock(st[l]) => st[l].id < st[k].id

LEMMA OpenBelow ==
    ASSUME NEW st, NEW n \in Nat, Growing(st, n), NEW b \in 1..n, IsBlock(st[b]),
           \A k \in 1..n : IsBlock(st[k]) => st[k].id \in Nat,
           \A k \in 1..n : IsRouter(st[k]) => st[k].current \in Nat,
           st[b].id \in OpenSet(st, n)
    PROVE  /\ HasState(st[b])
           /\ OpenSet(st, b - 1) = {id \in OpenSet(st, n) : id < st[b].id}
<1> DEFINE cur == st[b].id
<1>1. HasState(st[b]) /\ \A r \in (b + 1)..n : IsRouter(st[r]) => cur <= st[r].current
  <2>1. PICK k \in 1..n :
            /\ IsBlock(st[k]) /\ st[k].id = cur /\ HasState(st[k])
            /\ \A r \in (k + 1)..n : IsRouter(st[r]) => cur <= st[r].current
    BY DEF OpenSet, OpenAt
  <2>2. ~(k < b) /\ ~(b < k)
    BY <2>1 DEF Growing
  <2> QED BY <2>1, <2>2
<1>2. ASSUME NEW id \in Nat, OpenAt(st, b - 1, id) PROVE OpenAt(st, n, id) /\ id < cur
  <2>1. PICK k \in 1..(b - 1) :
            /\ IsBlock(st[k]) /\ st[k].id = id /\ HasState(st[k])
            /\ \A r \in (k + 1)..(b - 1) : IsRouter(st[r]) => id <= st[r].current
    BY <1>2 DEF OpenAt
  <2>2. k \in 1..n /\ k < b
    OBVIOUS
  <2>3. id < cur
    BY <2>1, <2>2 DEF Growing
  <2>4. ASSUME NEW r \in (k + 1)..n, IsRouter(st[r]) PROVE id <= st[r].current
    <3>1. CASE r < b
      BY <2>1, <2>4, <3>1
    <3>2. CASE r > b
      <4>1. cur <= st[r].current /\ st[r].current \in Nat /\ cur \in Nat
        BY <1>1, <2>4, <3>2
      <4> QED BY <2>3, <4>1
    <3>3. CASE r = b
      BY <2>4, <3>3 DEF IsRouter, IsBlock
    <3> QED BY <3>1, <3>2, <3>3
  <2> QED BY <2>1, <2>2, <2>3, <2>4 DEF OpenAt
<1>3. ASSUME NEW id \in Nat, OpenAt(st, n, id), id < cur PROVE OpenAt(st, b - 1, id)
  <2>1. PICK k \in 1..n :
            /\ IsBlock(st[k]) /\ st[k].id = id /\ HasState(st[k])
            /\ \A r \in (k + 1)..n : IsRouter(st[r]) => id <= st[r].current
    BY <1>3 DEF OpenAt
  <2>2. k < b
    <3>1. ~(b < k) /\ k # b
      BY <1>3, <2>1 DEF Growing
    <3> QED BY <3>1
  <2>3. k \in 1..(b - 1) /\ \A r \in (k + 1)..(b - 1) : r \in (k + 1)..n
    BY <2>2
  <2> QED BY <2>1, <2>3 DEF OpenAt
<1> QED BY <1>1, <1>2, <1>3 DEF OpenSet

LEMMA FrameLocal ==
    ASSUME NEW st, NEW st2, NEW n \in Nat, NEW k \in 1..n, SameBelow(st, st2, n),
           NEW cl, NEW sp, NEW pu, NEW ab, FrameInv(st, k, cl, sp, pu, ab)
    PROVE  FrameInv(st2, k, cl, sp, pu, ab)
<1>1. st2[k] = st[k] /\ \A l \in 1..(k - 1) : st2[l] = st[l]
  BY DEF SameBelow
<1>2. OpenSet(st2, k - 1) = OpenSet(st, k - 1)
  <2>1. SameBelow(st, st2, k - 1)
    BY <1>1 DEF SameBelow
  <2> QED BY <2>1, OpenSame
<1>3. IsBlock(st[k]) => BlockInv(st2, k, cl, pu)
  BY <1>1 DEF FrameInv, BlockInv
<1>4. ASSUME IsRouter(st[k])
      PROVE  RouterInv(st2, k) /\ CallInv(st2, k, cl, ab) /\ PassedInv(st2, k, cl, sp)
  <2>1. RouterInv(st, k) /\ CallInv(st, k, cl, ab) /\ PassedInv(st, k, cl, sp)
    BY <1>4 DEF FrameInv
  <2>2. FlagsAgree(st2[k].next, st2, k - 1)
    BY <1>1, <2>1 DEF RouterInv, FlagsAgree
  <2>3. RouterInv(st2, k)
    BY <1>1, <1>2, <2>1, <2>2 DEF RouterInv
  <2>4. CallInv(st2, k, cl, ab)
    BY <1>1, <2>1 DEF CallInv
  <2>5. PassedInv(st2, k, cl, sp)
    BY <1>1, <2>1 DEF PassedInv
  <2> QED BY <2>3, <2>4, <2>5
<1> QED BY <1>1, <1>3, <1>4 DEF FrameInv

LEMMA FramesLocal ==
    ASSUME NEW st, NEW st2, NEW n \in Nat, SameBelow(st, st2, n),
           NEW cl, NEW sp, NEW pu, NEW ab, FramesInv(st, n, cl, sp, pu, ab)
    PROVE  FramesInv(st2, n, cl, sp, pu, ab)
BY FrameLocal DEF FramesInv

\* More is pushed, raised and spared, and one more clean-up function is called,
\* by a router above.
LEMMA FramesGrow ==
    ASSUME NEW st, NEW n \in Nat, NEW cl, NEW sp, NEW pu \in Nat, NEW ab \in Nat,
           FramesInv(st, n, cl, sp, pu, ab),
           NEW cl2, NEW sp2, NEW pu2 \in Nat, NEW ab2 \in Nat,
           sp \subseteq sp2, pu <= pu2, ab <= ab2, Ids(cl) \subseteq Ids(cl2),
           Len(cl2) \in Nat, Len(cl) \in Nat,
           \A i \in 1..Len(cl2) :
               \/ i \in 1..Len(cl) /\ cl2[i] = cl[i]
               \/ \A r \in 1..n : IsRouter(st[r]) => cl2[i].number # st[r].number
    PROVE  FramesInv(st, n, cl2, sp2, pu2, ab2)
<1> SUFFICES ASSUME NEW k \in 1..n PROVE FrameInv(st, k, cl2, sp2, pu2, ab2)
  BY DEF FramesInv
<1>1. FrameInv(st, k, cl, sp, pu, ab)
  BY DEF FramesInv
<1>2. ASSUME IsBlock(st[k]) PROVE BlockInv(st, k, cl2, pu2)
  <2>1. st[k].id \in Nat /\ BlockInv(st, k, cl, pu)
    BY <1>1, <1>2, Kinds DEF FrameInv, Blocks
  <2> QED BY <2>1 DEF BlockInv
<1>3. ASSUME IsRouter(st[k])
      PROVE  RouterInv(st, k) /\ CallInv(st, k, cl2, ab2) /\ PassedInv(st, k, cl2, sp2)
  <2>1. RouterInv(st, k) /\ CallInv(st, k, cl, ab) /\ PassedInv(st, k, cl, sp)
        /\ st[k].number \in Nat
    BY <1>1, <1>3, Kinds DEF FrameInv, Routers
  <2>2. PassedInv(st, k, cl2, sp2)
    BY <2>1 DEF PassedInv
  <2>3. st[k].number <= ab2 /\ \A l \in 1..(k - 1) : IsRouter(st[l]) => st[l].number < st[k].number
    BY <2>1 DEF CallInv
  <2>4. ASSUME NEW i \in 1..Len(cl2), cl2[i].number = st[k].number
        PROVE  st[k].current < cl2[i].id \/ (st[k].at = "cleanup" /\ st[k].current = cl2[i].id)
    <3>1. i \in 1..Len(cl) /\ cl2[i] = cl[i]
      BY <1>3, <2>4
    <3> QED BY <2>1, <2>4, <3>1 DEF CallInv
  <2>5. CallInv(st, k, cl2, ab2)
    BY <2>3, <2>4 DEF CallInv
  <2> QED BY <2>1, <2>2, <2>5
<1> QED BY <1>1, <1>2, <1>3 DEF FrameInv

LEMMA FramesMore ==
    ASSUME NEW st, NEW n \in Nat, NEW cl, NEW sp, NEW pu \in Nat, NEW ab \in Nat,
           FramesInv(st, n, cl, sp, pu, ab), Len(cl) \in Nat,
           NEW sp2, NEW pu2 \in Nat, NEW ab2 \in Nat, sp \subseteq sp2, pu <= pu2, ab <= ab2
    PROVE  FramesInv(st, n, cl, sp2, pu2, ab2)
<1>1. \A i \in 1..Len(cl) :
        \/ i \in 1..Len(cl) /\ cl[i] = cl[i]
        \/ \A r \in 1..n : IsRouter(st[r]) => cl[i].number # st[r].number
  OBVIOUS
<1>2. Ids(cl) \subseteq Ids(cl)
  OBVIOUS
<1> QED BY <1>1, <1>2, FramesGrow

LEMMA FramesBelow ==
    ASSUME NEW st, NEW n \in Nat, NEW m \in 0..n, NEW cl, NEW sp, NEW pu, NEW ab,
           FramesInv(st, n, cl, sp, pu, ab)
    PROVE  FramesInv(st, m, cl, sp, pu, ab)
BY DEF FramesInv

LEMMA FramesGrowing ==
    ASSUME NEW st, NEW n \in Nat, NEW cl, NEW sp, NEW pu, NEW ab, FramesInv(st, n, cl, sp, pu, ab)
    PROVE  /\ Growing(st, n)
           /\ \A k \in 1..n : IsBlock(st[k]) => st[k].id \in Nat
           /\ \A k \in 1..n : IsRouter(st[k]) => st[k].current \in Nat
<1>1. \A k \in 1..n : IsBlock(st[k]) => st[k].id \in Nat
  BY Kinds DEF FramesInv, FrameInv, Blocks
<1>2. \A k \in 1..n : IsRouter(st[k]) => st[k].current \in Nat
  BY Kinds DEF FramesInv, FrameInv, Routers
<1>3. ASSUME NEW k \in 1..n, NEW l \in 1..n, l < k, IsBlock(st[k]), IsBlock(st[l])
      PROVE  st[l].id < st[k].id
  <2>1. BlockInv(st, k, cl, pu) /\ l \in 1..(k - 1)
    BY <1>3 DEF FramesInv, FrameInv
  <2> QED BY <1>3, <2>1 DEF BlockInv
<1> QED BY <1>1, <1>2, <1>3 DEF Growing

\* A block that is not open any more has been cleaned up or spared.
LEMMA NotOpen ==
    ASSUME NEW st, NEW n \in Nat, NEW cl, NEW sp, NEW pu, NEW ab, FramesInv(st, n, cl, sp, pu, ab),
           NEW k \in 1..n, IsBlock(st[k]), ~(st[k].id \in OpenSet(st, n))
    PROVE  st[k].id \in Ids(cl) \cup sp
<1>1. st[k].id \in Nat /\ \A r \in 1..n : IsRouter(st[r]) => st[r].current \in Nat
  BY FramesGrowing
<1>2. CASE ~HasState(st[k])
  <2>1. BlockInv(st, k, cl, pu) /\ st[k].recovered
    BY <1>2 DEF FramesInv, FrameInv, HasState
  <2> QED BY <2>1 DEF BlockInv
<1>3. CASE HasState(st[k])
  <2>1. PICK r \in (k + 1)..n : IsRouter(st[r]) /\ ~(st[k].id <= st[r].current)
    BY <1>1, <1>3 DEF OpenSet, OpenAt
  <2>2. r \in 1..n /\ k \in 1..(r - 1) /\ st[r].current < st[k].id
    BY <1>1, <2>1
  <2>3. PassedInv(st, r, cl, sp)
    BY <2>1, <2>2 DEF FramesInv, FrameInv
  <2> QED BY <2>2, <2>3 DEF PassedInv
<1> QED BY <1>2, <1>3

-----------------------------------------------------------------------------
(* What the router takes of a chain, or of the states next in it.          *)

LEMMA Least ==
    ASSUME NEW T, T \subseteq Nat, T # {}
    PROVE  \E x \in T : \A y \in T : x <= y
<1>1. PICK x \in T : \A y \in T : ~(<<y, x>> \in OpToRel(<, Nat))
  BY WFMin, NatLessThanWellFounded
<1>2. \A y \in T : ~(y < x)
  BY <1>1 DEF OpToRel
<1> QED BY <1>2

Suffix(s, m) == SubSeq(s, m, Len(s))
Prefix(s, m) == SubSeq(s, 1, m - 1)

LEMMA SuffixIs ==
    ASSUME NEW S, NEW s \in Seq(S), NEW m \in 1..Len(s)
    PROVE  /\ Suffix(s, m) \in Seq(S) /\ Len(Suffix(s, m)) = Len(s) - m + 1 /\ Len(s) \in Nat
           /\ \A i \in 1..(Len(s) - m + 1) : Suffix(s, m)[i] = s[m + i - 1]
           /\ Prefix(s, m) \in Seq(S) /\ Len(Prefix(s, m)) = m - 1
           /\ \A i \in 1..(m - 1) : Prefix(s, m)[i] = s[i]
BY DEF Suffix, Prefix

LEMMA TailIs ==
    ASSUME NEW S, NEW s \in Seq(S), s # <<>>
    PROVE  /\ Tail(s) \in Seq(S) /\ Len(Tail(s)) = Len(s) - 1 /\ Len(s) \in Nat /\ Len(s) >= 1
           /\ \A i \in 1..(Len(s) - 1) : Tail(s)[i] = s[i + 1]
OBVIOUS

\* FromEnabled is a suffix, and Removed are the ids of the prefix before it.
LEMMA FromEnabledIs ==
    ASSUME NEW s \in Seq(States)
    PROVE  \/ FromEnabled(s) = <<>> /\ Removed(s) = Ids(s)
           \/ \E m \in 1..Len(s) : FromEnabled(s) = Suffix(s, m) /\ Removed(s) = Ids(Prefix(s, m))
<1> DEFINE enabled == {i \in 1..Len(s) : s[i].enabled}
           m == CHOOSE i \in enabled : \A j \in enabled : i <= j
<1>1. CASE enabled = {}
  <2>1. FromEnabled(s) = <<>>
    BY <1>1 DEF FromEnabled
  <2>2. SubSeq(s, 1, Len(s) - 0) = s
    OBVIOUS
  <2> QED BY <2>1, <2>2 DEF Removed
<1>2. CASE enabled # {}
  <2>1. \E i \in enabled : \A j \in enabled : i <= j
    <3>1. enabled \subseteq Nat
      OBVIOUS
    <3> HIDE DEF enabled
    <3> QED BY <1>2, <3>1, Least
  <2>2. m \in enabled
    BY <2>1, Zenon
  <2>3. FromEnabled(s) = SubSeq(s, m, Len(s))
    BY <1>2, Zenon DEF FromEnabled
  <2>4. m \in 1..Len(s)
    BY <2>2
  <2> HIDE DEF m, enabled
  <2>5. FromEnabled(s) = Suffix(s, m) /\ Len(s) - Len(Suffix(s, m)) = m - 1
    BY <2>3, <2>4, SuffixIs DEF Suffix
  <2>6. Removed(s) = Ids(Prefix(s, m))
    BY <2>5 DEF Removed, Prefix
  <2> QED BY <2>4, <2>5, <2>6
<1> QED BY <1>1, <1>2

LEMMA SuffixIds ==
    ASSUME NEW s \in Seq(States), Descending(s), NEW m \in 1..Len(s)
    PROVE  /\ Suffix(s, m) \in Seq(States) /\ Suffix(s, m) # <<>> /\ Suffix(s, m)[1] = s[m]
           /\ Descending(Suffix(s, m))
           /\ s[m].id \in Ids(s)
           /\ Ids(Suffix(s, m)) = {id \in Ids(s) : id <= s[m].id}
           /\ Ids(Prefix(s, m)) = {id \in Ids(s) : s[m].id < id}
<1> DEFINE t == Suffix(s, m)
           p == Prefix(s, m)
           n == Len(s)
<1>1. /\ t \in Seq(States) /\ Len(t) = n - m + 1 /\ n \in Nat
      /\ \A i \in 1..(n - m + 1) : t[i] = s[m + i - 1]
      /\ p \in Seq(States) /\ Len(p) = m - 1
      /\ \A i \in 1..(m - 1) : p[i] = s[i]
  BY SuffixIs
<1>2. \A i \in 1..n : s[i].id \in Nat
  <2>1. \A i \in 1..n : s[i] \in States
    OBVIOUS
  <2> QED BY <2>1 DEF States
<1> HIDE DEF t, p
<1>3. t # <<>> /\ t[1] = s[m]
  BY <1>1
<1>4. Descending(t)
  <2> SUFFICES ASSUME NEW i \in 1..Len(t), NEW j \in 1..Len(t), i < j PROVE t[i].id > t[j].id
    BY DEF Descending
  <2>1. t[i] = s[m + i - 1] /\ t[j] = s[m + j - 1]
    BY <1>1
  <2>2. m + i - 1 \in 1..n /\ m + j - 1 \in 1..n /\ m + i - 1 < m + j - 1
    BY <1>1
  <2> QED BY <2>1, <2>2 DEF Descending
<1>5. ASSUME NEW id, id \in Ids(t) PROVE id \in Ids(s) /\ id <= s[m].id
  <2>1. PICK i \in 1..Len(t) : t[i].id = id
    BY <1>5 DEF Ids
  <2>2. t[i] = s[m + i - 1] /\ m + i - 1 \in 1..n /\ (i = 1 \/ m < m + i - 1)
    BY <1>1
  <2>3. i # 1 => s[m].id > s[m + i - 1].id
    BY <2>2 DEF Descending
  <2> QED BY <1>2, <2>1, <2>2, <2>3 DEF Ids
<1>6. ASSUME NEW id \in Ids(s), id <= s[m].id PROVE id \in Ids(t)
  <2>1. PICK i \in 1..n : s[i].id = id
    BY DEF Ids
  <2>2. ~(i < m)
    BY <1>2, <1>6, <2>1 DEF Descending
  <2>3. i - m + 1 \in 1..Len(t) /\ m + (i - m + 1) - 1 = i
    BY <1>1, <2>2
  <2>4. t[i - m + 1] = s[i]
    BY <1>1, <2>3
  <2> QED BY <2>1, <2>3, <2>4 DEF Ids
<1>7. ASSUME NEW id, id \in Ids(p) PROVE id \in Ids(s) /\ s[m].id < id
  <2>1. PICK i \in 1..Len(p) : p[i].id = id
    BY <1>7 DEF Ids
  <2>2. p[i] = s[i] /\ i \in 1..n /\ i < m
    BY <1>1
  <2> QED BY <1>2, <2>1, <2>2 DEF Ids, Descending
<1>8. ASSUME NEW id \in Ids(s), s[m].id < id PROVE id \in Ids(p)
  <2>1. PICK i \in 1..n : s[i].id = id
    BY DEF Ids
  <2>2. i < m
    BY <1>2, <1>8, <2>1 DEF Descending
  <2>3. i \in 1..Len(p) /\ p[i] = s[i]
    BY <1>1, <2>2
  <2> QED BY <2>1, <2>3 DEF Ids
<1>9. Ids(t) = {id \in Ids(s) : id <= s[m].id}
  BY <1>5, <1>6
<1>10. Ids(p) = {id \in Ids(s) : s[m].id < id}
  BY <1>7, <1>8
<1> QED BY <1>1, <1>3, <1>4, <1>9, <1>10 DEF t, p, Ids

LEMMA TailIds ==
    ASSUME NEW s \in Seq(States), Descending(s), s # <<>>
    PROVE  /\ Tail(s) \in Seq(States) /\ Descending(Tail(s))
           /\ Ids(Tail(s)) = {id \in Ids(s) : id < s[1].id}
<1> DEFINE t == Tail(s)
           n == Len(s)
<1>1. /\ t \in Seq(States) /\ Len(t) = n - 1 /\ n \in Nat /\ n >= 1
      /\ \A i \in 1..(n - 1) : t[i] = s[i + 1]
  BY TailIs
<1>2. \A i \in 1..n : s[i].id \in Nat
  <2>1. \A i \in 1..n : s[i] \in States
    OBVIOUS
  <2> QED BY <2>1 DEF States
<1> HIDE DEF t
<1>3. Descending(t)
  <2> SUFFICES ASSUME NEW i \in 1..Len(t), NEW j \in 1..Len(t), i < j PROVE t[i].id > t[j].id
    BY DEF Descending
  <2>1. t[i] = s[i + 1] /\ t[j] = s[j + 1] /\ i + 1 \in 1..n /\ j + 1 \in 1..n /\ i + 1 < j + 1
    BY <1>1
  <2> QED BY <2>1 DEF Descending
<1>4. ASSUME NEW id, id \in Ids(t) PROVE id \in Ids(s) /\ id < s[1].id
  <2>1. PICK i \in 1..Len(t) : t[i].id = id
    BY <1>4 DEF Ids
  <2>2. t[i] = s[i + 1] /\ i + 1 \in 1..n /\ 1 \in 1..n /\ 1 < i + 1
    BY <1>1
  <2>3. s[1].id > s[i + 1].id
    BY <2>2 DEF Descending
  <2> QED BY <1>2, <2>1, <2>2, <2>3 DEF Ids
<1>5. ASSUME NEW id \in Ids(s), id < s[1].id PROVE id \in Ids(t)
  <2>1. PICK i \in 1..n : s[i].id = id
    BY DEF Ids
  <2>2. i # 1
    BY <1>1, <1>2, <1>5, <2>1
  <2>3. i - 1 \in 1..Len(t) /\ t[i - 1] = s[i]
    BY <1>1, <2>2
  <2> QED BY <2>1, <2>3 DEF Ids
<1> QED BY <1>1, <1>3, <1>4, <1>5 DEF t

\* What happens to a state in the chain leaves its id and the flag alone.
Resembles(s, t) ==
    /\ t \in Seq(States) /\ Len(t) = Len(s)
    /\ \A i \in 1..Len(s) :
          /\ t[i].id = s[i].id
          /\ "DELETE_ON_RETRY" \in t[i].flags <=> "DELETE_ON_RETRY" \in s[i].flags

LEMMA ResemblesIs ==
    ASSUME NEW s \in Seq(States), NEW t, Resembles(s, t)
    PROVE  /\ Ids(t) = Ids(s)
           /\ Descending(s) => Descending(t)
           /\ \A st, n : FlagsAgree(s, st, n) => FlagsAgree(t, st, n)
<1>1. /\ Len(t) = Len(s)
      /\ \A i \in 1..Len(s) :
            /\ t[i].id = s[i].id
            /\ "DELETE_ON_RETRY" \in t[i].flags <=> "DELETE_ON_RETRY" \in s[i].flags
  BY DEF Resembles
<1>2. Ids(t) = Ids(s)
  BY <1>1 DEF Ids
<1>3. Descending(s) => Descending(t)
  BY <1>1 DEF Descending
<1>4. ASSUME NEW st, NEW n, FlagsAgree(s, st, n) PROVE FlagsAgree(t, st, n)
  BY <1>1, <1>4 DEF FlagsAgree
<1> QED BY <1>2, <1>3, <1>4

LEMMA FlagsOfPart ==
    ASSUME NEW s, NEW t, NEW st, NEW n, NEW m \in Nat, FlagsAgree(s, st, n),
           \A i \in 1..Len(t) : i + m \in 1..Len(s) /\ t[i] = s[i + m]
    PROVE  FlagsAgree(t, st, n)
BY DEF FlagsAgree

LEMMA FlagsOfFewer ==
    ASSUME NEW s, NEW st, NEW st2, NEW n \in Nat, NEW m \in 0..n, FlagsAgree(s, st, n),
           SameBelow(st, st2, m)
    PROVE  FlagsAgree(s, st2, m)
BY DEF FlagsAgree, SameBelow

\* The state the router goes on with is disabled and marked.
Marked(s) == [s EXCEPT ![1].enabled = FALSE, ![1].abended = TRUE]

LEMMA MarkedIs ==
    ASSUME NEW s \in Seq(States), s # <<>>
    PROVE  Resembles(s, Marked(s))
<1> DEFINE t == Marked(s)
           a == [[s[1] EXCEPT !.enabled = FALSE] EXCEPT !.abended = TRUE]
<1>1. s \in [1..Len(s) -> States] /\ Len(s) \in Nat /\ 1 \in 1..Len(s)
  OBVIOUS
<1>2. s[1] \in States
  BY <1>1
<1>3. a \in States /\ a.id = s[1].id /\ a.flags = s[1].flags
  BY <1>2 DEF States
<1>4. t = [i \in 1..Len(s) |-> IF i = 1 THEN a ELSE s[i]]
  <2>1. t = [[s EXCEPT ![1].enabled = FALSE] EXCEPT ![1].abended = TRUE]
    BY DEF Marked
  <2> QED BY <1>1, <2>1
<1> HIDE DEF a, t
<1>5. t \in [1..Len(s) -> States]
  BY <1>1, <1>3, <1>4
<1>6. t \in Seq(States) /\ Len(t) = Len(s)
  BY <1>1, <1>5
<1>7. \A i \in 1..Len(s) : t[i].id = s[i].id /\ t[i].flags = s[i].flags
  BY <1>3, <1>4
<1> QED BY <1>6, <1>7 DEF Resembles, t

-----------------------------------------------------------------------------
(* The loop of the router.                                                 *)

RouterShapes == [kind : {"router"}, number : Nat, mask : SUBSET Signals, current : Nat,
                 next : Seq(States), at : {"", "analysis", "cleanup"}]

\* The frame the router has when it calls the analysis function of rest[1].
Calling(frame, rest) ==
    [frame EXCEPT !.current = rest[1].id, !.next = Tail(rest), !.at = "analysis"]

LEMMA CallingIs ==
    ASSUME NEW frame \in RouterShapes, NEW rest \in Seq(States), rest # <<>>
    PROVE  /\ Calling(frame, rest) \in Routers
           /\ Calling(frame, rest).number = frame.number
           /\ Calling(frame, rest).current = rest[1].id
           /\ Calling(frame, rest).next = Tail(rest)
           /\ Calling(frame, rest).at = "analysis"
<1>1. rest[1].id \in Nat
  <2>1. rest[1] \in States
    OBVIOUS
  <2> QED BY <2>1 DEF States
<1>2. Tail(rest) \in Seq(States)
  BY TailIs
<1> DEFINE t == Tail(rest)
           c == rest[1].id
<1> HIDE DEF t, c
<1> DEFINE f1 == [frame EXCEPT !.current = c]
           f2 == [f1 EXCEPT !.next = t]
           f3 == [f2 EXCEPT !.at = "analysis"]
<1>3. c \in Nat /\ t \in Seq(States)
  BY <1>1, <1>2 DEF c, t
<1>4. f1 \in RouterShapes /\ f1.number = frame.number /\ f1.current = c
  BY <1>3 DEF RouterShapes
<1> HIDE DEF f1
<1>5. f2 \in RouterShapes /\ f2.number = f1.number /\ f2.current = f1.current /\ f2.next = t
  BY <1>3, <1>4 DEF RouterShapes
<1> HIDE DEF f2
<1>6. /\ f3 \in Routers /\ f3.number = f2.number /\ f3.current = f2.current
      /\ f3.next = f2.next /\ f3.at = "analysis"
  BY <1>5 DEF RouterShapes, Routers
<1>7. Calling(frame, rest) = f3
  BY DEF Calling, f1, f2, c, t
<1> QED BY <1>4, <1>5, <1>6, <1>7 DEF c, t

\* The router is to choose among states: they are those of the open blocks up to
\* some block, and the blocks that are newer have been dealt with.
Choice(calls, n, states, number) ==
    /\ states \in Seq(States) /\ Descending(states) /\ FlagsAgree(states, calls, n)
    /\ Ids(states) \subseteq OpenSet(calls, n)
    /\ \A x \in Ids(states), id \in OpenSet(calls, n) : id <= x => id \in Ids(states)
    /\ \A k \in 1..n : IsBlock(calls[k]) =>
           calls[k].id \in Ids(states) \/ calls[k].id \in Ids(cleaned) \cup spared
    /\ \A k \in 1..n : IsRouter(calls[k]) => calls[k].number < number
    /\ \A i \in 1..Len(cleaned) : cleaned[i].number = number =>
           \A x \in Ids(states) : x < cleaned[i].id

\* What holds unless the process has ended.
Live ==
    /\ stack \in Seq(Frames)
    /\ FramesInv(stack, Len(stack), cleaned, spared, pushes, abends)
    /\ ChainInv(stack, chain)

LEMMA RouteStep ==
    ASSUME NEW calls \in Seq(Frames), NEW frame \in RouterShapes, NEW states, NEW n, n = Len(calls),
           FramesInv(calls, n, cleaned, spared, pushes, abends'),
           Choice(calls, n, states, frame.number),
           pushes \in Nat, abends' \in Nat, frame.number <= abends', Len(cleaned) \in Nat,
           UNCHANGED <<pushes, cleaned>>, Route(calls, frame, states)
    PROVE  /\ dead' \in BOOLEAN /\ spared \subseteq spared'
           /\ dead' \/ Live'
<1> DEFINE rest == FromEnabled(states)
<1>1. /\ spared' = spared \cup (Removed(states) \ Ids(cleaned'))
      /\ dead' = (rest = <<>>)
  BY DEF Route
<1>2. n \in Nat /\ states \in Seq(States) /\ Descending(states)
  BY DEF Choice
<1> SUFFICES ASSUME rest # <<>> PROVE Live'
  BY <1>1
<1>3. PICK m \in 1..Len(states) : rest = Suffix(states, m) /\ Removed(states) = Ids(Prefix(states, m))
  BY <1>2, FromEnabledIs
<1> DEFINE cur == states[m].id
           f == Calling(frame, rest)
           t == Tail(rest)
<1>4. /\ rest \in Seq(States) /\ rest[1].id = cur /\ Descending(rest)
      /\ cur \in Ids(states)
      /\ Ids(rest) = {id \in Ids(states) : id <= cur}
      /\ Removed(states) = {id \in Ids(states) : cur < id}
  BY <1>2, <1>3, SuffixIds
<1>5. chain' = Marked(rest) /\ stack' = Append(calls, f)
  BY DEF Route, Marked, Calling
<1>6. /\ f \in Routers /\ f.number = frame.number /\ f.current = cur
      /\ f.next = t /\ f.at = "analysis"
  BY <1>4, CallingIs
<1>7. /\ t \in Seq(States) /\ Descending(t) /\ Ids(t) = {id \in Ids(rest) : id < cur}
  BY <1>4, TailIds
<1>8. FlagsAgree(rest, calls, n) /\ FlagsAgree(t, calls, n)
  <2>1. FlagsAgree(states, calls, n)
    BY DEF Choice
  <2>2. \A i \in 1..Len(rest) : i + (m - 1) \in 1..Len(states) /\ rest[i] = states[i + (m - 1)]
    <3>1. \A i \in 1..(Len(states) - m + 1) : rest[i] = states[m + i - 1]
      BY <1>2, <1>3, SuffixIs
    <3>2. Len(rest) = Len(states) - m + 1 /\ Len(states) \in Nat
      BY <1>2, <1>3, SuffixIs
    <3> HIDE DEF rest
    <3> QED BY <3>1, <3>2
  <2> HIDE DEF rest
  <2>3. FlagsAgree(rest, calls, n)
    <3>1. m - 1 \in Nat
      OBVIOUS
    <3> QED BY <2>1, <2>2, <3>1, FlagsOfPart
  <2>4. \A i \in 1..Len(t) : i + 1 \in 1..Len(rest) /\ t[i] = rest[i + 1]
    BY <1>4, TailIs
  <2> QED BY <2>3, <2>4, FlagsOfPart
<1> HIDE DEF rest, t, f, cur
<1>9. /\ stack' \in Seq(Frames) /\ Len(stack') = n + 1 /\ stack'[n + 1] = f
      /\ SameBelow(calls, stack', n)
  <2>1. f \in Frames
    BY <1>6 DEF Frames
  <2> QED BY <1>5, <2>1, AppendProperties DEF SameBelow
<1>10. IsRouter(f) /\ ~IsBlock(f) /\ f \in Frames /\ cur \in Nat
  BY <1>6, Kinds DEF Routers, Frames, IsRouter, IsBlock
<1>11. OpenSet(stack', n) = OpenSet(calls, n)
  BY <1>2, <1>9, OpenSame
<1>12. OpenSet(stack', n + 1) = {id \in OpenSet(calls, n) : id <= cur}
  BY <1>2, <1>6, <1>9, <1>10, <1>11, OpenWithRouter
<1>13. /\ cur \in OpenSet(calls, n)
       /\ Ids(rest) = {id \in OpenSet(calls, n) : id <= cur}
       /\ Ids(t) = {id \in OpenSet(calls, n) : id < cur}
  <2>1. /\ Ids(states) \subseteq OpenSet(calls, n)
        /\ \A id \in OpenSet(calls, n) : id <= cur => id \in Ids(states)
    BY <1>4 DEF Choice
  <2>2. OpenSet(calls, n) \subseteq Nat
    BY DEF OpenSet
  <2> QED BY <1>4, <1>7, <1>10, <2>1, <2>2
<1>14. ChainInv(stack', chain')
  <2>1. Resembles(rest, chain')
    BY <1>4, <1>5, MarkedIs
  <2>2. FlagsAgree(rest, stack', n + 1)
    BY <1>8, <1>9, <1>10 DEF FlagsAgree, SameBelow
  <2>3. chain' \in Seq(States) /\ Ids(chain') = Ids(rest) /\ Descending(chain')
        /\ FlagsAgree(chain', stack', n + 1)
    BY <1>4, <2>1, <2>2, ResemblesIs DEF Resembles
  <2> QED BY <1>9, <1>12, <1>13, <2>3 DEF ChainInv
<1>15. RouterInv(stack', n + 1)
  <2>1. FlagsAgree(t, stack', n)
    BY <1>8, <1>9 DEF FlagsAgree, SameBelow
  <2>2. (n + 1) - 1 = n
    BY <1>2
  <2> QED BY <1>6, <1>7, <1>9, <1>11, <1>13, <2>1, <2>2 DEF RouterInv
<1>16. CallInv(stack', n + 1, cleaned', abends')
  <2>1. \A l \in 1..((n + 1) - 1) : IsRouter(stack'[l]) => stack'[l].number < f.number
    BY <1>2, <1>6, <1>9 DEF Choice, SameBelow
  <2>2. \A i \in 1..Len(cleaned') : cleaned'[i].number = f.number => cur < cleaned'[i].id
    BY <1>4, <1>6 DEF Choice
  <2> QED BY <1>6, <1>9, <2>1, <2>2 DEF CallInv
<1>17. PassedInv(stack', n + 1, cleaned', spared')
  <2>1. ASSUME NEW k \in 1..n, IsBlock(calls[k]), cur < calls[k].id
        PROVE  calls[k].id \in Ids(cleaned') \cup spared'
    BY <1>1, <1>4, <2>1 DEF Choice
  <2>2. \A k \in 1..((n + 1) - 1) : k \in 1..n /\ stack'[k] = calls[k]
    BY <1>2, <1>9 DEF SameBelow
  <2> QED BY <1>6, <1>9, <2>1, <2>2 DEF PassedInv
<1>18. FramesInv(stack', n, cleaned', spared', pushes', abends')
  <2>1. FramesInv(stack', n, cleaned, spared, pushes, abends')
    BY <1>2, <1>9, FramesLocal
  <2>2. cleaned' = cleaned /\ pushes' = pushes /\ spared \subseteq spared'
    BY <1>1
  <2>3. FramesInv(stack', n, cleaned, spared', pushes, abends')
    <3> DEFINE st == stack'
               ab == abends'
               sp == spared'
    <3>1. FramesInv(st, n, cleaned, spared, pushes, ab) /\ spared \subseteq sp
          /\ ab \in Nat /\ ab <= ab /\ pushes <= pushes
      BY <2>1, <2>2
    <3> HIDE DEF st, ab, sp
    <3>2. FramesInv(st, n, cleaned, sp, pushes, ab)
      BY <1>2, <3>1, FramesMore
    <3> QED BY <3>2 DEF st, ab, sp
  <2> QED BY <2>2, <2>3
<1>19. FramesInv(stack', n + 1, cleaned', spared', pushes', abends')
  <2>1. FrameInv(stack', n + 1, cleaned', spared', pushes', abends')
    BY <1>9, <1>10, <1>15, <1>16, <1>17 DEF FrameInv
  <2>2. \A k \in 1..(n + 1) : k \in 1..n \/ k = n + 1
    BY <1>2
  <2> QED BY <1>18, <2>1, <2>2 DEF FramesInv
<1> QED BY <1>9, <1>14, <1>19 DEF Live
-----------------------------------------------------------------------------
(* The steps.                                                              *)

LEMMA TopIs ==
    ASSUME stack \in Seq(Frames), stack # <<>>
    PROVE  /\ Top = stack[Len(stack)] /\ Top \in Frames
           /\ Len(stack) \in Nat /\ Len(stack) >= 1 /\ Len(stack) - 1 \in Nat
           /\ Front(stack) \in Seq(Frames) /\ Len(Front(stack)) = Len(stack) - 1
           /\ SameBelow(stack, Front(stack), Len(stack) - 1)
<1>1. Len(stack) \in Nat /\ Len(stack) >= 1 /\ Len(stack) - 1 \in Nat
      /\ Len(stack) \in 1..Len(stack)
  OBVIOUS
<1>2. Top = stack[Len(stack)] /\ Top \in Frames
  BY <1>1 DEF Top, Last
<1>3. Front(stack) = SubSeq(stack, 1, Len(stack) - 1)
  BY DEF Front
<1>4. /\ Front(stack) \in Seq(Frames) /\ Len(Front(stack)) = Len(stack) - 1
      /\ \A k \in 1..(Len(stack) - 1) : Front(stack)[k] = stack[k]
  <2> DEFINE m == Len(stack) - 1
             f == SubSeq(stack, 1, m)
  <2>1. m \in Nat /\ m <= Len(stack)
    BY <1>1
  <2> HIDE DEF m
  <2>2. f \in Seq(Frames) /\ Len(f) = m /\ \A k \in 1..m : f[k] = stack[k]
    BY <1>1, <2>1
  <2> QED BY <1>3, <2>2 DEF m
<1> QED BY <1>1, <1>2, <1>4 DEF SameBelow

LEMMA BlockedIs ==
    ASSUME stack \in Seq(Frames)
    PROVE  Blocked \in SUBSET Signals
<1>1. CASE stack = <<>>
  BY <1>1 DEF Blocked
<1>2. CASE stack # <<>>
  <2>1. Top \in Frames
    BY <1>2, TopIs
  <2> QED BY <1>2, <2>1 DEF Blocked, Frames, Blocks, Routers
<1> QED BY <1>1, <1>2

LEMMA OpenIds ==
    ASSUME NEW st, NEW n \in Nat, NEW cl, NEW sp, NEW pu, NEW ab, FramesInv(st, n, cl, sp, pu, ab),
           NEW id \in OpenSet(st, n)
    PROVE  id \in Nat /\ id <= pu /\ \E k \in 1..n : IsBlock(st[k]) /\ st[k].id = id
<1>1. PICK k \in 1..n : IsBlock(st[k]) /\ st[k].id = id
  BY DEF OpenSet, OpenAt
<1>2. id <= pu
  BY <1>1 DEF FramesInv, FrameInv, BlockInv
<1> QED BY <1>1, <1>2 DEF OpenSet

LEMMA ConsIs ==
    ASSUME NEW S, NEW s \in Seq(S), NEW a \in S
    PROVE  /\ <<a>> \o s \in Seq(S) /\ Len(<<a>> \o s) = Len(s) + 1 /\ Len(s) \in Nat
           /\ (<<a>> \o s)[1] = a
           /\ \A i \in 1..Len(s) : (<<a>> \o s)[i + 1] = s[i]
OBVIOUS

LEMMA PushStep ==
    ASSUME RecoveryInv, NEW flags \in Flags, Push(flags)
    PROVE  Live'
<1> DEFINE n == Len(stack)
           b == [kind |-> "block", id |-> pushes + 1, flags |-> flags,
                 recovered |-> FALSE, mask |-> Blocked]
           s == [id |-> pushes + 1, flags |-> flags, enabled |-> "DISABLE" \notin flags,
                 abended |-> FALSE]
<1>1. /\ stack \in Seq(Frames) /\ FramesInv(stack, n, cleaned, spared, pushes, abends)
      /\ ChainInv(stack, chain) /\ pushes \in Nat /\ abends \in Nat /\ n \in Nat
      /\ Len(cleaned) \in Nat
  BY DEF RecoveryInv, Push, CleanedInv
<1>2. /\ pushes' = pushes + 1 /\ chain' = <<s>> \o chain /\ stack' = Append(stack, b)
      /\ cleaned' = cleaned /\ spared' = spared /\ abends' = abends
  BY DEF Push
<1>3. b \in Blocks /\ s \in States
  BY <1>1, BlockedIs DEF Blocks, States, FlagSets
<1>4. b \in Frames /\ IsBlock(b) /\ ~IsRouter(b) /\ HasState(b)
      /\ b.id = pushes + 1 /\ b.flags = flags /\ ~b.recovered
  BY <1>3 DEF Frames, IsBlock, IsRouter, HasState
<1>5. s.id = pushes + 1 /\ s.flags = flags
  OBVIOUS
<1> HIDE DEF b, s
<1>6. /\ stack' \in Seq(Frames) /\ Len(stack') = n + 1 /\ stack'[n + 1] = b
      /\ SameBelow(stack, stack', n)
  BY <1>1, <1>2, <1>4, AppendProperties DEF SameBelow
<1>7. OpenSet(stack', n + 1) = OpenSet(stack, n) \cup {pushes + 1}
  <2>1. OpenSet(stack', n) = OpenSet(stack, n)
    BY <1>1, <1>6, OpenSame
  <2>2. IsBlock(stack'[n + 1]) /\ ~IsRouter(stack'[n + 1]) /\ stack'[n + 1].id = pushes + 1
        /\ HasState(stack'[n + 1]) /\ pushes + 1 \in Nat
    BY <1>1, <1>4, <1>6
  <2> QED BY <1>1, <2>1, <2>2, OpenWithBlock
<1>8. \A id \in OpenSet(stack, n) : id \in Nat /\ id <= pushes
  BY <1>1, OpenIds
<1>9. /\ chain \in Seq(States) /\ Descending(chain) /\ Ids(chain) = OpenSet(stack, n)
      /\ FlagsAgree(chain, stack, n)
  BY <1>1 DEF ChainInv
<1>10. /\ chain' \in Seq(States) /\ Len(chain') = Len(chain) + 1 /\ Len(chain) \in Nat
       /\ chain'[1] = s /\ \A i \in 1..Len(chain) : chain'[i + 1] = chain[i]
  BY <1>2, <1>3, <1>9, ConsIs
<1>11. \A i \in 1..Len(chain') :
         \/ i = 1
         \/ i - 1 \in 1..Len(chain) /\ chain'[i] = chain[i - 1] /\ chain[i - 1].id \in Ids(chain)
  <2> SUFFICES ASSUME NEW i \in 1..Len(chain'), i # 1
               PROVE  i - 1 \in 1..Len(chain) /\ chain'[i] = chain[i - 1]
                      /\ chain[i - 1].id \in Ids(chain)
    OBVIOUS
  <2>1. i - 1 \in 1..Len(chain) /\ (i - 1) + 1 = i
    BY <1>10
  <2> QED BY <1>10, <2>1 DEF Ids
<1>12. Descending(chain')
  <2> SUFFICES ASSUME NEW i \in 1..Len(chain'), NEW j \in 1..Len(chain'), i < j
               PROVE  chain'[i].id > chain'[j].id
    BY DEF Descending
  <2>1. j - 1 \in 1..Len(chain) /\ chain'[j] = chain[j - 1] /\ chain[j - 1].id \in Ids(chain)
    BY <1>10, <1>11
  <2>2. CASE i = 1
    BY <1>1, <1>5, <1>8, <1>9, <1>10, <2>1, <2>2
  <2>3. CASE i # 1
    <3>1. i - 1 \in 1..Len(chain) /\ chain'[i] = chain[i - 1]
      BY <1>11, <2>3
    <3>2. i - 1 < j - 1
      OBVIOUS
    <3> QED BY <1>9, <2>1, <3>1, <3>2 DEF Descending
  <2> QED BY <2>2, <2>3
<1>13. Ids(chain') = Ids(chain) \cup {pushes + 1}
  <2>1. \A i \in 1..Len(chain) : i + 1 \in 1..Len(chain')
    BY <1>10
  <2>2. 1 \in 1..Len(chain')
    BY <1>10
  <2>3. ASSUME NEW id \in Ids(chain) PROVE id \in Ids(chain')
    BY <1>10, <2>1 DEF Ids
  <2>4. pushes + 1 \in Ids(chain')
    BY <1>5, <1>10, <2>2 DEF Ids
  <2>5. ASSUME NEW id \in Ids(chain') PROVE id \in Ids(chain) \cup {pushes + 1}
    BY <1>5, <1>10, <1>11 DEF Ids
  <2> QED BY <2>3, <2>4, <2>5
<1>14. \A k \in 1..n : stack'[k] = stack[k] /\ (IsBlock(stack[k]) => stack[k].id <= pushes)
  BY <1>1, <1>6 DEF SameBelow, FramesInv, FrameInv, BlockInv
<1>15. FlagsAgree(chain', stack', n + 1)
  <2> SUFFICES ASSUME NEW i \in 1..Len(chain'), NEW k \in 1..(n + 1),
                      IsBlock(stack'[k]), stack'[k].id = chain'[i].id
               PROVE  "DELETE_ON_RETRY" \in chain'[i].flags <=>
                          "DELETE_ON_RETRY" \in stack'[k].flags
    BY DEF FlagsAgree
  <2>1. CASE i = 1
    <3>1. k = n + 1
      <4>1. ~(k \in 1..n)
        <5> SUFFICES ASSUME k \in 1..n PROVE FALSE
          OBVIOUS
        <5>1. stack'[k].id <= pushes
          BY <1>14
        <5>2. stack'[k].id = pushes + 1
          BY <1>5, <1>10, <2>1
        <5> QED BY <1>1, <5>1, <5>2
      <4> QED BY <1>1, <4>1
    <3> QED BY <1>4, <1>5, <1>6, <1>10, <2>1, <3>1
  <2>2. CASE i # 1
    <3>1. i - 1 \in 1..Len(chain) /\ chain'[i] = chain[i - 1] /\ chain[i - 1].id \in OpenSet(stack, n)
      BY <1>9, <1>11, <2>2
    <3>2. k \in 1..n
      <4>1. chain'[i].id # pushes + 1
        BY <1>1, <1>8, <3>1
      <4>2. k # n + 1
        BY <1>4, <1>6, <4>1
      <4> QED BY <1>1, <4>2
    <3>3. stack'[k] = stack[k]
      BY <1>14, <3>2
    <3> QED BY <1>9, <3>1, <3>2, <3>3 DEF FlagsAgree
  <2> QED BY <2>1, <2>2
<1>16. ChainInv(stack', chain')
  BY <1>6, <1>7, <1>9, <1>10, <1>12, <1>13, <1>15 DEF ChainInv
<1>17. FramesInv(stack', n, cleaned, spared, pushes + 1, abends)
  <2>1. FramesInv(stack', n, cleaned, spared, pushes, abends)
    BY <1>1, <1>6, FramesLocal
  <2>2. pushes + 1 \in Nat /\ pushes <= pushes + 1 /\ abends <= abends
    BY <1>1
  <2> DEFINE st == stack'
  <2>3. FramesInv(st, n, cleaned, spared, pushes, abends)
    BY <2>1
  <2> HIDE DEF st
  <2>4. FramesInv(st, n, cleaned, spared, pushes + 1, abends)
    BY <1>1, <2>2, <2>3, FramesMore
  <2> QED BY <2>4 DEF st
<1>18. FrameInv(stack', n + 1, cleaned, spared, pushes + 1, abends)
  <2>1. \A l \in 1..((n + 1) - 1) : IsBlock(stack'[l]) => stack'[l].id < pushes + 1
    <3> SUFFICES ASSUME NEW l \in 1..n, IsBlock(stack'[l]) PROVE stack'[l].id < pushes + 1
      BY <1>1
    <3>1. stack'[l].id <= pushes /\ stack'[l].id \in Nat
      <4>1. stack[l].id \in Nat
        BY <1>1, <1>14, FramesGrowing
      <4> QED BY <1>14, <4>1
    <3> QED BY <1>1, <3>1
  <2>2. BlockInv(stack', n + 1, cleaned, pushes + 1)
    BY <1>1, <1>4, <1>6, <2>1 DEF BlockInv
  <2> QED BY <1>4, <1>6, <2>2 DEF FrameInv
<1>19. FramesInv(stack', n + 1, cleaned, spared, pushes + 1, abends)
  <2>1. \A k \in 1..(n + 1) : k \in 1..n \/ k = n + 1
    BY <1>1
  <2> QED BY <1>17, <1>18, <2>1 DEF FramesInv
<1> QED BY <1>2, <1>6, <1>16, <1>19 DEF Live

LEMMA HeadIs ==
    ASSUME NEW s \in Seq(States), Descending(s), NEW x \in Ids(s), \A id \in Ids(s) : id <= x
    PROVE  s # <<>> /\ s[1].id = x
<1>1. PICK i \in 1..Len(s) : s[i].id = x
  BY DEF Ids
<1>2. 1 \in 1..Len(s) /\ s # <<>>
  BY <1>1
<1>3. s[1].id \in Ids(s) /\ s[1] \in States /\ s[i] \in States
  BY <1>2 DEF Ids
<1>4. s[1].id \in Nat /\ x \in Nat /\ s[1].id <= x
  BY <1>1, <1>3 DEF States
<1>5. i # 1 => s[1].id > s[i].id
  BY <1>2 DEF Descending
<1> QED BY <1>1, <1>2, <1>4, <1>5

LEMMA TailFlags ==
    ASSUME NEW s \in Seq(States), s # <<>>, NEW st, NEW n, FlagsAgree(s, st, n)
    PROVE  FlagsAgree(Tail(s), st, n)
<1>1. \A i \in 1..Len(Tail(s)) : i + 1 \in 1..Len(s) /\ Tail(s)[i] = s[i + 1]
  BY TailIs
<1> QED BY <1>1, FlagsOfPart

LEMMA PopStep ==
    ASSUME RecoveryInv, Pop
    PROVE  Live'
<1> DEFINE n == Len(stack)
           m == Len(stack) - 1
<1>1. /\ stack \in Seq(Frames) /\ FramesInv(stack, n, cleaned, spared, pushes, abends)
      /\ ChainInv(stack, chain) /\ stack # <<>>
  BY DEF RecoveryInv, Pop
<1>2. /\ stack' = Front(stack) /\ IsBlock(Top)
      /\ chain' = IF HasState(Top) /\ chain # <<>> THEN Tail(chain) ELSE chain
      /\ cleaned' = cleaned /\ spared' = spared /\ pushes' = pushes /\ abends' = abends
  BY DEF Pop
<1>3. /\ Top = stack[n] /\ Top \in Frames /\ n \in Nat /\ m \in Nat /\ m + 1 = n
      /\ n \in 1..n /\ m \in 0..n
      /\ stack' \in Seq(Frames) /\ Len(stack') = m /\ SameBelow(stack, stack', m)
  BY <1>1, <1>2, TopIs
<1> HIDE DEF n, m
<1>4. ~IsRouter(stack[n]) /\ IsBlock(stack[n]) /\ stack[n].id \in Nat
  BY <1>2, <1>3, Kinds DEF Blocks
<1>5. OpenSet(stack, n) = OpenSet(stack, m) \cup IF HasState(Top) THEN {Top.id} ELSE {}
  BY <1>3, <1>4, OpenWithBlock
<1>6. FramesInv(stack, m, cleaned, spared, pushes, abends)
  BY <1>1, <1>3, FramesBelow
<1>7. \A id \in OpenSet(stack, m) : id \in Nat /\ id < Top.id
  <2> SUFFICES ASSUME NEW id \in OpenSet(stack, m) PROVE id \in Nat /\ id < Top.id
    OBVIOUS
  <2>1. id \in Nat
    BY DEF OpenSet
  <2>2. PICK k \in 1..m : IsBlock(stack[k]) /\ stack[k].id = id
    BY <1>3, <1>6, OpenIds
  <2>3. BlockInv(stack, n, cleaned, pushes)
    BY <1>1, <1>3, <1>4 DEF FramesInv, FrameInv
  <2>4. k \in 1..(n - 1)
    BY <1>3
  <2> QED BY <1>3, <2>1, <2>2, <2>3, <2>4 DEF BlockInv
<1>8. OpenSet(stack', m) = OpenSet(stack, m)
  BY <1>3, OpenSame
<1>9. /\ chain \in Seq(States) /\ Descending(chain) /\ Ids(chain) = OpenSet(stack, n)
      /\ FlagsAgree(chain, stack, n)
  BY <1>1 DEF ChainInv, n
<1>10. FlagsAgree(chain, stack', m)
  BY <1>3, <1>9, FlagsOfFewer
<1>11. ChainInv(stack', chain')
  <2>1. CASE ~HasState(Top)
    <3>1. chain' = chain /\ Ids(chain) = OpenSet(stack', m)
      BY <1>2, <1>5, <1>8, <1>9, <2>1
    <3> QED BY <1>3, <1>9, <1>10, <3>1 DEF ChainInv
  <2>2. CASE HasState(Top)
    <3>1. Top.id \in Ids(chain) /\ Top.id \in Nat /\ \A id \in Ids(chain) : id <= Top.id
      BY <1>3, <1>4, <1>5, <1>7, <1>9, <2>2
    <3>2. chain # <<>> /\ chain[1].id = Top.id
      BY <1>9, <3>1, HeadIs
    <3>3. chain' = Tail(chain)
      BY <1>2, <2>2, <3>2
    <3>4. /\ Tail(chain) \in Seq(States) /\ Descending(Tail(chain))
          /\ Ids(Tail(chain)) = {id \in Ids(chain) : id < Top.id}
      BY <1>9, <3>2, TailIds
    <3>5. Ids(chain') = OpenSet(stack', m)
      <4>1. Ids(chain) = OpenSet(stack, m) \cup {Top.id}
        BY <1>5, <1>9, <2>2
      <4>2. {id \in Ids(chain) : id < Top.id} = OpenSet(stack, m)
        BY <1>7, <3>1, <4>1
      <4>3. Ids(chain') = Ids(Tail(chain))
        BY <3>3
      <4> QED BY <1>8, <3>4, <4>2, <4>3
    <3>6. FlagsAgree(chain', stack', m)
      BY <1>9, <1>10, <3>2, <3>3, TailFlags
    <3> QED BY <1>3, <3>3, <3>4, <3>5, <3>6 DEF ChainInv
  <2> QED BY <2>1, <2>2
<1>12. FramesInv(stack', m, cleaned, spared, pushes, abends)
  BY <1>3, <1>6, FramesLocal
<1> QED BY <1>2, <1>3, <1>11, <1>12 DEF Live

\* The program changes its own state.
LEMMA OwnStateStep ==
    ASSUME RecoveryInv, ~dead, Resembles(chain, chain'),
           UNCHANGED <<stack, pushes, abends, cleaned, spared>>
    PROVE  Live'
<1>1. /\ stack \in Seq(Frames) /\ FramesInv(stack, Len(stack), cleaned, spared, pushes, abends)
      /\ ChainInv(stack, chain)
  BY DEF RecoveryInv
<1>2. chain \in Seq(States) /\ Descending(chain) /\ Ids(chain) = OpenSet(stack, Len(stack))
      /\ FlagsAgree(chain, stack, Len(stack))
  BY <1>1 DEF ChainInv
<1>3. chain' \in Seq(States) /\ Descending(chain') /\ Ids(chain') = OpenSet(stack, Len(stack))
      /\ FlagsAgree(chain', stack, Len(stack))
  BY <1>2, ResemblesIs DEF Resembles
<1>4. ChainInv(stack, chain')
  BY <1>3 DEF ChainInv
<1> QED BY <1>1, <1>4 DEF Live

LEMMA HeadChanged ==
    ASSUME NEW s \in Seq(States), s # <<>>, NEW a \in States, a.id = s[1].id,
           "DELETE_ON_RETRY" \in a.flags <=> "DELETE_ON_RETRY" \in s[1].flags
    PROVE  Resembles(s, [s EXCEPT ![1] = a])
<1> DEFINE t == [s EXCEPT ![1] = a]
<1>1. s \in [1..Len(s) -> States] /\ Len(s) \in Nat /\ 1 \in 1..Len(s)
  OBVIOUS
<1>2. t = [i \in 1..Len(s) |-> IF i = 1 THEN a ELSE s[i]]
  BY <1>1
<1> HIDE DEF t
<1>3. t \in [1..Len(s) -> States]
  BY <1>1, <1>2
<1>4. t \in Seq(States) /\ Len(t) = Len(s)
  BY <1>1, <1>3
<1>5. \A i \in 1..Len(s) :
         /\ t[i].id = s[i].id
         /\ "DELETE_ON_RETRY" \in t[i].flags <=> "DELETE_ON_RETRY" \in s[i].flags
  BY <1>2
<1> QED BY <1>4, <1>5 DEF Resembles, t

LEMMA ChainIs ==
    ASSUME RecoveryInv, ~dead, chain # <<>>
    PROVE  chain \in Seq(States) /\ chain[1] \in States
<1>1. chain \in Seq(States)
  BY DEF RecoveryInv, ChainInv
<1> QED BY <1>1

LEMMA SetRetryStep ==
    ASSUME RecoveryInv, NEW value \in BOOLEAN, SetRetry(value)
    PROVE  Live'
<1> DEFINE x == IF value THEN chain[1].flags \cup {"RETRY"} ELSE chain[1].flags \ {"RETRY"}
           a == [chain[1] EXCEPT !.flags = x]
<1>1. chain \in Seq(States) /\ chain[1] \in States /\ chain # <<>> /\ ~dead
  BY ChainIs DEF SetRetry, OwnState
<1>2. chain[1].flags \in FlagSets
  BY <1>1 DEF States
<1>3. x \in FlagSets /\ ("DELETE_ON_RETRY" \in x <=> "DELETE_ON_RETRY" \in chain[1].flags)
  BY <1>2 DEF FlagSets
<1>4. chain' = [chain EXCEPT ![1] = a]
  BY <1>1 DEF SetRetry
<1> HIDE DEF x
<1>5. a \in States /\ a.id = chain[1].id /\ a.flags = x
  BY <1>1, <1>3 DEF States
<1> HIDE DEF a
<1>6. Resembles(chain, chain')
  BY <1>1, <1>3, <1>4, <1>5, HeadChanged
<1> QED BY <1>1, <1>6, OwnStateStep DEF SetRetry

LEMMA SetEnabledStep ==
    ASSUME RecoveryInv, NEW value \in BOOLEAN, SetEnabled(value)
    PROVE  Live'
<1> DEFINE a == [chain[1] EXCEPT !.enabled = value]
<1>1. chain \in Seq(States) /\ chain[1] \in States /\ chain # <<>> /\ ~dead
  BY ChainIs DEF SetEnabled, OwnState
<1>2. chain' = [chain EXCEPT ![1] = a]
  BY <1>1 DEF SetEnabled
<1>3. a \in States /\ a.id = chain[1].id /\ a.flags = chain[1].flags
  BY <1>1 DEF States
<1> HIDE DEF a
<1>4. Resembles(chain, chain')
  BY <1>1, <1>2, <1>3, HeadChanged
<1> QED BY <1>1, <1>4, OwnStateStep DEF SetEnabled

LEMMA AbendStep ==
    ASSUME RecoveryInv, NEW signal \in Signals, Abend(signal)
    PROVE  /\ abends' = abends + 1 /\ dead' \in BOOLEAN /\ spared \subseteq spared'
           /\ dead' \/ Live'
<1> DEFINE n == Len(stack)
           frame == [kind |-> "router", number |-> abends + 1, mask |-> Blocked \cup {signal},
                     current |-> 0, next |-> <<>>, at |-> ""]
<1>1. /\ stack \in Seq(Frames) /\ FramesInv(stack, n, cleaned, spared, pushes, abends)
      /\ ChainInv(stack, chain) /\ pushes \in Nat /\ abends \in Nat /\ n \in Nat
      /\ Len(cleaned) \in Nat /\ CleanedInv(cleaned, abends)
  <2>1. ~dead
    BY DEF Abend
  <2>2. /\ stack \in Seq(Frames) /\ FramesInv(stack, n, cleaned, spared, pushes, abends)
        /\ ChainInv(stack, chain) /\ pushes \in Nat /\ abends \in Nat
        /\ CleanedInv(cleaned, abends)
    BY <2>1 DEF RecoveryInv
  <2>3. Len(cleaned) \in Nat
    BY <2>2 DEF CleanedInv
  <2> QED BY <2>2, <2>3
<1>2. abends' = abends + 1 /\ pushes' = pushes /\ cleaned' = cleaned
  BY DEF Abend
<1>3. CASE signal \in Blocked
  BY <1>2, <1>3 DEF Abend
<1>4. CASE signal \notin Blocked
  <2>1. Route(stack, frame, chain)
    BY <1>2, <1>4 DEF Abend
  <2>2. frame \in RouterShapes /\ frame.number = abends + 1
    <3>1. Blocked \cup {signal} \in SUBSET Signals
      BY <1>1, BlockedIs
    <3>2. abends + 1 \in Nat /\ 0 \in Nat /\ <<>> \in Seq(States)
      BY <1>1
    <3> QED BY <3>1, <3>2 DEF RouterShapes
  <2> HIDE DEF frame, n
  <2>3. /\ chain \in Seq(States) /\ Descending(chain) /\ Ids(chain) = OpenSet(stack, n)
        /\ FlagsAgree(chain, stack, n)
    BY <1>1 DEF ChainInv, n
  <2>4. \A k \in 1..n : IsBlock(stack[k]) =>
           stack[k].id \in Ids(chain) \/ stack[k].id \in Ids(cleaned) \cup spared
    BY <1>1, <2>3, NotOpen
  <2>5. \A k \in 1..n : IsRouter(stack[k]) => stack[k].number < abends + 1
    <3> SUFFICES ASSUME NEW k \in 1..n, IsRouter(stack[k]) PROVE stack[k].number < abends + 1
      OBVIOUS
    <3>1. stack[k].number <= abends /\ stack[k] \in Frames
      BY <1>1 DEF FramesInv, FrameInv, CallInv
    <3>2. stack[k].number \in Nat
      BY <3>1, Kinds DEF Routers
    <3> QED BY <1>1, <3>1, <3>2
  <2>6. \A i \in 1..Len(cleaned) : cleaned[i].number # abends + 1
    <3> SUFFICES ASSUME NEW i \in 1..Len(cleaned) PROVE cleaned[i].number # abends + 1
      OBVIOUS
    <3>1. cleaned[i].number <= abends
      BY <1>1 DEF CleanedInv
    <3> QED BY <1>1, <3>1
  <2>7. Choice(stack, n, chain, frame.number)
    BY <2>2, <2>3, <2>4, <2>5, <2>6 DEF Choice
  <2>8. FramesInv(stack, n, cleaned, spared, pushes, abends')
    <3>1. abends + 1 \in Nat /\ abends <= abends + 1 /\ pushes <= pushes
      BY <1>1
    <3>2. FramesInv(stack, n, cleaned, spared, pushes, abends + 1)
      BY <1>1, <3>1, FramesMore
    <3> QED BY <1>2, <3>2
  <2>9. abends' \in Nat /\ frame.number <= abends' /\ UNCHANGED <<pushes, cleaned>>
    BY <1>1, <1>2, <2>2
  <2> QED BY <1>1, <1>2, <2>1, <2>2, <2>7, <2>8, <2>9, RouteStep DEF n
<1> QED BY <1>3, <1>4

\* What is known of a router on top.
LEMMA TopRouter ==
    ASSUME RecoveryInv, ~dead, stack # <<>>, IsRouter(Top), NEW n, n = Len(stack)
    PROVE  /\ stack \in Seq(Frames) /\ FramesInv(stack, n, cleaned, spared, pushes, abends)
           /\ Top = stack[n] /\ Top \in Routers /\ n \in Nat /\ n >= 1
           /\ n - 1 \in Nat /\ n - 1 \in 0..n
           /\ FramesInv(stack, n - 1, cleaned, spared, pushes, abends)
           /\ RouterInv(stack, n) /\ CallInv(stack, n, cleaned, abends)
           /\ PassedInv(stack, n, cleaned, spared)
           /\ \A k \in 1..(n - 1) : IsRouter(stack[k]) =>
                  stack[k].number \in Nat /\ stack[k].number < Top.number
<1>1. stack \in Seq(Frames) /\ FramesInv(stack, n, cleaned, spared, pushes, abends)
  BY DEF RecoveryInv
<1>2. Top = stack[n] /\ Top \in Frames /\ n \in Nat /\ n >= 1 /\ n - 1 \in Nat
  BY <1>1, TopIs
<1>3. n \in 1..n /\ n - 1 \in 0..n
  BY <1>2
<1>4. Top \in Routers
  BY <1>2, Kinds
<1>5. /\ RouterInv(stack, n) /\ CallInv(stack, n, cleaned, abends)
      /\ PassedInv(stack, n, cleaned, spared)
  BY <1>1, <1>2, <1>3 DEF FramesInv, FrameInv
<1>6. FramesInv(stack, n - 1, cleaned, spared, pushes, abends)
  BY <1>1, <1>2, <1>3, FramesBelow
<1>7. ASSUME NEW k \in 1..(n - 1), IsRouter(stack[k])
      PROVE  stack[k].number \in Nat /\ stack[k].number < Top.number
  <2>1. stack[k] \in Frames
    BY <1>6 DEF FramesInv, FrameInv
  <2>2. stack[k].number \in Nat
    BY <1>7, <2>1, Kinds DEF Routers
  <2> QED BY <1>2, <1>5, <1>7, <2>2 DEF CallInv
<1> QED BY <1>1, <1>2, <1>3, <1>4, <1>5, <1>6, <1>7

LEMMA GiveUpStep ==
    ASSUME RecoveryInv, GiveUp
    PROVE  dead' \in BOOLEAN /\ spared \subseteq spared' /\ (dead' \/ Live')
<1> DEFINE calls == Front(stack)
           n == Len(stack)
           m == n - 1
           cur == Top.current
<1>1. /\ ~dead /\ stack # <<>> /\ IsRouter(Top) /\ Top.at = "cleanup"
      /\ Route(calls, Top, Top.next)
      /\ pushes' = pushes /\ abends' = abends /\ cleaned' = cleaned
  BY DEF GiveUp
<1>2. /\ stack \in Seq(Frames) /\ FramesInv(stack, n, cleaned, spared, pushes, abends)
      /\ Top = stack[n] /\ Top \in Routers /\ n \in Nat /\ n >= 1 /\ m \in Nat /\ m \in 0..n
      /\ FramesInv(stack, m, cleaned, spared, pushes, abends)
      /\ RouterInv(stack, n) /\ CallInv(stack, n, cleaned, abends)
      /\ PassedInv(stack, n, cleaned, spared)
      /\ \A k \in 1..m : IsRouter(stack[k]) =>
             stack[k].number \in Nat /\ stack[k].number < Top.number
  BY <1>1, TopRouter
<1>3. /\ calls \in Seq(Frames) /\ Len(calls) = m /\ SameBelow(stack, calls, m)
  BY <1>1, <1>2, TopIs
<1>4. pushes \in Nat /\ abends \in Nat /\ CleanedInv(cleaned, abends) /\ Len(cleaned) \in Nat
  BY DEF RecoveryInv, CleanedInv
<1>5. Top \in RouterShapes /\ Top.next \in Seq(States) /\ cur \in Nat
  BY <1>2 DEF Routers, RouterShapes
<1>6. OpenSet(calls, m) = OpenSet(stack, m) /\ OpenSet(stack, m) \subseteq Nat
  BY <1>2, <1>3, OpenSame DEF OpenSet
<1> HIDE DEF calls
<1>7. /\ Descending(Top.next)
      /\ Ids(Top.next) = {id \in OpenSet(stack, m) : id < cur}
      /\ FlagsAgree(Top.next, stack, m)
  BY <1>2 DEF RouterInv
<1>8. FlagsAgree(Top.next, calls, m)
  <2>1. m \in 0..m
    BY <1>2
  <2> QED BY <1>2, <1>3, <1>7, <2>1, FlagsOfFewer
<1>9. ASSUME NEW x \in Ids(Top.next), NEW id \in OpenSet(stack, m), id <= x
      PROVE  id \in Ids(Top.next)
  BY <1>5, <1>6, <1>7, <1>9
<1>10. ASSUME NEW k \in 1..m, IsBlock(stack[k])
       PROVE  stack[k].id \in Ids(Top.next) \/ stack[k].id \in Ids(cleaned) \cup spared
  <2>1. stack[k].id \in Nat
    BY <1>2, <1>10, FramesGrowing
  <2>2. CASE stack[k].id \notin OpenSet(stack, m)
    BY <1>2, <1>10, <2>2, NotOpen
  <2>3. CASE stack[k].id \in OpenSet(stack, m) /\ stack[k].id < cur
    BY <1>7, <2>3
  <2>4. CASE stack[k].id = cur
    BY <1>1, <1>2, <2>4 DEF PassedInv
  <2>5. CASE cur < stack[k].id
    BY <1>2, <1>10, <2>5 DEF PassedInv
  <2> QED BY <1>5, <2>1, <2>2, <2>3, <2>4, <2>5
<1>11. ASSUME NEW i \in 1..Len(cleaned), cleaned[i].number = Top.number, NEW x \in Ids(Top.next)
       PROVE  x < cleaned[i].id
  <2>1. cur < cleaned[i].id \/ cur = cleaned[i].id
    BY <1>2, <1>11 DEF CallInv
  <2>2. cleaned[i].id \in Nat
    <3>1. cleaned \in Seq(Calls)
      BY <1>4 DEF CleanedInv
    <3>2. cleaned[i] \in Calls
      BY <3>1
    <3> QED BY <3>2 DEF Calls
  <2>3. x \in Nat /\ x < cur
    BY <1>6, <1>7
  <2> QED BY <1>5, <2>1, <2>2, <2>3
<1>12. Choice(calls, m, Top.next, Top.number)
  <2>1. Ids(Top.next) \subseteq OpenSet(calls, m)
    BY <1>6, <1>7
  <2>2. \A x \in Ids(Top.next), id \in OpenSet(calls, m) : id <= x => id \in Ids(Top.next)
    BY <1>6, <1>9
  <2>3. \A k \in 1..m : IsBlock(calls[k]) =>
           calls[k].id \in Ids(Top.next) \/ calls[k].id \in Ids(cleaned) \cup spared
    BY <1>3, <1>10 DEF SameBelow
  <2>4. \A k \in 1..m : IsRouter(calls[k]) => calls[k].number < Top.number
    BY <1>2, <1>3 DEF SameBelow
  <2>5. \A i \in 1..Len(cleaned) : cleaned[i].number = Top.number =>
           \A x \in Ids(Top.next) : x < cleaned[i].id
    BY <1>11
  <2> QED BY <1>5, <1>7, <1>8, <2>1, <2>2, <2>3, <2>4, <2>5 DEF Choice
<1>13. FramesInv(calls, m, cleaned, spared, pushes, abends')
  <2>1. FramesInv(calls, m, cleaned, spared, pushes, abends)
    BY <1>2, <1>3, FramesLocal
  <2> QED BY <1>1, <2>1
<1>14. Top.number <= abends' /\ abends' \in Nat /\ UNCHANGED <<pushes, cleaned>>
  BY <1>1, <1>2, <1>4 DEF CallInv
<1> HIDE DEF m
<1> QED BY <1>1, <1>3, <1>4, <1>5, <1>12, <1>13, <1>14, RouteStep

\* The frame on top of a part of the stack is changed.
LEMMA TopChanged ==
    ASSUME NEW s \in Seq(Frames), NEW b \in 1..Len(s), NEW g \in Frames, NEW t,
           t = [SubSeq(s, 1, b) EXCEPT ![b] = g]
    PROVE  t \in Seq(Frames) /\ Len(t) = b /\ t[b] = g /\ SameBelow(s, t, b - 1)
<1> DEFINE u == SubSeq(s, 1, b)
<1>1. b \in Nat /\ b <= Len(s)
  OBVIOUS
<1>2. u \in Seq(Frames) /\ Len(u) = b /\ \A k \in 1..b : u[k] = s[k]
  BY <1>1
<1> HIDE DEF u
<1>3. u \in [1..b -> Frames]
  <2>1. u \in [1..Len(u) -> Frames]
    BY <1>2
  <2> QED BY <1>2, <2>1
<1>4. t = [k \in 1..b |-> IF k = b THEN g ELSE u[k]]
  BY <1>3 DEF u
<1>5. t \in [1..b -> Frames]
  BY <1>3, <1>4
<1>6. t \in Seq(Frames) /\ Len(t) = b
  BY <1>1, <1>5
<1> QED BY <1>1, <1>2, <1>4, <1>6 DEF SameBelow

LEMMA AnalysisReturnsStep ==
    ASSUME RecoveryInv, AnalysisReturns
    PROVE  Live' /\ CleanedInv(cleaned', abends') /\ Ids(cleaned) \subseteq Ids(cleaned')
<1> DEFINE n == Len(stack)
           m == n - 1
           cur == Top.current
           g == [Top EXCEPT !.at = "cleanup"]
           c == [id |-> Top.current, number |-> Top.number]
<1>1. /\ ~dead /\ stack # <<>> /\ IsRouter(Top) /\ Top.at = "analysis"
      /\ stack' = [stack EXCEPT ![n].at = "cleanup"] /\ cleaned' = Append(cleaned, c)
      /\ chain' = chain /\ pushes' = pushes /\ abends' = abends /\ spared' = spared
  BY DEF AnalysisReturns
<1>2. /\ stack \in Seq(Frames) /\ FramesInv(stack, n, cleaned, spared, pushes, abends)
      /\ Top = stack[n] /\ Top \in Routers /\ n \in Nat /\ n >= 1 /\ m \in Nat /\ m \in 0..n
      /\ FramesInv(stack, m, cleaned, spared, pushes, abends)
      /\ RouterInv(stack, n) /\ CallInv(stack, n, cleaned, abends)
      /\ PassedInv(stack, n, cleaned, spared)
      /\ \A k \in 1..m : IsRouter(stack[k]) =>
             stack[k].number \in Nat /\ stack[k].number < Top.number
  BY <1>1, TopRouter
<1>3. /\ pushes \in Nat /\ abends \in Nat /\ CleanedInv(cleaned, abends)
      /\ ChainInv(stack, chain)
  BY <1>1 DEF RecoveryInv
<1>4. /\ g \in Routers /\ g.number = Top.number /\ g.current = cur /\ g.next = Top.next
      /\ g.at = "cleanup"
  BY <1>2 DEF Routers
<1>5. g \in Frames /\ IsRouter(g) /\ ~IsBlock(g)
  BY <1>4, Kinds DEF Routers, Frames, IsRouter, IsBlock
<1>6. c \in Calls /\ c.id = cur /\ c.number = Top.number /\ cur \in Nat /\ Top.number \in Nat
  BY <1>2 DEF Calls, Routers
<1>7. stack' = [SubSeq(stack, 1, n) EXCEPT ![n] = g]
  <2>1. SubSeq(stack, 1, n) = stack
    BY <1>2
  <2>2. [stack EXCEPT ![n].at = "cleanup"] = [stack EXCEPT ![n] = g]
    BY <1>2
  <2> QED BY <1>1, <2>1, <2>2
<1> HIDE DEF g, c
<1>8. stack' \in Seq(Frames) /\ Len(stack') = n /\ stack'[n] = g /\ SameBelow(stack, stack', m)
  <2>1. n \in 1..Len(stack)
    BY <1>2
  <2> QED BY <1>2, <1>5, <1>7, <2>1, TopChanged
<1>9. cleaned \in Seq(Calls) /\ Len(cleaned) \in Nat
  BY <1>3 DEF CleanedInv
<1>10. /\ cleaned' \in Seq(Calls) /\ Len(cleaned') = Len(cleaned) + 1
       /\ cleaned'[Len(cleaned) + 1] = c /\ \A i \in 1..Len(cleaned) : cleaned'[i] = cleaned[i]
  BY <1>1, <1>6, <1>9, AppendProperties
<1>11. \A i \in 1..Len(cleaned') :
          \/ i \in 1..Len(cleaned) /\ cleaned'[i] = cleaned[i]
          \/ i = Len(cleaned) + 1 /\ cleaned'[i] = c
  BY <1>9, <1>10
<1>12. Ids(cleaned) \subseteq Ids(cleaned') /\ cur \in Ids(cleaned')
  <2>1. \A i \in 1..Len(cleaned) : i \in 1..Len(cleaned')
    BY <1>9, <1>10
  <2>2. Len(cleaned) + 1 \in 1..Len(cleaned')
    BY <1>9, <1>10
  <2>3. Ids(cleaned) \subseteq Ids(cleaned')
    BY <1>10, <2>1 DEF Ids
  <2>4. cur \in Ids(cleaned')
    BY <1>6, <1>10, <2>2 DEF Ids
  <2> QED BY <2>3, <2>4
<1>13. \A i \in 1..Len(cleaned) : cleaned[i].number = Top.number => cleaned[i].id > cur
  <2> SUFFICES ASSUME NEW i \in 1..Len(cleaned), cleaned[i].number = Top.number
               PROVE  cur < cleaned[i].id /\ cleaned[i].id \in Nat
    BY <1>6
  <2>1. cleaned[i] \in Calls
    BY <1>9
  <2>2. cur < cleaned[i].id
    BY <1>1, <1>2 DEF CallInv
  <2> QED BY <2>1, <2>2 DEF Calls
<1>14. CleanedInv(cleaned', abends')
  <2>1. \A i \in 1..Len(cleaned') : cleaned'[i].number <= abends
    BY <1>2, <1>3, <1>6, <1>11 DEF CleanedInv, CallInv
  <2>2. ASSUME NEW i \in 1..Len(cleaned'), NEW j \in 1..Len(cleaned'), i < j,
               cleaned'[i].number = cleaned'[j].number
        PROVE  cleaned'[i].id > cleaned'[j].id
    <3>1. i \in 1..Len(cleaned) /\ cleaned'[i] = cleaned[i]
      BY <1>9, <1>10, <2>2
    <3>2. CASE j \in 1..Len(cleaned)
      <4>1. cleaned'[j] = cleaned[j]
        BY <1>10, <3>2
      <4> QED BY <1>3, <2>2, <3>1, <3>2, <4>1 DEF CleanedInv
    <3>3. CASE cleaned'[j] = c
      BY <1>6, <1>13, <2>2, <3>1, <3>3
    <3> QED BY <1>11, <3>2, <3>3
  <2> QED BY <1>1, <1>10, <2>1, <2>2 DEF CleanedInv
<1>15. FramesInv(stack', m, cleaned', spared, pushes, abends)
  <2> DEFINE st == stack'
             cl == cleaned'
  <2>1. FramesInv(st, m, cleaned, spared, pushes, abends)
    BY <1>2, <1>8, FramesLocal
  <2>2. \A i \in 1..Len(cl) :
          \/ i \in 1..Len(cleaned) /\ cl[i] = cleaned[i]
          \/ \A r \in 1..m : IsRouter(st[r]) => cl[i].number # st[r].number
    <3>1. \A r \in 1..m : IsRouter(st[r]) => c.number # st[r].number
      BY <1>2, <1>6, <1>8 DEF SameBelow
    <3> QED BY <1>11, <3>1
  <2>3. Len(cl) \in Nat /\ Ids(cleaned) \subseteq Ids(cl) /\ spared \subseteq spared
        /\ pushes <= pushes /\ abends <= abends
    BY <1>3, <1>9, <1>10, <1>12
  <2> HIDE DEF st, cl, m
  <2>4. FramesInv(st, m, cl, spared, pushes, abends)
    BY <1>2, <1>3, <1>9, <2>1, <2>2, <2>3, FramesGrow
  <2> QED BY <2>4 DEF st, cl
<1>16. OpenSet(stack', m) = OpenSet(stack, m)
  BY <1>2, <1>8, OpenSame
<1>17. RouterInv(stack', n)
  <2>1. FlagsAgree(Top.next, stack, m)
    BY <1>2 DEF RouterInv
  <2>2. FlagsAgree(Top.next, stack', m)
    <3>1. m \in 0..m
      BY <1>2
    <3> QED BY <1>2, <1>8, <2>1, <3>1, FlagsOfFewer
  <2> QED BY <1>2, <1>4, <1>8, <1>16, <2>2 DEF RouterInv
<1>18. CallInv(stack', n, cleaned', abends)
  <2>1. \A l \in 1..(n - 1) : IsRouter(stack'[l]) => stack'[l].number < g.number
    BY <1>2, <1>4, <1>8 DEF SameBelow
  <2>2. ASSUME NEW i \in 1..Len(cleaned'), cleaned'[i].number = g.number
        PROVE  g.current < cleaned'[i].id \/ (g.at = "cleanup" /\ g.current = cleaned'[i].id)
    <3>1. CASE cleaned'[i] = c
      BY <1>4, <1>6, <3>1
    <3>2. CASE i \in 1..Len(cleaned) /\ cleaned'[i] = cleaned[i]
      <4>1. cleaned[i].number = Top.number
        BY <1>4, <2>2, <3>2
      <4>2. cur < cleaned[i].id
        BY <1>1, <1>2, <3>2, <4>1 DEF CallInv
      <4> QED BY <1>4, <3>2, <4>2
    <3> QED BY <1>11, <3>1, <3>2
  <2>3. g.number <= abends
    BY <1>2, <1>4 DEF CallInv
  <2> QED BY <1>8, <2>1, <2>2, <2>3 DEF CallInv
<1>19. PassedInv(stack', n, cleaned', spared)
  <2>1. \A k \in 1..(n - 1) :
           IsBlock(stack'[k]) /\ g.current < stack'[k].id => stack'[k].id \in Ids(cleaned') \cup spared
    BY <1>2, <1>4, <1>8, <1>12 DEF SameBelow, PassedInv
  <2> QED BY <1>4, <1>8, <1>12, <2>1 DEF PassedInv
<1>20. FramesInv(stack', n, cleaned', spared, pushes, abends)
  <2>1. FrameInv(stack', n, cleaned', spared, pushes, abends)
    BY <1>5, <1>8, <1>17, <1>18, <1>19 DEF FrameInv
  <2>2. \A k \in 1..n : k \in 1..m \/ k = n
    BY <1>2
  <2> QED BY <1>15, <2>1, <2>2 DEF FramesInv
<1>21. ChainInv(stack', chain)
  <2>1. m + 1 = n /\ IsRouter(stack[n]) /\ ~IsBlock(stack[n])
    BY <1>1, <1>2 DEF IsRouter, IsBlock
  <2>2. /\ IsRouter(stack[m + 1]) /\ ~IsBlock(stack[m + 1]) /\ stack[m + 1].current = cur
        /\ IsRouter(stack'[m + 1]) /\ ~IsBlock(stack'[m + 1]) /\ stack'[m + 1].current = cur
    BY <1>2, <1>4, <1>5, <1>8, <2>1
  <2>3. /\ OpenSet(stack, n) = {id \in OpenSet(stack, m) : id <= cur}
        /\ OpenSet(stack', n) = {id \in OpenSet(stack', m) : id <= cur}
    <3>1. m \in Nat
      BY <1>2
    <3> HIDE DEF m, cur
    <3>2. OpenSet(stack, m + 1) = {id \in OpenSet(stack, m) : id <= cur}
      BY <2>2, <3>1, OpenWithRouter
    <3>3. OpenSet(stack', m + 1) = {id \in OpenSet(stack', m) : id <= cur}
      BY <2>2, <3>1, OpenWithRouter
    <3> QED BY <2>1, <3>2, <3>3
  <2>4. /\ chain \in Seq(States) /\ Descending(chain) /\ Ids(chain) = OpenSet(stack, n)
        /\ FlagsAgree(chain, stack, n)
    BY <1>3 DEF ChainInv
  <2>5. \A k \in 1..n : IsBlock(stack'[k]) => k \in 1..m /\ stack'[k] = stack[k]
    BY <1>2, <1>5, <1>8 DEF SameBelow
  <2>6. FlagsAgree(chain, stack', n)
    BY <2>4, <2>5 DEF FlagsAgree
  <2> QED BY <1>8, <1>16, <2>3, <2>4, <2>6 DEF ChainInv
<1> QED BY <1>1, <1>8, <1>12, <1>14, <1>20, <1>21 DEF Live

LEMMA RetryStep ==
    ASSUME RecoveryInv, Retry
    PROVE  Live' /\ unwound' \subseteq spared \cup Ids(cleaned)
<1> DEFINE n == Len(stack)
           m == n - 1
           cur == Top.current
           b == CHOOSE i \in 1..n : IsBlock(stack[i]) /\ stack[i].id = cur
           g == [stack[b] EXCEPT !.recovered = TRUE]
           cut == {stack[i].id : i \in {i \in (b + 1)..n : IsBlock(stack[i])}}
<1>1. /\ ~dead /\ stack # <<>> /\ IsRouter(Top) /\ Top.at = "cleanup"
      /\ stack' = [SubSeq(stack, 1, b) EXCEPT ![b].recovered = TRUE]
      /\ chain' = IF "DELETE_ON_RETRY" \in Latest.flags THEN Tail(chain) ELSE chain
      /\ unwound' = unwound \cup cut
      /\ pushes' = pushes /\ abends' = abends /\ cleaned' = cleaned /\ spared' = spared
  BY DEF Retry
<1>2. /\ stack \in Seq(Frames) /\ FramesInv(stack, n, cleaned, spared, pushes, abends)
      /\ Top = stack[n] /\ Top \in Routers /\ n \in Nat /\ n >= 1 /\ m \in Nat /\ m \in 0..n
      /\ FramesInv(stack, m, cleaned, spared, pushes, abends)
      /\ RouterInv(stack, n) /\ PassedInv(stack, n, cleaned, spared)
  BY <1>1, TopRouter
<1>3. /\ pushes \in Nat /\ unwound \subseteq spared \cup Ids(cleaned)
      /\ ChainInv(stack, chain) /\ cur \in Nat
  BY <1>1, <1>2 DEF RecoveryInv, Routers
<1>4. m + 1 = n /\ IsRouter(stack[m + 1]) /\ ~IsBlock(stack[m + 1]) /\ stack[m + 1].current = cur
  BY <1>1, <1>2 DEF IsRouter, IsBlock
<1>5. cur \in OpenSet(stack, m)
  BY <1>2 DEF RouterInv
<1>6. b \in 1..m /\ IsBlock(stack[b]) /\ stack[b].id = cur
  <2>1. \E i \in 1..n : IsBlock(stack[i]) /\ stack[i].id = cur
    <3>1. PICK k \in 1..m : IsBlock(stack[k]) /\ stack[k].id = cur
      BY <1>2, <1>5, OpenIds
    <3>2. k \in 1..n
      BY <1>2
    <3> QED BY <3>1, <3>2
  <2>2. b \in 1..n /\ IsBlock(stack[b]) /\ stack[b].id = cur
    BY <2>1, Zenon
  <2>3. b # n
    BY <1>4, <2>2
  <2> HIDE DEF b
  <2> QED BY <1>2, <2>2, <2>3
<1>7. b \in Nat /\ b \in 1..n /\ b - 1 \in Nat /\ b - 1 \in 0..m /\ b <= m
  <2> HIDE DEF b
  <2> QED BY <1>2, <1>6
<1> HIDE DEF b
<1>8. stack[b] \in Blocks
  <2>1. stack[b] \in Frames
    BY <1>2, <1>7
  <2> QED BY <1>6, <2>1, Kinds
<1>9. g \in Blocks /\ g.id = cur /\ g.flags = stack[b].flags /\ g.recovered
  BY <1>6, <1>8 DEF Blocks
<1>10. g \in Frames /\ IsBlock(g) /\ ~IsRouter(g)
  BY <1>9, Kinds DEF Blocks, Frames, IsBlock
<1>11. stack' = [SubSeq(stack, 1, b) EXCEPT ![b] = g]
  <2>1. SubSeq(stack, 1, b)[b] = stack[b]
    BY <1>2, <1>7
  <2> QED BY <1>1, <2>1
<1> HIDE DEF g
<1>12. stack' \in Seq(Frames) /\ Len(stack') = b /\ stack'[b] = g /\ SameBelow(stack, stack', b - 1)
  BY <1>2, <1>7, <1>10, <1>11, TopChanged
<1>13. /\ Growing(stack, m)
       /\ \A k \in 1..m : IsBlock(stack[k]) => stack[k].id \in Nat
       /\ \A k \in 1..m : IsRouter(stack[k]) => stack[k].current \in Nat
  BY <1>2, FramesGrowing
<1> HIDE DEF m, n, cur
<1>14. HasState(stack[b]) /\ OpenSet(stack, b - 1) = {id \in OpenSet(stack, m) : id < cur}
  BY <1>2, <1>5, <1>6, <1>13, OpenBelow
<1>15. OpenSet(stack, n) = {id \in OpenSet(stack, m) : id <= cur}
  <2>1. OpenSet(stack, m + 1) = {id \in OpenSet(stack, m) : id <= cur}
    BY <1>2, <1>4, OpenWithRouter
  <2> QED BY <1>4, <2>1
<1>16. /\ chain \in Seq(States) /\ Descending(chain) /\ Ids(chain) = OpenSet(stack, n)
       /\ FlagsAgree(chain, stack, n)
  BY <1>3 DEF ChainInv, n
<1>17. chain # <<>> /\ chain[1].id = cur /\ Latest = chain[1]
  <2>1. cur \in Ids(chain) /\ \A id \in Ids(chain) : id <= cur
    BY <1>3, <1>5, <1>15, <1>16
  <2>2. chain # <<>> /\ chain[1].id = cur
    BY <1>16, <2>1, HeadIs
  <2> QED BY <2>2 DEF Latest
<1>18. "DELETE_ON_RETRY" \in chain[1].flags <=> "DELETE_ON_RETRY" \in g.flags
  <2>1. 1 \in 1..Len(chain)
    BY <1>16, <1>17
  <2> QED BY <1>6, <1>7, <1>9, <1>16, <1>17, <2>1 DEF FlagsAgree
<1>19. OpenSet(stack', b) =
          OpenSet(stack, b - 1) \cup IF HasState(g) THEN {cur} ELSE {}
  <2>1. OpenSet(stack', b - 1) = OpenSet(stack, b - 1)
    BY <1>7, <1>12, OpenSame
  <2>2. (b - 1) + 1 = b
    BY <1>7
  <2>3. IsBlock(stack'[(b - 1) + 1]) /\ ~IsRouter(stack'[(b - 1) + 1])
        /\ stack'[(b - 1) + 1].id = cur /\ stack'[(b - 1) + 1] = g
    BY <1>9, <1>10, <1>12, <2>2
  <2>4. OpenSet(stack', (b - 1) + 1) =
          OpenSet(stack', b - 1) \cup IF HasState(g) THEN {cur} ELSE {}
    BY <1>3, <1>7, <2>3, OpenWithBlock
  <2> QED BY <2>1, <2>2, <2>4
<1>20. \A k \in 1..b : stack'[k].id = stack[k].id /\ stack'[k].flags = stack[k].flags
                       /\ (IsBlock(stack'[k]) => IsBlock(stack[k]))
  <2> SUFFICES ASSUME NEW k \in 1..b
               PROVE  stack'[k].id = stack[k].id /\ stack'[k].flags = stack[k].flags
                      /\ (IsBlock(stack'[k]) => IsBlock(stack[k]))
    OBVIOUS
  <2>1. CASE k = b
    BY <1>6, <1>9, <1>12, <2>1
  <2>2. CASE k # b
    <3>1. k \in 1..(b - 1)
      BY <1>7, <2>2
    <3>2. stack'[k] = stack[k]
      BY <1>12, <3>1 DEF SameBelow
    <3> QED BY <3>2
  <2> QED BY <2>1, <2>2
<1>21. FlagsAgree(chain, stack', b)
  <2>1. \A k \in 1..b : k \in 1..n
    BY <1>2, <1>7
  <2> QED BY <1>16, <1>20, <2>1 DEF FlagsAgree
<1>22. ChainInv(stack', chain')
  <2>1. CASE "DELETE_ON_RETRY" \in chain[1].flags
    <3>1. chain' = Tail(chain) /\ ~HasState(g)
      BY <1>1, <1>9, <1>17, <1>18, <2>1 DEF HasState
    <3>2. /\ Tail(chain) \in Seq(States) /\ Descending(Tail(chain))
          /\ Ids(Tail(chain)) = {id \in Ids(chain) : id < cur}
      BY <1>16, <1>17, TailIds
    <3>3. OpenSet(stack', b) = OpenSet(stack, b - 1)
      BY <1>19, <3>1
    <3>4. {id \in OpenSet(stack, n) : id < cur} = {id \in OpenSet(stack, m) : id < cur}
      <4>1. OpenSet(stack, m) \subseteq Nat
        BY DEF OpenSet
      <4> QED BY <1>3, <1>15, <4>1
    <3>5. Ids(chain') = OpenSet(stack', b)
      BY <1>14, <1>16, <3>1, <3>2, <3>3, <3>4
    <3>6. FlagsAgree(chain', stack', b)
      BY <1>16, <1>17, <1>21, <3>1, TailFlags
    <3> QED BY <1>12, <3>1, <3>2, <3>5, <3>6 DEF ChainInv
  <2>2. CASE ~("DELETE_ON_RETRY" \in chain[1].flags)
    <3>1. chain' = chain /\ HasState(g)
      BY <1>1, <1>17, <1>18, <2>2 DEF HasState
    <3>2. OpenSet(stack', b) = OpenSet(stack, b - 1) \cup {cur}
      BY <1>19, <3>1
    <3>3. {id \in OpenSet(stack, m) : id < cur} \cup {cur} = {id \in OpenSet(stack, m) : id <= cur}
      <4>1. OpenSet(stack, m) \subseteq Nat
        BY DEF OpenSet
      <4> QED BY <1>3, <1>5, <4>1
    <3>4. Ids(chain) = OpenSet(stack', b)
      BY <1>14, <1>15, <1>16, <3>2, <3>3
    <3> QED BY <1>12, <1>16, <1>21, <3>1, <3>4 DEF ChainInv
  <2> QED BY <2>1, <2>2
<1>23. FramesInv(stack', b - 1, cleaned, spared, pushes, abends)
  <2>1. FramesInv(stack, b - 1, cleaned, spared, pushes, abends)
    BY <1>2, <1>7, FramesBelow
  <2> QED BY <1>7, <1>12, <2>1, FramesLocal
<1>24. FrameInv(stack', b, cleaned, spared, pushes, abends)
  <2>1. BlockInv(stack, b, cleaned, pushes)
    BY <1>2, <1>6 DEF FramesInv, FrameInv
  <2>2. cur \in Ids(cleaned)
    BY <1>1, <1>2 DEF PassedInv, cur
  <2>3. \A l \in 1..(b - 1) : IsBlock(stack'[l]) => stack'[l].id < cur
    BY <1>6, <1>12, <2>1 DEF BlockInv, SameBelow
  <2>4. BlockInv(stack', b, cleaned, pushes)
    BY <1>6, <1>9, <1>12, <2>1, <2>2, <2>3 DEF BlockInv
  <2> QED BY <1>10, <1>12, <2>4 DEF FrameInv
<1>25. FramesInv(stack', b, cleaned, spared, pushes, abends)
  <2>1. \A k \in 1..b : k \in 1..(b - 1) \/ k = b
    BY <1>7
  <2> QED BY <1>23, <1>24, <2>1 DEF FramesInv
<1>26. cut \subseteq spared \cup Ids(cleaned)
  <2> SUFFICES ASSUME NEW i \in (b + 1)..n, IsBlock(stack[i])
               PROVE  stack[i].id \in spared \cup Ids(cleaned)
    OBVIOUS
  <2>1. i # n
    BY <1>4
  <2>2. i \in 1..m /\ b < i
    BY <1>2, <1>4, <1>7, <2>1
  <2>3. cur < stack[i].id
    BY <1>6, <1>13, <2>2 DEF Growing
  <2>4. m = n - 1 /\ stack[n].current = cur
    BY <1>2, <1>4
  <2> QED BY <1>2, <2>2, <2>3, <2>4 DEF PassedInv
<1> QED BY <1>1, <1>3, <1>12, <1>22, <1>25, <1>26 DEF Live

LEMMA RecoveryInvInit == RecoveryInit => RecoveryInv
<1> SUFFICES ASSUME RecoveryInit PROVE RecoveryInv
  OBVIOUS
<1>1. /\ stack = <<>> /\ chain = <<>> /\ pushes = 0 /\ abends = 0 /\ dead = FALSE
      /\ cleaned = <<>> /\ spared = {} /\ unwound = {}
  BY DEF RecoveryInit
<1>2. Len(<<>>) = 0 /\ 1..0 = {}
  OBVIOUS
<1>3. CleanedInv(<<>>, 0)
  <2>1. <<>> \in Seq(Calls)
    OBVIOUS
  <2> QED BY <1>2, <2>1 DEF CleanedInv
<1>4. FramesInv(<<>>, 0, <<>>, {}, 0, 0)
  BY <1>2 DEF FramesInv
<1>5. ChainInv(<<>>, <<>>)
  <2>1. OpenSet(<<>>, 0) = {} /\ Ids(<<>>) = {}
    BY <1>2 DEF OpenSet, OpenAt, Ids
  <2>2. Descending(<<>>) /\ FlagsAgree(<<>>, <<>>, 0)
    BY <1>2 DEF Descending, FlagsAgree
  <2>3. <<>> \in Seq(States)
    OBVIOUS
  <2> QED BY <1>2, <2>1, <2>2, <2>3 DEF ChainInv
<1>6. <<>> \in Seq(Frames)
  OBVIOUS
<1> QED BY <1>1, <1>2, <1>3, <1>4, <1>5, <1>6 DEF RecoveryInv

\* The steps that call no clean-up function and unwind nothing.
LEMMA LiveKept ==
    ASSUME RecoveryInv, Live', dead' \in BOOLEAN, UNCHANGED <<abends, cleaned, unwound>>,
           pushes' \in Nat, spared \subseteq spared'
    PROVE  RecoveryInv'
<1>1. CleanedInv(cleaned', abends') /\ unwound' \subseteq spared' \cup Ids(cleaned')
      /\ abends' \in Nat
  BY DEF RecoveryInv
<1> QED BY <1>1 DEF RecoveryInv, Live

LEMMA RecoveryInvNext == RecoveryInv /\ [RecoveryNext]_recoveryVars => RecoveryInv'
<1> SUFFICES ASSUME RecoveryInv, [RecoveryNext]_recoveryVars PROVE RecoveryInv'
  OBVIOUS
<1>1. /\ pushes \in Nat /\ abends \in Nat /\ dead \in BOOLEAN
      /\ CleanedInv(cleaned, abends) /\ unwound \subseteq spared \cup Ids(cleaned)
  BY DEF RecoveryInv
<1>2. ASSUME NEW flags \in Flags, Push(flags) PROVE RecoveryInv'
  <2>1. dead' = dead /\ pushes' = pushes + 1 /\ UNCHANGED <<abends, cleaned, unwound, spared>>
    BY <1>2 DEF Push
  <2>2. Live'
    BY <1>2, PushStep
  <2> QED BY <1>1, <2>1, <2>2, LiveKept
<1>3. ASSUME Pop PROVE RecoveryInv'
  <2>1. dead' = dead /\ pushes' = pushes /\ UNCHANGED <<abends, cleaned, unwound, spared>>
    BY <1>3 DEF Pop
  <2>2. Live'
    BY <1>3, PopStep
  <2> QED BY <1>1, <2>1, <2>2, LiveKept
<1>4. ASSUME NEW value \in BOOLEAN, SetRetry(value) PROVE RecoveryInv'
  <2>1. dead' = dead /\ pushes' = pushes /\ UNCHANGED <<abends, cleaned, unwound, spared>>
    BY <1>4 DEF SetRetry
  <2>2. Live'
    BY <1>4, SetRetryStep
  <2> QED BY <1>1, <2>1, <2>2, LiveKept
<1>5. ASSUME NEW value \in BOOLEAN, SetEnabled(value) PROVE RecoveryInv'
  <2>1. dead' = dead /\ pushes' = pushes /\ UNCHANGED <<abends, cleaned, unwound, spared>>
    BY <1>5 DEF SetEnabled
  <2>2. Live'
    BY <1>5, SetEnabledStep
  <2> QED BY <1>1, <2>1, <2>2, LiveKept
<1>6. ASSUME NEW signal \in Signals, Abend(signal) PROVE RecoveryInv'
  <2>1. pushes' = pushes /\ UNCHANGED <<cleaned, unwound>>
    BY <1>6 DEF Abend
  <2>2. /\ abends' = abends + 1 /\ dead' \in BOOLEAN /\ spared \subseteq spared'
        /\ dead' \/ Live'
    BY <1>6, AbendStep
  <2>3. abends + 1 \in Nat
    BY <1>1
  <2>4. CleanedInv(cleaned, abends + 1)
    <3>1. \A i \in 1..Len(cleaned) : cleaned[i].number \in Nat
      <4>1. \A i \in 1..Len(cleaned) : cleaned[i] \in Calls
        BY <1>1 DEF CleanedInv
      <4> QED BY <4>1 DEF Calls
    <3>2. \A i \in 1..Len(cleaned) : cleaned[i].number <= abends + 1
      BY <1>1, <3>1 DEF CleanedInv
    <3> QED BY <1>1, <3>2 DEF CleanedInv
  <2>5. CleanedInv(cleaned', abends')
    BY <2>1, <2>2, <2>4
  <2> QED BY <1>1, <2>1, <2>2, <2>3, <2>5 DEF RecoveryInv, Live
<1>7. ASSUME AnalysisReturns PROVE RecoveryInv'
  <2>1. UNCHANGED <<pushes, abends, dead, spared, unwound>>
    BY <1>7 DEF AnalysisReturns
  <2>2. Live' /\ CleanedInv(cleaned', abends') /\ Ids(cleaned) \subseteq Ids(cleaned')
    BY <1>7, AnalysisReturnsStep
  <2> QED BY <1>1, <2>1, <2>2 DEF RecoveryInv, Live
<1>8. ASSUME Retry PROVE RecoveryInv'
  <2>1. UNCHANGED <<pushes, abends, dead, cleaned, spared>>
    BY <1>8 DEF Retry
  <2>2. Live' /\ unwound' \subseteq spared \cup Ids(cleaned)
    BY <1>8, RetryStep
  <2> QED BY <1>1, <2>1, <2>2 DEF RecoveryInv, Live
<1>9. ASSUME GiveUp PROVE RecoveryInv'
  <2>1. UNCHANGED <<pushes, abends, cleaned, unwound>>
    BY <1>9 DEF GiveUp
  <2>2. dead' \in BOOLEAN /\ spared \subseteq spared' /\ (dead' \/ Live')
    BY <1>9, GiveUpStep
  <2> QED BY <1>1, <2>1, <2>2 DEF RecoveryInv, Live
<1>10. ASSUME UNCHANGED recoveryVars PROVE RecoveryInv'
  BY <1>10 DEF recoveryVars, RecoveryInv
<1> QED BY <1>2, <1>3, <1>4, <1>5, <1>6, <1>7, <1>8, <1>9, <1>10 DEF RecoveryNext

\* Whatever is pushed, popped, retried or given up, and however signals nest,
\* every frame of the stack, the chain and the clean-up functions called agree.
THEOREM RecoveryInvariant == RecoverySpec => []RecoveryInv
<1> QED BY RecoveryInvInit, RecoveryInvNext, PTL DEF RecoverySpec

\* The chain that recoveryPush, recoveryPop and the router keep is that of the
\* blocks the program is in, latest first, wherever it runs.
THEOREM ChainTheorem == RecoverySpec => []ChainIsOpenBlocks
<1>1. RecoveryInv => ChainIsOpenBlocks
  <2> SUFFICES ASSUME RecoveryInv, ~dead
               PROVE  /\ \A i, j \in 1..Len(chain) : i < j => chain[i].id > chain[j].id
                      /\ Ids(chain) = Open
    BY DEF ChainIsOpenBlocks
  <2>1. /\ ChainInv(stack, chain) /\ stack \in Seq(Frames)
        /\ FramesInv(stack, Len(stack), cleaned, spared, pushes, abends)
    BY DEF RecoveryInv
  <2>2. Open = OpenSet(stack, Len(stack))
    <3>1. \A k \in 1..Len(stack) : IsBlock(stack[k]) => stack[k].id \in Nat
      <4>1. Len(stack) \in Nat
        BY <2>1
      <4> QED BY <2>1, <4>1, FramesGrowing
    <3>2. ASSUME NEW id \in Open PROVE id \in OpenSet(stack, Len(stack))
      BY <3>1, <3>2 DEF Open, OpenSet, OpenAt
    <3>3. ASSUME NEW id \in OpenSet(stack, Len(stack)) PROVE id \in Open
      BY <3>3 DEF Open, OpenSet, OpenAt
    <3> QED BY <3>2, <3>3
  <2> QED BY <2>1, <2>2 DEF ChainInv, Descending
<1> QED BY <1>1, RecoveryInvariant, PTL

\* Each call of the router cleans up innermost states first and none twice, and
\* no block is unwound that has not been cleaned up or spared.
THEOREM CleanedTheorem == RecoverySpec => []CleanedInOrder
<1>1. RecoveryInv => CleanedInOrder
  BY DEF RecoveryInv, CleanedInv, CleanedInOrder
<1> QED BY <1>1, RecoveryInvariant, PTL
=============================================================================
