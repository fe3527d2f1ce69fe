---------------------- MODULE CrossMemoryServerProofs ----------------------
(***************************************************************************)
(* What is proved of CrossMemoryServer: its state is of its types, a name  *)
(* has one current area, a running server is found in it, and no area that *)
(* says it is ready leads to an address space that is gone.                *)
(*                                                                         *)
(* All of it rests on one invariant.  The ENQ of the name is held through  *)
(* every step that may change the area for its server; what a crash leaves *)
(* behind is either not ready, or backed by a resource manager until the   *)
(* space has ended, or was cleared by it.                                  *)
(*                                                                         *)
(* The invariant is stated of values (the holder q of the ENQ, the chain   *)
(* ch, the areas ar, the servers sv), so that a lemma about a step speaks  *)
(* of the values before and after it in the same way.                      *)
(***************************************************************************)
EXTENDS CrossMemoryServer, CmsServerTasks, FiniteSetTheorems, WellFoundedInduction, TLAPS

SpacesOrNone == Spaces \cup {None}

ServerType ==
    [pc : ServerPCs, i : Nat, area : SpacesOrNone, lx : LXs \cup {0},
     started : BOOLEAN, resmgr : BOOLEAN, removed : BOOLEAN]

\* Before a server has an area on the chain.
Early == {"unused", "load", "cold", "find", "allocate"}

\* From the choice of an area to the start of the server, and from where the
\* server has put its number in the area to where it leaves its main loop.
Starting == {"take", "table", "establish", "publish", "resmgr", "start"}
Owning == {"table", "establish", "publish", "resmgr", "start", "main"}

\* Where the ENQ is held.
Holding == {"cold", "find", "allocate", "stop"} \cup Starting \cup Owning

InChain(ch, a) == \E i \in 1..Len(ch) : ch[i] = a

Found(ar, e) == e # None /\ ar[e].named /\ ar[e].current

-----------------------------------------------------------------------------
(* The inductive invariant.  r is the record of space s.                   *)

Shape(ch, s, r) ==
    /\ \/ r.i = 1
       \/ r.pc = "publish" /\ r.i \in 1..4
       \/ r.pc = "stop" /\ r.i \in 1..7
    /\ r.pc \in Starting \cup Owning \cup {"stop"} \/ r.started \/ r.resmgr \/ r.lx # 0
          => r.area \in Spaces
    /\ r.pc \in {"publish", "resmgr", "start", "main"} => r.lx \in LXs
    /\ r.pc \in {"start", "main"} => r.resmgr
    /\ r.pc \in {"main", "stop"} => r.started
    /\ r.started => r.pc \in {"main", "ending", "stop", "release", "returned"}
    /\ InChain(ch, s) => r.pc \notin Early

Holder(q, s, r) == r.pc \in Holding \/ r.started => q = s

\* What a server that holds the ENQ knows of its area.
Owner(ar, ch, s, r) ==
    /\ r.pc = "allocate" => \A i \in 1..Len(ch) : ~Found(ar, ch[i])
    /\ r.pc = "take" =>
          /\ ar[r.area].current
          /\ \A i \in 1..Len(ch) : Found(ar, ch[i]) => ch[i] = r.area
    /\ r.pc \in Owning => ar[r.area].current /\ ar[r.area].named /\ ar[r.area].local = s
    /\ r.pc \in Starting \cup Owning => InChain(ch, r.area)
    /\ r.pc \in Starting => ~ar[r.area].ready
    /\ r.pc = "main" => ar[r.area].ready
    /\ r.pc = "stop" /\ r.i > 1 => ~ar[r.area].ready

\* The fields of its area a server has stored so far are its own, or cleared.
Stored(r, i) == r.pc \in {"resmgr", "start", "main"} \/ (r.pc = "publish" /\ r.i > i)

Published(ar, s, r) ==
    /\ Stored(r, 1) => ar[r.area].ssNum \in {0, r.lx}
    /\ Stored(r, 2) => ar[r.area].ssSeq \in {0, s}
    /\ Stored(r, 3) => ar[r.area].cpNum \in {0, r.lx + 1}
    /\ Stored(r, 4) => ar[r.area].cpSeq \in {0, s}

Server(q, ch, ar, s, r) ==
    Shape(ch, s, r) /\ Holder(q, s, r) /\ Owner(ar, ch, s, r) /\ Published(ar, s, r)

\* Space u, whose record is r, stands behind the area a that says it is ready
\* and holds x.
Backs(x, a, u, r) ==
    /\ r.pc \in {"main", "ending", "stop", "returned", "ended", "gone"}
    /\ r.pc # "gone" => r.resmgr /\ r.area = a
    /\ r.pc \notin {"ended", "gone"} => r.started
    /\ r.pc = "stop" => r.i = 1
    /\ r.pc = "gone" => x.ssNum = 0 /\ x.ssSeq = 0 /\ x.cpNum = 0 /\ x.cpSeq = 0
    /\ x.ssSeq \in {0, u} /\ x.cpSeq \in {0, u}

ReadyBacked(ar, sv) ==
    \A a \in Spaces : ar[a].ready =>
        ar[a].local \in Spaces /\ Backs(ar[a], a, ar[a].local, sv[ar[a].local])

\* An area is on the chain once.
Once(ch) == \A i, j \in 1..Len(ch) : ch[i] # None /\ ch[i] = ch[j] => i = j

OneFound(ar, ch) ==
    \A i, j \in 1..Len(ch) : Found(ar, ch[i]) /\ Found(ar, ch[j]) => i = j

Typed(q, ch, ar, sv) ==
    /\ q \in SpacesOrNone
    /\ ch \in Seq(SpacesOrNone)
    /\ ar \in [Spaces -> AreaType]
    /\ sv \in [Spaces -> ServerType]

Inv(q, ch, ar, sv) ==
    /\ Typed(q, ch, ar, sv)
    /\ Once(ch)
    /\ OneFound(ar, ch)
    /\ \A s \in Spaces : Server(q, ch, ar, s, sv[s])
    /\ ReadyBacked(ar, sv)

ServerInv == Inv(enq, chain, area, srv) /\ other \in BOOLEAN /\ routine \in BOOLEAN

ReturnCodes ==
    {"none", "OK", "NULL_AREA", "CHAIN_LOOP", "WRONG_SERVER_VERSION", "SERVER_NOT_READY", "ZERO_PC_NUMBER",
     "SERVER_NULL", "SERVICE_NOT_INITIALIZED", "IMPROPER_SERVICE_AS", "FUNCTION_NULL",
     "PC_SERVICE_ABEND_DETECTED"}

\* A call has the address of an area until it is over.
ClientType ==
    [pc : ClientPCs, svc : Services, area : SpacesOrNone, kind : {"ss", "cp"}, num : Nat,
     seq : SpacesOrNone, home : SpacesOrNone, server : SpacesOrNone, rc : ReturnCodes]

ClientInv ==
    /\ client \in [Clients -> ClientType]
    /\ \A c \in Clients : client[c].pc \notin {"idle", "done", "abended"} => client[c].area \in Spaces

-----------------------------------------------------------------------------
(* The walk along the chain.                                               *)

LEMMA OneCurrentIs == OneCurrentArea <=> OneFound(area, chain)
BY DEF OneCurrentArea, OneFound, Current, Found

\* A set of numbers that is not empty has a smallest one.
LEMMA LeastNumber ==
    ASSUME NEW T, T \subseteq Nat, T # {}
    PROVE  \E x \in T : \A y \in T : x <= y
<1> DEFINE Less == {ss \in Nat \X Nat : ss[1] < ss[2]}
<1>1. IsWellFoundedOn(Less, Nat)
  BY NatLessThanWellFounded DEF OpToRel
<1>2. \E x \in T : \A y \in T : <<y, x>> \notin Less
  <2> DEFINE Numbers == Nat
  <2>1. IsWellFoundedOn(Less, Numbers) /\ T \subseteq Numbers
    BY <1>1
  <2> HIDE DEF Less, Numbers
  <2>2. QED
    BY <2>1, WFMin
<1>3. ASSUME NEW x \in Nat, NEW y \in Nat, y < x
      PROVE  <<y, x>> \in Less
  BY <1>3
<1>4. QED
  <2> HIDE DEF Less
  <2>1. PICK x \in T : \A y \in T : <<y, x>> \notin Less
    BY <1>2
  <2>2. ASSUME NEW y \in T
        PROVE  ~(y < x)
    BY <1>3, <2>1, <2>2, Zenon
  <2>3. QED
    BY <2>1, <2>2

\* An area that is found is a current one on the chain.
LEMMA WalkFinds ==
    ASSUME NEW max, Walk(max).rc = "OK"
    PROVE  \E i \in 1..Len(chain) : i <= max /\ Walk(max).area = chain[i] /\ Current(chain[i])
<1> DEFINE found == {i \in 1..Len(chain) : i <= max /\ Current(chain[i])}
           first == CHOOSE i \in found : \A j \in found : i <= j
<1>1. found # {}
  BY DEF Walk
<1>2. Walk(max) = [rc |-> "OK", area |-> chain[first]]
  BY <1>1 DEF Walk
<1>3. found \subseteq Nat
  OBVIOUS
<1>4. \E i \in found : \A j \in found : i <= j
  <2> HIDE DEF found
  <2> QED BY <1>1, <1>3, LeastNumber
<1>5. first \in found
  <2> HIDE DEF found
  <2> QED BY <1>4
<1>6. QED
  <2> HIDE DEF first
  <2> QED BY <1>2, <1>5

\* No area is found: there is none, on a chain that is not too long.
LEMMA LookupFindsNone ==
    ASSUME chain \in Seq(SpacesOrNone), Lookup.rc = "NULL_AREA"
    PROVE  \A i \in 1..Len(chain) : ~Current(chain[i])
<1>1. /\ ~(Len(chain) >= MaxChain)
      /\ \A i \in 1..Len(chain) : i <= MaxChain => ~Current(chain[i])
  BY DEF Lookup, Walk
<1>2. QED
  BY <1>1, ConstantsAssumption

-----------------------------------------------------------------------------
(* Steps on values.                                                        *)

\* While a space holds the ENQ, or nobody does, no other is where it is held.
LEMMA Alone ==
    ASSUME NEW q, NEW ch, NEW ar, NEW sv, Inv(q, ch, ar, sv),
           NEW s \in Spaces, q \in {s, None},
           NEW t \in Spaces, t # s
    PROVE  sv[t].pc \notin Holding /\ ~sv[t].started
<1>1. Holder(q, t, sv[t])
  BY DEF Inv, Server
<1>2. q # t
  BY ConstantsAssumption DEF None
<1>3. QED
  BY <1>1, <1>2 DEF Holder

\* A server that is nowhere near the ENQ knows nothing of areas.
LEMMA Elsewhere ==
    ASSUME NEW q, NEW ch, NEW ar, NEW t, NEW r,
           r.pc \notin Holding, ~r.started, Shape(ch, t, r),
           NEW q2, NEW ch2, NEW ar2, InChain(ch2, t) => InChain(ch, t)
    PROVE  Server(q2, ch2, ar2, t, r)
<1>1. Shape(ch2, t, r)
  BY DEF Shape
<1>2. Holder(q2, t, r)
  BY DEF Holder
<1>3. Owner(ar2, ch2, t, r)
  BY DEF Owner, Holding, Starting, Owning
<1>4. Published(ar2, t, r)
  BY DEF Published, Stored, Holding, Starting, Owning
<1>5. QED
  BY <1>1, <1>2, <1>3, <1>4 DEF Server

\* The record of one server changes, and what it may know with it.
LEMMA Change ==
    ASSUME NEW q, NEW ch, NEW ar, NEW sv, Inv(q, ch, ar, sv),
           NEW s \in Spaces, NEW r \in ServerType,
           NEW q2 \in SpacesOrNone, NEW ch2 \in Seq(SpacesOrNone), NEW ar2 \in [Spaces -> AreaType],
           Once(ch2), OneFound(ar2, ch2), Server(q2, ch2, ar2, s, r),
           \A t \in Spaces \ {s} : Server(q2, ch2, ar2, t, sv[t]),
           \A a \in Spaces : ar2[a].ready =>
               /\ ar2[a].local \in Spaces
               /\ Backs(ar2[a], a, ar2[a].local, IF ar2[a].local = s THEN r ELSE sv[ar2[a].local])
    PROVE  Inv(q2, ch2, ar2, [sv EXCEPT ![s] = r])
<1> DEFINE sv2 == [sv EXCEPT ![s] = r]
<1>1. /\ sv \in [Spaces -> ServerType]
      /\ sv2 \in [Spaces -> ServerType]
      /\ sv2[s] = r
      /\ \A t \in Spaces : t # s => sv2[t] = sv[t]
  BY DEF Inv, Typed
<1> HIDE DEF sv2
<1>2. Typed(q2, ch2, ar2, sv2)
  BY <1>1 DEF Typed
<1>3. \A t \in Spaces : Server(q2, ch2, ar2, t, sv2[t])
  BY <1>1
<1>4. ReadyBacked(ar2, sv2)
  <2> SUFFICES ASSUME NEW a \in Spaces, ar2[a].ready
               PROVE  ar2[a].local \in Spaces /\ Backs(ar2[a], a, ar2[a].local, sv2[ar2[a].local])
    BY DEF ReadyBacked
  <2>1. CASE ar2[a].local = s
    BY <1>1, <2>1
  <2>2. CASE ar2[a].local # s
    BY <1>1, <2>2
  <2>3. QED
    BY <2>1, <2>2
<1>5. QED
  BY <1>2, <1>3, <1>4 DEF Inv, sv2

\* The record of one server changes and no area does; the ENQ may be taken
\* when it is free and released by its holder.
LEMMA Quiet ==
    ASSUME NEW q, NEW ch, NEW ar, NEW sv, Inv(q, ch, ar, sv),
           NEW s \in Spaces, NEW r \in ServerType, NEW q2 \in SpacesOrNone,
           q2 = q \/ q \in {s, None},
           Server(q2, ch, ar, s, r),
           \A a \in Spaces : ar[a].ready /\ ar[a].local = s => Backs(ar[a], a, s, r)
    PROVE  Inv(q2, ch, ar, [sv EXCEPT ![s] = r])
<1>1. \A t \in Spaces \ {s} : Server(q2, ch, ar, t, sv[t])
  <2> SUFFICES ASSUME NEW t \in Spaces, t # s
               PROVE  Server(q2, ch, ar, t, sv[t])
    OBVIOUS
  <2>1. Server(q, ch, ar, t, sv[t])
    BY DEF Inv
  <2>2. CASE q2 = q
    BY <2>1, <2>2
  <2>3. CASE q \in {s, None}
    <3>1. sv[t].pc \notin Holding /\ ~sv[t].started
      BY <2>3, Alone
    <3>2. Shape(ch, t, sv[t])
      BY <2>1 DEF Server
    <3>3. QED
      BY <3>1, <3>2, Elsewhere
  <2>4. QED
    BY <2>2, <2>3
<1>2. \A a \in Spaces : ar[a].ready =>
               /\ ar[a].local \in Spaces
               /\ Backs(ar[a], a, ar[a].local, IF ar[a].local = s THEN r ELSE sv[ar[a].local])
  BY DEF Inv, ReadyBacked
<1>3. ch \in Seq(SpacesOrNone) /\ ar \in [Spaces -> AreaType] /\ Once(ch) /\ OneFound(ar, ch)
  BY DEF Inv, Typed
<1>4. QED
  BY <1>1, <1>2, <1>3, Change

\* The holder of the ENQ changes one area, which is its own or which no server
\* stands behind, and adds at most that one to the chain.
LEMMA HolderStores ==
    ASSUME NEW ch, NEW ar, NEW sv, NEW s \in Spaces, Inv(s, ch, ar, sv),
           NEW r \in ServerType, NEW q2 \in SpacesOrNone,
           NEW ch2 \in Seq(SpacesOrNone), NEW b \in Spaces, NEW x \in AreaType,
           \A t \in Spaces \ {s} : InChain(ch2, t) => InChain(ch, t),
           Once(ch2), OneFound([ar EXCEPT ![b] = x], ch2),
           Server(q2, ch2, [ar EXCEPT ![b] = x], s, r),
           \A a \in Spaces : a # b => ~(ar[a].ready /\ ar[a].local = s),
           x.ready =>
               /\ x.local \in Spaces
               /\ Backs(x, b, x.local, IF x.local = s THEN r ELSE sv[x.local])
    PROVE  Inv(q2, ch2, [ar EXCEPT ![b] = x], [sv EXCEPT ![s] = r])
<1> DEFINE ar2 == [ar EXCEPT ![b] = x]
<1>1. /\ ar2 \in [Spaces -> AreaType]
      /\ ar2[b] = x
      /\ \A a \in Spaces : a # b => ar2[a] = ar[a]
  BY DEF Inv, Typed
<1>2. \A t \in Spaces \ {s} : Server(q2, ch2, ar2, t, sv[t])
  <2> HIDE DEF ar2
  <2> SUFFICES ASSUME NEW t \in Spaces, t # s
               PROVE  Server(q2, ch2, ar2, t, sv[t])
    OBVIOUS
  <2>1. sv[t].pc \notin Holding /\ ~sv[t].started
    BY Alone
  <2>2. Shape(ch, t, sv[t])
    BY DEF Inv, Server
  <2>3. InChain(ch2, t) => InChain(ch, t)
    OBVIOUS
  <2>4. QED
    BY <2>1, <2>2, <2>3, Elsewhere
<1> HIDE DEF ar2
<1>3. \A a \in Spaces : ar2[a].ready =>
               /\ ar2[a].local \in Spaces
               /\ Backs(ar2[a], a, ar2[a].local, IF ar2[a].local = s THEN r ELSE sv[ar2[a].local])
  <2> SUFFICES ASSUME NEW a \in Spaces, ar2[a].ready
               PROVE  /\ ar2[a].local \in Spaces
                      /\ Backs(ar2[a], a, ar2[a].local, IF ar2[a].local = s THEN r ELSE sv[ar2[a].local])
    OBVIOUS
  <2>1. CASE a = b
    BY <1>1, <2>1
  <2>2. CASE a # b
    BY <1>1, <2>2 DEF Inv, ReadyBacked
  <2>3. QED
    BY <2>1, <2>2
<1>4. QED
  <2>1. OneFound(ar2, ch2) /\ Server(q2, ch2, ar2, s, r)
    BY DEF ar2
  <2>2. Inv(q2, ch2, ar2, [sv EXCEPT ![s] = r])
    BY <1>1, <1>2, <1>3, <2>1, Change
  <2>3. QED
    BY <2>2 DEF ar2

-----------------------------------------------------------------------------
(* What the invariant says of one server.                                  *)

LEMMA Known ==
    ASSUME NEW q, NEW ch, NEW ar, NEW sv, Inv(q, ch, ar, sv), NEW s \in Spaces
    PROVE  /\ sv[s] \in ServerType
           /\ Shape(ch, s, sv[s]) /\ Holder(q, s, sv[s])
           /\ Owner(ar, ch, s, sv[s]) /\ Published(ar, s, sv[s])
BY DEF Inv, Typed, Server

\* No area leads to a server that has not started.
LEMMA NotBacking ==
    ASSUME NEW q, NEW ch, NEW ar, NEW sv, Inv(q, ch, ar, sv), NEW s \in Spaces,
           sv[s].pc \notin {"main", "ending", "stop", "returned", "ended", "gone"}
              \/ (sv[s].pc \notin {"ended", "gone"} /\ ~sv[s].started)
    PROVE  \A a \in Spaces : ~(ar[a].ready /\ ar[a].local = s)
BY DEF Inv, ReadyBacked, Backs

\* The area a ready one leads to is the one its server works with.
LEMMA BacksOne ==
    ASSUME NEW q, NEW ch, NEW ar, NEW sv, Inv(q, ch, ar, sv), NEW s \in Spaces,
           NEW a \in Spaces, ar[a].ready, ar[a].local = s
    PROVE  Backs(ar[a], a, s, sv[s])
BY DEF Inv, ReadyBacked

-----------------------------------------------------------------------------
(* The steps that change no area.  r0 and r are the records of the server  *)
(* before and after, q2 is the holder of the ENQ after.                    *)

Same(r0, r) == r.area = r0.area /\ r.lx = r0.lx /\ r.started = r0.started

GoesOn(r0, r, from, to) == r0.pc = from /\ r.pc = to /\ r.i = r0.i

NoneFound == \A i \in 1..Len(chain) : ~Found(area, chain[i])

QuietStep(s, r0, r, q2) ==
    \* Launch
    \/ r0.pc = "unused" /\ r = NewServer /\ q2 = enq
    \* LoadServer, ColdStart without an area to discard, FindArea that finds none
    \/ GoesOn(r0, r, "load", "cold") /\ Same(r0, r) /\ r.resmgr = r0.resmgr /\ enq = None /\ q2 = s
    \/ GoesOn(r0, r, "cold", "find") /\ Same(r0, r) /\ r.resmgr = r0.resmgr /\ q2 = enq
    \/ GoesOn(r0, r, "find", "allocate") /\ Same(r0, r) /\ r.resmgr = r0.resmgr /\ q2 = enq /\ NoneFound
    \* EstablishPCRoutines, InstallResourceManager
    \/ GoesOn(r0, r, "establish", "publish") /\ r.area = r0.area /\ r.lx \in LXs
       /\ r.started = r0.started /\ r.resmgr = r0.resmgr /\ q2 = enq
    \/ GoesOn(r0, r, "resmgr", "start") /\ Same(r0, r) /\ r.resmgr /\ q2 = enq
    \* A start that fails
    \/ /\ r0.pc \in {"load", "cold", "find", "allocate", "take", "table", "establish", "resmgr", "start"}
       /\ r.pc = "ending" /\ r.i = r0.i /\ Same(r0, r) /\ r.resmgr = r0.resmgr
       /\ q2 = enq \/ (enq = s /\ q2 = None)
    \* LeaveMainLoop, EndLoop, ReleaseResources
    \/ GoesOn(r0, r, "main", "ending") /\ Same(r0, r) /\ r.resmgr = r0.resmgr /\ q2 = enq
    \/ GoesOn(r0, r, "ending", IF r0.started THEN "stop" ELSE "release") /\ Same(r0, r)
       /\ r.resmgr = r0.resmgr /\ q2 = enq
    \/ GoesOn(r0, r, "release", "returned") /\ Same(r0, r) /\ (r.resmgr => r0.resmgr) /\ q2 = enq
    \* AbendMain, RemoveServer, EndTask
    \/ /\ r0.pc \notin {"unused", "ended", "gone", "returned"}
       /\ r.pc = "returned" /\ r.i = 1 /\ Same(r0, r) /\ r.resmgr = r0.resmgr /\ q2 = enq
    \/ GoesOn(r0, r, "returned", "returned") /\ Same(r0, r) /\ r.resmgr = r0.resmgr /\ q2 = enq
    \/ /\ r0.pc \notin {"unused", "ended", "gone"}
       /\ r.pc = "ended" /\ r.i = 1 /\ r.area = r0.area /\ r.lx = 0 /\ ~r.started /\ r.resmgr = r0.resmgr
       /\ q2 = IF enq = s THEN None ELSE enq

LEMMA QuietStepShape ==
    ASSUME NEW s \in Spaces, NEW r0 \in ServerType, NEW r \in ServerType, NEW q2,
           Shape(chain, s, r0), QuietStep(s, r0, r, q2)
    PROVE  Shape(chain, s, r)
BY DEF Shape, QuietStep, Same, GoesOn, NewServer, ServerType, Starting, Owning, Early

LEMMA QuietStepHolder ==
    ASSUME NEW s \in Spaces, NEW r0 \in ServerType, NEW r \in ServerType, NEW q2,
           Shape(chain, s, r0), Holder(enq, s, r0), QuietStep(s, r0, r, q2)
    PROVE  Holder(q2, s, r) /\ (q2 = enq \/ enq \in {s, None})
BY DEF Shape, Holder, QuietStep, Same, GoesOn, NewServer, Holding, Starting, Owning

LEMMA QuietStepOwner ==
    ASSUME NEW s \in Spaces, NEW r0 \in ServerType, NEW r \in ServerType, NEW q2,
           Shape(chain, s, r0), QuietStep(s, r0, r, q2),
           Owner(area, chain, s, r0), Published(area, s, r0)
    PROVE  Owner(area, chain, s, r) /\ Published(area, s, r)
<1>1. Owner(area, chain, s, r)
  BY DEF Shape, Owner, QuietStep, Same, GoesOn, NewServer, NoneFound, Starting, Owning
<1>2. Published(area, s, r)
  BY DEF Shape, Published, Stored, QuietStep, Same, GoesOn, NewServer
<1>3. QED
  BY <1>1, <1>2

LEMMA QuietStepBacks ==
    ASSUME NEW s \in Spaces, NEW r0 \in ServerType, NEW r \in ServerType, NEW q2, NEW a \in Spaces, NEW x,
           Shape(chain, s, r0), QuietStep(s, r0, r, q2), Backs(x, a, s, r0)
    PROVE  Backs(x, a, s, r)
BY DEF Shape, Backs, QuietStep, Same, GoesOn

LEMMA QuietStepKeeps ==
    ASSUME ServerInv, NEW s \in Spaces, NEW r \in ServerType, NEW q2 \in SpacesOrNone,
           QuietStep(s, srv[s], r, q2)
    PROVE  Inv(q2, chain, area, [srv EXCEPT ![s] = r])
<1>1. Inv(enq, chain, area, srv)
  BY DEF ServerInv
<1>2. /\ srv[s] \in ServerType
      /\ Shape(chain, s, srv[s]) /\ Holder(enq, s, srv[s])
      /\ Owner(area, chain, s, srv[s]) /\ Published(area, s, srv[s])
  BY <1>1, Known
<1>3. Shape(chain, s, r) /\ Holder(q2, s, r) /\ (q2 = enq \/ enq \in {s, None})
  BY <1>2, QuietStepShape, QuietStepHolder
<1>4. Owner(area, chain, s, r) /\ Published(area, s, r)
  BY <1>2, QuietStepOwner
<1>5. \A a \in Spaces : area[a].ready /\ area[a].local = s => Backs(area[a], a, s, r)
  BY <1>1, <1>2, BacksOne, QuietStepBacks
<1>6. QED
  <2>1. Server(q2, chain, area, s, r)
    BY <1>3, <1>4 DEF Server
  <2>2. QED
    BY <1>1, <1>3, <1>5, <2>1, Quiet

-----------------------------------------------------------------------------
(* The steps of the system: the invariant of the values after each.        *)

After == Inv(enq', chain', area', srv')

LEMMA QuietAction ==
    ASSUME ServerInv, NEW s \in Spaces, NEW r \in ServerType,
           UNCHANGED <<chain, area>>, enq' \in SpacesOrNone,
           srv' = [srv EXCEPT ![s] = r], QuietStep(s, srv[s], r, enq')
    PROVE  After
BY QuietStepKeeps DEF After

LEMMA Types ==
    ASSUME ServerInv
    PROVE  /\ enq \in SpacesOrNone /\ chain \in Seq(SpacesOrNone)
           /\ area \in [Spaces -> AreaType] /\ srv \in [Spaces -> ServerType]
BY DEF ServerInv, Inv, Typed

LEMMA LaunchKeeps ==
    ASSUME ServerInv, NEW s \in Spaces, Launch(s)
    PROVE  After
<1> DEFINE r == NewServer
<1>1. srv[s] \in ServerType /\ enq \in SpacesOrNone /\ srv \in [Spaces -> ServerType]
  BY Types
<1>2. r \in ServerType
  BY <1>1, ConstantsAssumption DEF Launch, ServerType, ServerPCs, SpacesOrNone, None, NewServer
<1>3. UNCHANGED <<chain, area>> /\ enq' \in SpacesOrNone /\ srv' = [srv EXCEPT ![s] = r]
  BY <1>1 DEF Launch, SpacesOrNone
<1>4. QuietStep(s, srv[s], r, enq')
  BY <1>1 DEF Launch, QuietStep, GoesOn, Same, ServerType, NewServer
<1>5. QED
  <2> HIDE DEF r
  <2> QED BY <1>2, <1>3, <1>4, QuietAction

LEMMA LeaveMainLoopKeeps ==
    ASSUME ServerInv, NEW s \in Spaces, LeaveMainLoop(s)
    PROVE  After
<1> DEFINE r == [srv[s] EXCEPT !.pc = "ending"]
<1>1. srv[s] \in ServerType /\ enq \in SpacesOrNone /\ srv \in [Spaces -> ServerType]
  BY Types
<1>2. r \in ServerType
  BY <1>1, ConstantsAssumption DEF LeaveMainLoop, ServerType, ServerPCs, SpacesOrNone, None
<1>3. UNCHANGED <<chain, area>> /\ enq' \in SpacesOrNone /\ srv' = [srv EXCEPT ![s] = r]
  BY <1>1 DEF LeaveMainLoop, SpacesOrNone, Goto
<1>4. QuietStep(s, srv[s], r, enq')
  BY <1>1 DEF LeaveMainLoop, QuietStep, GoesOn, Same, ServerType, NewServer, Goto
<1>5. QED
  <2> HIDE DEF r
  <2> QED BY <1>2, <1>3, <1>4, QuietAction

LEMMA EndLoopKeeps ==
    ASSUME ServerInv, NEW s \in Spaces, EndLoop(s)
    PROVE  After
<1> DEFINE r == [srv[s] EXCEPT !.pc = IF srv[s].started THEN "stop" ELSE "release"]
<1>1. srv[s] \in ServerType /\ enq \in SpacesOrNone /\ srv \in [Spaces -> ServerType]
  BY Types
<1>2. r \in ServerType
  BY <1>1, ConstantsAssumption DEF EndLoop, ServerType, ServerPCs, SpacesOrNone, None
<1>3. UNCHANGED <<chain, area>> /\ enq' \in SpacesOrNone /\ srv' = [srv EXCEPT ![s] = r]
  BY <1>1 DEF EndLoop, SpacesOrNone
<1>4. QuietStep(s, srv[s], r, enq')
  BY <1>1 DEF EndLoop, QuietStep, GoesOn, Same, ServerType, NewServer
<1>5. QED
  <2> HIDE DEF r
  <2> QED BY <1>2, <1>3, <1>4, QuietAction

LEMMA AbendMainKeeps ==
    ASSUME ServerInv, NEW s \in Spaces, AbendMain(s)
    PROVE  After
<1> DEFINE r == [srv[s] EXCEPT !.pc = "returned", !.i = 1]
<1>1. srv[s] \in ServerType /\ enq \in SpacesOrNone /\ srv \in [Spaces -> ServerType]
  BY Types
<1>2. r \in ServerType
  BY <1>1, ConstantsAssumption DEF AbendMain, ServerType, ServerPCs, SpacesOrNone, None
<1>3. UNCHANGED <<chain, area>> /\ enq' \in SpacesOrNone /\ srv' = [srv EXCEPT ![s] = r]
  BY <1>1 DEF AbendMain, SpacesOrNone, InSpace
<1>4. QuietStep(s, srv[s], r, enq')
  BY <1>1 DEF AbendMain, QuietStep, GoesOn, Same, ServerType, NewServer, InSpace
<1>5. QED
  <2> HIDE DEF r
  <2> QED BY <1>2, <1>3, <1>4, QuietAction

LEMMA RemoveServerKeeps ==
    ASSUME ServerInv, NEW s \in Spaces, RemoveServer(s)
    PROVE  After
<1> DEFINE r == [srv[s] EXCEPT !.removed = TRUE]
<1>1. srv[s] \in ServerType /\ enq \in SpacesOrNone /\ srv \in [Spaces -> ServerType]
  BY Types
<1>2. r \in ServerType
  BY <1>1, ConstantsAssumption DEF RemoveServer, ServerType, ServerPCs, SpacesOrNone, None
<1>3. UNCHANGED <<chain, area>> /\ enq' \in SpacesOrNone /\ srv' = [srv EXCEPT ![s] = r]
  BY <1>1 DEF RemoveServer, SpacesOrNone
<1>4. QuietStep(s, srv[s], r, enq')
  BY <1>1 DEF RemoveServer, QuietStep, GoesOn, Same, ServerType, NewServer
<1>5. QED
  <2> HIDE DEF r
  <2> QED BY <1>2, <1>3, <1>4, QuietAction

LEMMA EndTaskKeeps ==
    ASSUME ServerInv, NEW s \in Spaces, EndTask(s)
    PROVE  After
<1> DEFINE r == [NewServer EXCEPT !.pc = "ended", !.area = srv[s].area, !.resmgr = srv[s].resmgr]
<1>1. srv[s] \in ServerType /\ enq \in SpacesOrNone /\ srv \in [Spaces -> ServerType]
  BY Types
<1>2. r \in ServerType
  BY <1>1, ConstantsAssumption DEF EndTask, ServerType, ServerPCs, SpacesOrNone, None, NewServer
<1>3. UNCHANGED <<chain, area>> /\ enq' \in SpacesOrNone /\ srv' = [srv EXCEPT ![s] = r]
  BY <1>1 DEF EndTask, SpacesOrNone, InSpace
<1>4. QuietStep(s, srv[s], r, enq')
  BY <1>1 DEF EndTask, QuietStep, GoesOn, Same, ServerType, NewServer, InSpace
<1>5. QED
  <2> HIDE DEF r
  <2> QED BY <1>2, <1>3, <1>4, QuietAction

LEMMA GiveUpKeeps ==
    ASSUME ServerInv, NEW s \in Spaces, GiveUp(s), UNCHANGED <<chain, area>>,
           enq' = enq \/ (enq = s /\ enq' = None),
           srv[s].pc \in {"load", "cold", "find", "allocate", "take", "table", "establish", "resmgr", "start"}
    PROVE  After
<1> DEFINE r == [srv[s] EXCEPT !.pc = "ending"]
<1>1. srv[s] \in ServerType /\ enq \in SpacesOrNone /\ srv \in [Spaces -> ServerType]
  BY Types
<1>2. r \in ServerType
  BY <1>1 DEF ServerType, ServerPCs
<1>3. enq' \in SpacesOrNone /\ srv' = [srv EXCEPT ![s] = r]
  BY <1>1 DEF GiveUp, Goto, SpacesOrNone
<1>4. QuietStep(s, srv[s], r, enq')
  BY <1>1 DEF QuietStep, Same, ServerType
<1>5. QED
  <2> HIDE DEF r
  <2> QED BY <1>2, <1>3, <1>4, QuietAction

LEMMA LoadServerKeeps ==
    ASSUME ServerInv, NEW s \in Spaces, LoadServer(s)
    PROVE  After
<1>1. CASE GiveUp(s) /\ enq' = enq
  BY <1>1, GiveUpKeeps DEF LoadServer
<1>2. CASE enq = None /\ enq' = s /\ Goto(s, "cold")
  <2> DEFINE r == [srv[s] EXCEPT !.pc = "cold"]
  <2>1. srv[s] \in ServerType /\ srv \in [Spaces -> ServerType]
    BY Types
  <2>2. r \in ServerType
    BY <2>1 DEF ServerType, ServerPCs
  <2>3. UNCHANGED <<chain, area>> /\ enq' \in SpacesOrNone /\ srv' = [srv EXCEPT ![s] = r]
    BY <1>2, <2>1 DEF LoadServer, Goto, SpacesOrNone
  <2>4. QuietStep(s, srv[s], r, enq')
    BY <1>2, <2>1 DEF LoadServer, QuietStep, GoesOn, Same, ServerType
  <2>5. QED
    <3> HIDE DEF r
    <3> QED BY <2>2, <2>3, <2>4, QuietAction
<1>3. QED
  BY <1>1, <1>2 DEF LoadServer

LEMMA EstablishPCRoutinesKeeps ==
    ASSUME ServerInv, NEW s \in Spaces, EstablishPCRoutines(s)
    PROVE  After
<1>1. CASE GiveUp(s)
  BY <1>1, GiveUpKeeps DEF EstablishPCRoutines
<1>2. CASE \E lx \in LXs : srv' = [srv EXCEPT ![s].lx = lx, ![s].pc = "publish"]
  <2>1. PICK lx \in LXs : srv' = [srv EXCEPT ![s].lx = lx, ![s].pc = "publish"]
    BY <1>2
  <2> DEFINE r == [srv[s] EXCEPT !.lx = lx, !.pc = "publish"]
  <2>2. srv[s] \in ServerType /\ srv \in [Spaces -> ServerType] /\ enq \in SpacesOrNone
    BY Types
  <2>3. r \in ServerType
    BY <2>2 DEF ServerType, ServerPCs
  <2>4. UNCHANGED <<chain, area>> /\ enq' = enq /\ srv' = [srv EXCEPT ![s] = r]
    BY <2>1, <2>2 DEF EstablishPCRoutines
  <2>5. QuietStep(s, srv[s], r, enq')
    BY <2>2, <2>4 DEF EstablishPCRoutines, QuietStep, GoesOn, Same, ServerType
  <2>6. QED
    <3> HIDE DEF r
    <3> QED BY <2>2, <2>3, <2>4, <2>5, QuietAction
<1>3. QED
  BY <1>1, <1>2 DEF EstablishPCRoutines

LEMMA InstallResourceManagerKeeps ==
    ASSUME ServerInv, NEW s \in Spaces, InstallResourceManager(s)
    PROVE  After
<1>1. CASE GiveUp(s)
  BY <1>1, GiveUpKeeps DEF InstallResourceManager
<1>2. CASE srv' = [srv EXCEPT ![s].resmgr = TRUE, ![s].pc = "start"]
  <2> DEFINE r == [srv[s] EXCEPT !.resmgr = TRUE, !.pc = "start"]
  <2>1. srv[s] \in ServerType /\ srv \in [Spaces -> ServerType] /\ enq \in SpacesOrNone
    BY Types
  <2>2. r \in ServerType
    BY <2>1 DEF ServerType, ServerPCs
  <2>3. UNCHANGED <<chain, area>> /\ enq' = enq /\ srv' = [srv EXCEPT ![s] = r]
    BY <1>2, <2>1 DEF InstallResourceManager
  <2>4. QuietStep(s, srv[s], r, enq')
    BY <2>1, <2>3 DEF InstallResourceManager, QuietStep, GoesOn, Same, ServerType
  <2>5. QED
    <3> HIDE DEF r
    <3> QED BY <2>1, <2>2, <2>3, <2>4, QuietAction
<1>3. QED
  BY <1>1, <1>2 DEF InstallResourceManager

LEMMA ReleaseResourcesKeeps ==
    ASSUME ServerInv, NEW s \in Spaces, ReleaseResources(s)
    PROVE  After
<1>1. PICK resmgr \in {FALSE, srv[s].resmgr} :
        srv' = [srv EXCEPT ![s] = [srv[s] EXCEPT !.resmgr = resmgr, !.pc = "returned"]]
  <2>1. srv[s] \in ServerType /\ srv \in [Spaces -> ServerType]
    BY Types
  <2>2. [srv[s] EXCEPT !.pc = "returned"] = [srv[s] EXCEPT !.resmgr = srv[s].resmgr, !.pc = "returned"]
    BY <2>1 DEF ServerType
  <2>3. QED
    BY <2>1, <2>2 DEF ReleaseResources, Goto
<1> DEFINE r == [srv[s] EXCEPT !.resmgr = resmgr, !.pc = "returned"]
<1>2. srv[s] \in ServerType /\ enq \in SpacesOrNone
  BY Types
<1>3. r \in ServerType
  BY <1>2 DEF ServerType, ServerPCs
<1>4. UNCHANGED <<chain, area>> /\ enq' = enq
  BY DEF ReleaseResources
<1>5. QuietStep(s, srv[s], r, enq')
  BY <1>2, <1>4 DEF ReleaseResources, QuietStep, GoesOn, Same, ServerType
<1>6. QED
  <2> HIDE DEF r
  <2>1. srv' = [srv EXCEPT ![s] = r]
    BY <1>1 DEF r
  <2>2. QED
    BY <1>2, <1>3, <1>4, <1>5, <2>1, QuietAction

-----------------------------------------------------------------------------
(* The steps that store into an area.                                      *)

\* The step stores x in the area b and makes r the record of s.
Stores(s, r, b, x) ==
    /\ UNCHANGED <<enq, chain>>
    /\ area' = [area EXCEPT ![b] = x]
    /\ srv' = [srv EXCEPT ![s] = r]

LEMMA HoldsENQ ==
    ASSUME ServerInv, NEW s \in Spaces, srv[s].pc \in Holding
    PROVE  enq = s
BY Known DEF ServerInv, Holder

LEMMA StoreAction ==
    ASSUME ServerInv, NEW s \in Spaces, srv[s].pc \in Holding,
           NEW r \in ServerType, NEW b \in Spaces, NEW x \in AreaType,
           Stores(s, r, b, x),
           \/ x.named /\ x.current => area[b].named /\ area[b].current
           \/ \A i \in 1..Len(chain) : Found(area, chain[i]) => chain[i] = b,
           Server(s, chain, [area EXCEPT ![b] = x], s, r),
           \A a \in Spaces : a # b => ~(area[a].ready /\ area[a].local = s),
           x.ready => /\ x.local \in Spaces
                      /\ Backs(x, b, x.local, IF x.local = s THEN r ELSE srv[x.local])
    PROVE  After
<1>1. enq = s
  BY HoldsENQ
<1>2. Inv(s, chain, area, srv)
  BY <1>1 DEF ServerInv
<1>3. s \in SpacesOrNone /\ chain \in Seq(SpacesOrNone) /\ Once(chain) /\ OneFound(area, chain)
  BY <1>2 DEF Inv, Typed
<1>4. OneFound([area EXCEPT ![b] = x], chain)
  <2> DEFINE ar2 == [area EXCEPT ![b] = x]
  <2>1. ar2[b] = x /\ \A a : a \in Spaces /\ a # b => ar2[a] = area[a]
    BY Types
  <2> HIDE DEF ar2
  <2>2. SUFFICES ASSUME NEW i \in 1..Len(chain), NEW j \in 1..Len(chain),
                        Found(ar2, chain[i]), Found(ar2, chain[j])
                 PROVE  i = j
    BY DEF OneFound, ar2
  <2>3. chain[i] \in Spaces /\ chain[j] \in Spaces
    BY <1>3, <2>2 DEF Found, SpacesOrNone
  <2>4. CASE x.named /\ x.current => area[b].named /\ area[b].current
    <3>1. Found(area, chain[i]) /\ Found(area, chain[j])
      BY <2>1, <2>2, <2>3, <2>4 DEF Found
    <3>2. QED
      BY <1>3, <3>1 DEF OneFound
  <2>5. CASE \A k \in 1..Len(chain) : Found(area, chain[k]) => chain[k] = b
    <3>1. chain[i] = b /\ chain[j] = b
      BY <2>1, <2>2, <2>3, <2>5 DEF Found
    <3>2. QED
      BY <1>3, <2>3, <3>1, ConstantsAssumption DEF Once, None
  <2>6. QED
    BY <2>4, <2>5
<1>5. Inv(s, chain, [area EXCEPT ![b] = x], [srv EXCEPT ![s] = r])
  BY <1>2, <1>3, <1>4, HolderStores
<1>6. QED
  BY <1>1, <1>5 DEF After, Stores

\* The same for a server that is not started, or no longer ready: what it
\* stores says so.
LEMMA StoreUnready ==
    ASSUME ServerInv, NEW s \in Spaces, srv[s].pc \in Holding,
           NEW r \in ServerType, NEW x \in AreaType, srv[s].area \in Spaces,
           Stores(s, r, srv[s].area, x), ~x.ready,
           \/ x.named /\ x.current => area[srv[s].area].named /\ area[srv[s].area].current
           \/ \A i \in 1..Len(chain) : Found(area, chain[i]) => chain[i] = srv[s].area,
           Server(s, chain, [area EXCEPT ![srv[s].area] = x], s, r)
    PROVE  After
<1>1. \A a \in Spaces : a # srv[s].area => ~(area[a].ready /\ area[a].local = s)
  <2> SUFFICES ASSUME NEW a \in Spaces, area[a].ready, area[a].local = s
               PROVE  a = srv[s].area
    OBVIOUS
  <2>1. Backs(area[a], a, s, srv[s])
    BY BacksOne DEF ServerInv
  <2>2. QED
    BY <2>1 DEF Backs, Holding, Starting, Owning
<1>2. QED
  BY <1>1, StoreAction

\* What is known of the server that stores.
LEMMA KnownNow ==
    ASSUME ServerInv, NEW s \in Spaces
    PROVE  /\ srv[s] \in ServerType /\ srv \in [Spaces -> ServerType] /\ area \in [Spaces -> AreaType]
           /\ Shape(chain, s, srv[s]) /\ Owner(area, chain, s, srv[s]) /\ Published(area, s, srv[s])
BY Known, Types DEF ServerInv

LEMMA TakeAreaKeeps ==
    ASSUME ServerInv, NEW s \in Spaces, TakeArea(s)
    PROVE  After
<1> DEFINE b == srv[s].area
           x == [area[b] EXCEPT !.named = TRUE, !.local = s]
<1>1. /\ srv[s] \in ServerType /\ srv \in [Spaces -> ServerType] /\ area \in [Spaces -> AreaType]
      /\ Shape(chain, s, srv[s]) /\ Owner(area, chain, s, srv[s])
  BY KnownNow
<1>2. srv[s].pc = "take" /\ srv[s].pc \in Holding
  BY DEF TakeArea, Holding, Starting
<1>3. b \in Spaces /\ ~srv[s].started /\ srv[s].i = 1
  BY <1>1, <1>2 DEF Shape, Starting
<1>4. /\ area[b] \in AreaType /\ area[b].current /\ ~area[b].ready /\ InChain(chain, b)
      /\ \A i \in 1..Len(chain) : Found(area, chain[i]) => chain[i] = b
  BY <1>1, <1>2, <1>3 DEF Owner, Starting
<1>5. /\ x \in AreaType /\ x.named /\ x.current /\ ~x.ready /\ x.local = s
  BY <1>4 DEF AreaType
<1>6. CASE GiveUp(s) /\ UNCHANGED area
  BY <1>2, <1>6, GiveUpKeeps DEF TakeArea
<1>7. CASE area' = [area EXCEPT ![b].named = TRUE, ![b].local = s] /\ (Goto(s, "table") \/ GiveUp(s))
  <2>1. PICK to \in {"table", "ending"} : srv' = [srv EXCEPT ![s] = [srv[s] EXCEPT !.pc = to]]
    BY <1>1, <1>7 DEF Goto, GiveUp
  <2> DEFINE r == [srv[s] EXCEPT !.pc = to]
  <2>2. /\ r \in ServerType /\ r.pc \in {"table", "ending"} /\ r.area = b /\ r.lx = srv[s].lx /\ r.i = 1
        /\ ~r.started /\ r.resmgr = srv[s].resmgr
    BY <1>1, <1>3 DEF ServerType, ServerPCs
  <2>3. Stores(s, r, b, x)
    BY <1>1, <1>3, <1>7, <2>1 DEF TakeArea, Stores
  <2>4. [area EXCEPT ![b] = x][b] = x
    BY <1>1, <1>3
  <2> HIDE DEF r, x
  <2>5. Server(s, chain, [area EXCEPT ![b] = x], s, r)
    <3> DEFINE ar2 == [area EXCEPT ![b] = x]
    <3>1. ar2[b] = x
      BY <2>4
    <3> HIDE DEF ar2, b
    <3>2. Shape(chain, s, r)
      BY <1>1, <1>2, <1>3, <2>2 DEF Shape, Early, Starting, Owning
    <3>3. Owner(ar2, chain, s, r)
      BY <1>4, <1>5, <2>2, <3>1 DEF Owner, Starting, Owning
    <3>4. Published(ar2, s, r)
      BY <2>2 DEF Published, Stored
    <3>5. QED
      BY <3>2, <3>3, <3>4 DEF Server, Holder, ar2
  <2>6. QED
    BY <1>2, <1>3, <1>4, <1>5, <2>2, <2>3, <2>5, StoreUnready
<1>8. QED
  BY <1>6, <1>7 DEF TakeArea

LEMMA CopyServiceTableKeeps ==
    ASSUME ServerInv, NEW s \in Spaces, CopyServiceTable(s)
    PROVE  After
<1> DEFINE b == srv[s].area
           x == [area[b] EXCEPT !.table = [log |-> "ss", user |-> UserKind[s]]]
<1>1. /\ srv[s] \in ServerType /\ srv \in [Spaces -> ServerType] /\ area \in [Spaces -> AreaType]
      /\ Shape(chain, s, srv[s]) /\ Owner(area, chain, s, srv[s])
  BY KnownNow
<1>2. srv[s].pc = "table" /\ srv[s].pc \in Holding
  BY DEF CopyServiceTable, Holding, Starting
<1>3. b \in Spaces /\ ~srv[s].started /\ srv[s].i = 1
  BY <1>1, <1>2 DEF Shape, Starting
<1>4. /\ area[b] \in AreaType /\ area[b].current /\ area[b].named /\ area[b].local = s
      /\ ~area[b].ready /\ InChain(chain, b)
  BY <1>1, <1>2, <1>3 DEF Owner, Starting, Owning
<1>5. x \in AreaType /\ x.named /\ x.current /\ ~x.ready /\ x.local = s
  <2>1. [log |-> "ss", user |-> UserKind[s]] \in [Services -> {"none", "ss", "cp"}]
    BY ConstantsAssumption DEF Services
  <2>2. QED
    BY <1>4, <2>1 DEF AreaType
<1>6. PICK to \in {"establish", "ending"} : srv' = [srv EXCEPT ![s] = [srv[s] EXCEPT !.pc = to]]
  BY <1>1 DEF CopyServiceTable, Goto, GiveUp
<1> DEFINE r == [srv[s] EXCEPT !.pc = to]
<1>7. /\ r \in ServerType /\ r.pc \in {"establish", "ending"} /\ r.area = b /\ r.lx = srv[s].lx /\ r.i = 1
      /\ ~r.started /\ r.resmgr = srv[s].resmgr
  BY <1>1, <1>3 DEF ServerType, ServerPCs
<1>8. Stores(s, r, b, x)
  BY <1>1, <1>3, <1>6 DEF CopyServiceTable, Stores
<1>9. [area EXCEPT ![b] = x][b] = x
  BY <1>1, <1>3
<1> HIDE DEF r, x
<1>10. Server(s, chain, [area EXCEPT ![b] = x], s, r)
  <2> DEFINE ar2 == [area EXCEPT ![b] = x]
  <2>1. ar2[b] = x
    BY <1>9
  <2> HIDE DEF ar2, b
  <2>2. Shape(chain, s, r)
    BY <1>1, <1>2, <1>3, <1>7 DEF Shape, Early, Starting, Owning
  <2>3. Owner(ar2, chain, s, r)
    BY <1>4, <1>5, <1>7, <2>1 DEF Owner, Starting, Owning
  <2>4. Published(ar2, s, r)
    BY <1>7 DEF Published, Stored
  <2>5. QED
    BY <2>2, <2>3, <2>4 DEF Server, Holder, ar2
<1>11. QED
  BY <1>2, <1>3, <1>4, <1>5, <1>7, <1>8, <1>10, StoreUnready

\* One field of pcInfo: the area and the server after it.
LEMMA PublishOne ==
    ASSUME NEW i \in 1..4, NEW y \in AreaType, NEW v \in AreaType
    PROVE  LET x == [y EXCEPT ![PublishOrder[i]] = v[PublishOrder[i]]]
           IN /\ x \in AreaType
              /\ x.current = y.current /\ x.named = y.named /\ x.ready = y.ready /\ x.local = y.local
              /\ x.ssNum = IF i = 1 THEN v.ssNum ELSE y.ssNum
              /\ x.ssSeq = IF i = 2 THEN v.ssSeq ELSE y.ssSeq
              /\ x.cpNum = IF i = 3 THEN v.cpNum ELSE y.cpNum
              /\ x.cpSeq = IF i = 4 THEN v.cpSeq ELSE y.cpSeq
<1>1. CASE i = 1
  BY <1>1 DEF PublishOrder, AreaType
<1>2. CASE i = 2
  BY <1>2 DEF PublishOrder, AreaType
<1>3. CASE i = 3
  BY <1>3 DEF PublishOrder, AreaType
<1>4. CASE i = 4
  BY <1>4 DEF PublishOrder, AreaType
<1>5. QED
  BY <1>1, <1>2, <1>3, <1>4

LEMMA PublishPCInfoKeeps ==
    ASSUME ServerInv, NEW s \in Spaces, PublishPCInfo(s)
    PROVE  After
<1> DEFINE b == srv[s].area
           i == srv[s].i
           v == [area[b] EXCEPT !.ssNum = srv[s].lx, !.ssSeq = s, !.cpNum = srv[s].lx + 1, !.cpSeq = s]
           x == [area[b] EXCEPT ![PublishOrder[i]] = v[PublishOrder[i]]]
           r == [srv[s] EXCEPT !.i = IF i = 4 THEN 1 ELSE i + 1, !.pc = IF i = 4 THEN "resmgr" ELSE @]
<1>1. /\ srv[s] \in ServerType /\ srv \in [Spaces -> ServerType] /\ area \in [Spaces -> AreaType]
      /\ Shape(chain, s, srv[s]) /\ Owner(area, chain, s, srv[s]) /\ Published(area, s, srv[s])
  BY KnownNow
<1>2. srv[s].pc = "publish" /\ srv[s].pc \in Holding
  BY DEF PublishPCInfo, Holding, Starting
<1>3. b \in Spaces /\ ~srv[s].started /\ i \in 1..4 /\ srv[s].lx \in LXs
  BY <1>1, <1>2 DEF Shape, Starting
<1>4. /\ area[b] \in AreaType /\ area[b].current /\ area[b].named /\ area[b].local = s
      /\ ~area[b].ready /\ InChain(chain, b)
  BY <1>1, <1>2, <1>3 DEF Owner, Starting, Owning
<1>5. /\ v \in AreaType /\ v.ssNum = srv[s].lx /\ v.ssSeq = s /\ v.cpNum = srv[s].lx + 1 /\ v.cpSeq = s
  BY <1>3, <1>4 DEF AreaType
<1>6. PcInfo(s)[PublishOrder[i]] = v[PublishOrder[i]]
  <2> HIDE DEF v, i
  <2> QED BY <1>3, <1>5 DEF PcInfo, PublishOrder
<1>7. /\ r \in ServerType /\ r.area = b /\ r.lx = srv[s].lx /\ ~r.started /\ r.resmgr = srv[s].resmgr
      /\ \/ i = 4 /\ r.pc = "resmgr" /\ r.i = 1
         \/ i # 4 /\ r.pc = "publish" /\ r.i = i + 1
  <2>1. CASE i = 4
    BY <1>1, <1>2, <1>3, <2>1 DEF ServerType, ServerPCs
  <2>2. CASE i # 4
    <3>1. r = [srv[s] EXCEPT !.i = i + 1]
      BY <1>1, <2>2 DEF ServerType
    <3>2. i + 1 \in Nat
      BY <1>3
    <3> HIDE DEF r
    <3>3. QED
      BY <1>1, <1>2, <1>3, <2>2, <3>1, <3>2 DEF ServerType
  <2>3. QED
    BY <2>1, <2>2
<1>8. Stores(s, r, b, x)
  <2>1. area' = [area EXCEPT ![b][PublishOrder[i]] = v[PublishOrder[i]]]
    BY <1>6 DEF PublishPCInfo
  <2>2. area' = [area EXCEPT ![b] = x]
    BY <1>1, <1>3, <2>1
  <2>3. Len(PublishOrder) = 4
    BY DEF PublishOrder
  <2>4. srv' = [srv EXCEPT ![s] = r]
    BY <1>1, <2>3 DEF PublishPCInfo
  <2>5. QED
    BY <2>2, <2>4 DEF PublishPCInfo, Stores
<1>9. [area EXCEPT ![b] = x][b] = x
  BY <1>1, <1>3
<1>10. /\ x \in AreaType /\ x.named /\ x.current /\ ~x.ready /\ x.local = s
       /\ x.ssNum = IF i = 1 THEN srv[s].lx ELSE area[b].ssNum
       /\ x.ssSeq = IF i = 2 THEN s ELSE area[b].ssSeq
       /\ x.cpNum = IF i = 3 THEN srv[s].lx + 1 ELSE area[b].cpNum
       /\ x.cpSeq = IF i = 4 THEN s ELSE area[b].cpSeq
  <2> HIDE DEF v, b, i
  <2> QED BY <1>3, <1>4, <1>5, PublishOne
<1> HIDE DEF r, x, v, i
<1>11. Server(s, chain, [area EXCEPT ![b] = x], s, r)
  <2> DEFINE ar2 == [area EXCEPT ![b] = x]
  <2>1. ar2[b] = x
    BY <1>9
  <2> HIDE DEF ar2
  <2>2. Shape(chain, s, r)
    BY <1>1, <1>2, <1>3, <1>7 DEF Shape, Early, Starting, Owning
  <2>3. Owner(ar2, chain, s, r)
    BY <1>4, <1>10, <1>7, <2>1 DEF Owner, Starting, Owning
  <2>4. Published(ar2, s, r)
    BY <1>1, <1>2, <1>3, <1>7, <1>10, <2>1 DEF Published, Stored, i
  <2>5. QED
    BY <2>2, <2>3, <2>4 DEF Server, Holder, ar2
<1>12. QED
  BY <1>2, <1>3, <1>4, <1>7, <1>8, <1>10, <1>11, StoreUnready

LEMMA StartServerKeeps ==
    ASSUME ServerInv, NEW s \in Spaces, StartServer(s)
    PROVE  After
<1> DEFINE b == srv[s].area
           x == [area[b] EXCEPT !.ready = TRUE]
           r == [srv[s] EXCEPT !.started = TRUE, !.pc = "main"]
<1>1. /\ srv[s] \in ServerType /\ srv \in [Spaces -> ServerType] /\ area \in [Spaces -> AreaType]
      /\ Shape(chain, s, srv[s]) /\ Owner(area, chain, s, srv[s]) /\ Published(area, s, srv[s])
  BY KnownNow
<1>2. srv[s].pc = "start" /\ srv[s].pc \in Holding
  BY DEF StartServer, Holding, Starting
<1>3. b \in Spaces /\ ~srv[s].started /\ srv[s].i = 1 /\ srv[s].resmgr /\ srv[s].lx \in LXs
  BY <1>1, <1>2 DEF Shape, Starting
<1>4. /\ area[b] \in AreaType /\ area[b].current /\ area[b].named /\ area[b].local = s
      /\ InChain(chain, b)
  BY <1>1, <1>2, <1>3 DEF Owner, Starting, Owning
<1>5. /\ area[b].ssNum \in {0, srv[s].lx} /\ area[b].ssSeq \in {0, s}
      /\ area[b].cpNum \in {0, srv[s].lx + 1} /\ area[b].cpSeq \in {0, s}
  BY <1>1, <1>2 DEF Published, Stored
<1>6. /\ x \in AreaType /\ x.named /\ x.current /\ x.ready /\ x.local = s
      /\ x.ssNum = area[b].ssNum /\ x.ssSeq = area[b].ssSeq
      /\ x.cpNum = area[b].cpNum /\ x.cpSeq = area[b].cpSeq
  BY <1>4 DEF AreaType
<1>7. CASE GiveUp(s) /\ UNCHANGED area
  BY <1>2, <1>7, GiveUpKeeps DEF StartServer
<1>8. CASE ~(GiveUp(s) /\ UNCHANGED area)
  <2>1. /\ r \in ServerType /\ r.pc = "main" /\ r.area = b /\ r.lx = srv[s].lx /\ r.i = 1
        /\ r.started /\ r.resmgr
    BY <1>1, <1>3 DEF ServerType, ServerPCs
  <2>2. Stores(s, r, b, x)
    BY <1>1, <1>3, <1>8 DEF StartServer, Stores
  <2>3. [area EXCEPT ![b] = x][b] = x
    BY <1>1, <1>3
  <2> HIDE DEF r, x
  <2>4. Server(s, chain, [area EXCEPT ![b] = x], s, r)
    <3> DEFINE ar2 == [area EXCEPT ![b] = x]
    <3>1. ar2[b] = x
      BY <2>3
    <3> HIDE DEF ar2
    <3>2. Shape(chain, s, r)
      BY <1>3, <2>1 DEF Shape, Early, Starting, Owning
    <3>3. Owner(ar2, chain, s, r)
      BY <1>4, <1>6, <2>1, <3>1 DEF Owner, Starting, Owning
    <3>4. Published(ar2, s, r)
      BY <1>5, <1>6, <2>1, <3>1 DEF Published, Stored
    <3>5. QED
      BY <3>2, <3>3, <3>4 DEF Server, Holder, ar2
  <2>5. Backs(x, b, s, r)
    BY <1>5, <1>6, <2>1 DEF Backs
  <2>6. \A a \in Spaces : ~(area[a].ready /\ area[a].local = s)
    BY <1>2, NotBacking DEF ServerInv
  <2>7. QED
    <3> HIDE DEF b
    <3> QED BY <1>2, <1>3, <1>4, <1>6, <2>1, <2>2, <2>4, <2>5, <2>6, StoreAction
<1>9. QED
  BY <1>7, <1>8

\* One field that stopServer clears.
LEMMA StopOne ==
    ASSUME NEW i \in 1..7, NEW y \in AreaType
    PROVE  LET x == [y EXCEPT ![StopOrder[i]] = EmptyArea[StopOrder[i]]]
           IN /\ x \in AreaType
              /\ x.current = y.current /\ x.named = y.named
              /\ x.ready = IF i = 1 THEN FALSE ELSE y.ready
<1>1. CASE i = 1
  BY <1>1 DEF StopOrder, EmptyArea, AreaType, None
<1>2. CASE i = 2
  BY <1>2 DEF StopOrder, EmptyArea, AreaType, None
<1>3. CASE i = 3
  BY <1>3 DEF StopOrder, EmptyArea, AreaType, None
<1>4. CASE i = 4
  BY <1>4 DEF StopOrder, EmptyArea, AreaType, None
<1>5. CASE i = 5
  BY <1>5 DEF StopOrder, EmptyArea, AreaType, None
<1>6. CASE i = 6
  BY <1>6 DEF StopOrder, EmptyArea, AreaType, None
<1>7. CASE i = 7
  <2>1. EmptyTable \in [Services -> {"none", "ss", "cp"}]
    BY DEF EmptyTable
  <2>2. EmptyArea.table = EmptyTable /\ StopOrder[7] = "table"
    BY DEF EmptyArea, StopOrder
  <2>3. [y EXCEPT ![StopOrder[i]] = EmptyArea[StopOrder[i]]] = [y EXCEPT !.table = EmptyTable]
    BY <1>7, <2>2
  <2>4. [y EXCEPT !.table = EmptyTable] \in AreaType
    BY <2>1 DEF AreaType
  <2>5. QED
    BY <1>7, <2>3, <2>4 DEF AreaType
<1>8. i = 1 \/ i = 2 \/ i = 3 \/ i = 4 \/ i = 5 \/ i = 6 \/ i = 7
  OBVIOUS
<1>9. QED
  BY ONLY <1>1, <1>2, <1>3, <1>4, <1>5, <1>6, <1>7, <1>8, Zenon

LEMMA StopServerKeeps ==
    ASSUME ServerInv, NEW s \in Spaces, StopServer(s)
    PROVE  After
<1> DEFINE b == srv[s].area
           i == srv[s].i
           x == [area[b] EXCEPT ![StopOrder[i]] = EmptyArea[StopOrder[i]]]
           r == [srv[s] EXCEPT !.i = IF i = 7 THEN 1 ELSE i + 1, !.pc = IF i = 7 THEN "release" ELSE @]
<1>1. /\ srv[s] \in ServerType /\ srv \in [Spaces -> ServerType] /\ area \in [Spaces -> AreaType]
      /\ Shape(chain, s, srv[s]) /\ Owner(area, chain, s, srv[s])
  BY KnownNow
<1>2. srv[s].pc = "stop" /\ srv[s].pc \in Holding
  BY DEF StopServer, Holding
<1>3. b \in Spaces /\ srv[s].started /\ i \in 1..7
  BY <1>1, <1>2 DEF Shape
<1>4. area[b] \in AreaType /\ (i > 1 => ~area[b].ready)
  BY <1>1, <1>2, <1>3 DEF Owner
<1>5. /\ r \in ServerType /\ r.area = b /\ r.lx = srv[s].lx /\ r.started /\ r.resmgr = srv[s].resmgr
      /\ \/ i = 7 /\ r.pc = "release" /\ r.i = 1
         \/ i # 7 /\ r.pc = "stop" /\ r.i = i + 1
  <2>1. CASE i = 7
    BY <1>1, <1>2, <1>3, <2>1 DEF ServerType, ServerPCs
  <2>2. CASE i # 7
    <3>1. r = [srv[s] EXCEPT !.i = i + 1]
      BY <1>1, <2>2 DEF ServerType
    <3>2. i + 1 \in Nat
      BY <1>3
    <3> HIDE DEF r
    <3>3. QED
      BY <1>1, <1>2, <1>3, <2>2, <3>1, <3>2 DEF ServerType
  <2>3. QED
    BY <2>1, <2>2
<1>6. Stores(s, r, b, x)
  <2>1. area' = [area EXCEPT ![b] = x]
    BY <1>1, <1>3 DEF StopServer
  <2>2. Len(StopOrder) = 7
    BY DEF StopOrder
  <2>3. srv' = [srv EXCEPT ![s] = r]
    BY <1>1, <2>2 DEF StopServer
  <2>4. QED
    BY <2>1, <2>3 DEF StopServer, Stores
<1>7. [area EXCEPT ![b] = x][b] = x
  BY <1>1, <1>3
<1>8. /\ x \in AreaType /\ x.named = area[b].named /\ x.current = area[b].current /\ ~x.ready
  <2>1. /\ x \in AreaType /\ x.named = area[b].named /\ x.current = area[b].current
        /\ x.ready = IF i = 1 THEN FALSE ELSE area[b].ready
    <3> HIDE DEF b, i
    <3> QED BY <1>3, <1>4, StopOne
  <2> HIDE DEF x
  <2>2. QED
    BY <1>3, <1>4, <2>1
<1> HIDE DEF r, x
<1>9. Server(s, chain, [area EXCEPT ![b] = x], s, r)
  <2> DEFINE ar2 == [area EXCEPT ![b] = x]
  <2>1. ar2[b] = x
    BY <1>7
  <2> HIDE DEF ar2
  <2>2. Shape(chain, s, r)
    BY <1>1, <1>2, <1>3, <1>5 DEF Shape, Early, Starting, Owning
  <2>3. Owner(ar2, chain, s, r)
    BY <1>8, <1>5, <2>1 DEF Owner, Starting, Owning
  <2>4. Published(ar2, s, r)
    BY <1>5 DEF Published, Stored
  <2>5. QED
    BY <2>2, <2>3, <2>4 DEF Server, Holder, ar2
<1>10. QED
  BY <1>2, <1>3, <1>5, <1>6, <1>8, <1>9, StoreUnready

-----------------------------------------------------------------------------
(* The steps that look for an area or add one.                             *)

LEMMA LookupOK ==
    ASSUME ServerInv, Lookup.rc = "OK"
    PROVE  /\ Lookup.area \in Spaces /\ Found(area, Lookup.area) /\ InChain(chain, Lookup.area)
           /\ \A i \in 1..Len(chain) : Found(area, chain[i]) => chain[i] = Lookup.area
<1>1. PICK i \in 1..Len(chain) : Lookup.area = chain[i] /\ Current(chain[i])
  BY WalkFinds DEF Lookup
<1>2. chain \in Seq(SpacesOrNone) /\ OneFound(area, chain)
  BY DEF ServerInv, Inv, Typed
<1>3. chain[i] \in SpacesOrNone /\ Found(area, chain[i])
  BY <1>1, <1>2 DEF Current, Found
<1>4. QED
  BY <1>1, <1>2, <1>3 DEF OneFound, SpacesOrNone, Found, InChain

LEMMA ColdStartKeeps ==
    ASSUME ServerInv, NEW s \in Spaces, ColdStart(s)
    PROVE  After
<1> DEFINE r == [srv[s] EXCEPT !.pc = "find"]
<1>1. /\ srv[s] \in ServerType /\ srv \in [Spaces -> ServerType] /\ area \in [Spaces -> AreaType]
      /\ enq \in SpacesOrNone /\ Shape(chain, s, srv[s])
  BY KnownNow, Types
<1>2. srv[s].pc = "cold" /\ srv[s].pc \in Holding
  BY DEF ColdStart, Holding
<1>3. /\ r \in ServerType /\ r.pc = "find" /\ r.i = srv[s].i /\ r.area = srv[s].area /\ r.lx = srv[s].lx
      /\ r.started = srv[s].started /\ r.resmgr = srv[s].resmgr /\ ~srv[s].started
  BY <1>1, <1>2 DEF ServerType, ServerPCs, Shape
<1>4. UNCHANGED <<enq, chain>> /\ srv' = [srv EXCEPT ![s] = r]
  BY <1>1 DEF ColdStart, Goto
<1> HIDE DEF r
<1>5. CASE UNCHANGED area
  <2>1. QuietStep(s, srv[s], r, enq')
    BY <1>2, <1>3, <1>4 DEF QuietStep, GoesOn, Same
  <2>2. QED
    BY <1>1, <1>3, <1>4, <1>5, <2>1, QuietAction
<1>6. CASE Lookup.rc = "OK" /\ area' = [area EXCEPT ![Lookup.area].current = FALSE]
  <2> DEFINE b == Lookup.area
             x == [area[b] EXCEPT !.current = FALSE]
  <2>1. b \in Spaces
    BY <1>6, LookupOK
  <2>2. area[b] \in AreaType
    BY <1>1, <2>1
  <2>3. /\ x \in AreaType /\ ~x.current /\ x.ready = area[b].ready /\ x.local = area[b].local
        /\ x.ssNum = area[b].ssNum /\ x.ssSeq = area[b].ssSeq
        /\ x.cpNum = area[b].cpNum /\ x.cpSeq = area[b].cpSeq
    BY <2>2 DEF AreaType
  <2>4. Stores(s, r, b, x)
    BY <1>1, <1>4, <1>6, <2>1 DEF Stores
  <2> HIDE DEF b, x
  <2>5. \A a \in Spaces : ~(area[a].ready /\ area[a].local = s)
    BY <1>2, NotBacking DEF ServerInv
  <2>6. Server(s, chain, [area EXCEPT ![b] = x], s, r)
    <3>1. Shape(chain, s, r)
      BY <1>1, <1>2, <1>3 DEF Shape, Early, Starting, Owning
    <3>2. Owner([area EXCEPT ![b] = x], chain, s, r) /\ Published([area EXCEPT ![b] = x], s, r)
      BY <1>3 DEF Owner, Published, Stored, Starting, Owning
    <3>3. QED
      BY <3>1, <3>2 DEF Server, Holder
  <2>7. x.ready => /\ x.local \in Spaces
                   /\ Backs(x, b, x.local, IF x.local = s THEN r ELSE srv[x.local])
    <3> SUFFICES ASSUME x.ready
                 PROVE  x.local \in Spaces /\ x.local # s /\ Backs(x, b, x.local, srv[x.local])
      OBVIOUS
    <3>1. x.local \in Spaces /\ x.local # s
      BY <2>1, <2>3, <2>5 DEF ServerInv, Inv, ReadyBacked
    <3>2. Backs(area[b], b, x.local, srv[x.local])
      BY <2>1, <2>3, <3>1, BacksOne DEF ServerInv
    <3>3. QED
      BY <2>3, <3>1, <3>2 DEF Backs
  <2>8. QED
    BY <1>2, <1>3, <2>1, <2>3, <2>4, <2>5, <2>6, <2>7, StoreAction
<1>7. QED
  BY <1>5, <1>6 DEF ColdStart

LEMMA FindAreaKeeps ==
    ASSUME ServerInv, NEW s \in Spaces, FindArea(s)
    PROVE  After
<1>1. /\ srv[s] \in ServerType /\ srv \in [Spaces -> ServerType] /\ area \in [Spaces -> AreaType]
      /\ enq \in SpacesOrNone /\ chain \in Seq(SpacesOrNone) /\ Shape(chain, s, srv[s])
  BY KnownNow, Types
<1>2. srv[s].pc = "find" /\ srv[s].pc \in Holding /\ UNCHANGED <<enq, chain>>
  BY DEF FindArea, Holding
<1>3. ~srv[s].started /\ srv[s].i = 1
  BY <1>1, <1>2 DEF Shape
<1>4. CASE GiveUp(s) /\ UNCHANGED area
  BY <1>2, <1>4, GiveUpKeeps
<1>5. CASE Lookup.rc = "NULL_AREA" /\ Goto(s, "allocate") /\ UNCHANGED area
  <2> DEFINE r == [srv[s] EXCEPT !.pc = "allocate"]
  <2>1. NoneFound
    BY <1>1, <1>5, LookupFindsNone DEF NoneFound, Current, Found
  <2>2. r \in ServerType
    BY <1>1 DEF ServerType, ServerPCs
  <2>3. srv' = [srv EXCEPT ![s] = r]
    BY <1>1, <1>5 DEF Goto
  <2>4. QuietStep(s, srv[s], r, enq')
    BY <1>1, <1>2, <2>1 DEF QuietStep, GoesOn, Same, ServerType
  <2>5. QED
    <3> HIDE DEF r
    <3> QED BY <1>1, <1>2, <1>5, <2>2, <2>3, <2>4, QuietAction
<1>6. CASE /\ Lookup.rc = "OK"
           /\ area' = [area EXCEPT ![Lookup.area].ready = FALSE]
           /\ srv' = [srv EXCEPT ![s].area = Lookup.area, ![s].pc = "take"]
  <2> DEFINE b == Lookup.area
             x == [area[b] EXCEPT !.ready = FALSE]
             r == [srv[s] EXCEPT !.area = b, !.pc = "take"]
  <2>1. /\ b \in Spaces /\ Found(area, b) /\ InChain(chain, b)
        /\ \A i \in 1..Len(chain) : Found(area, chain[i]) => chain[i] = b
    BY <1>6, LookupOK
  <2>2. area[b] \in AreaType
    BY <1>1, <2>1
  <2>3. x \in AreaType /\ x.current = area[b].current /\ x.named = area[b].named /\ ~x.ready
    BY <2>2 DEF AreaType
  <2>4. /\ r \in ServerType /\ r.pc = "take" /\ r.i = 1 /\ r.area = b /\ r.lx = srv[s].lx
        /\ ~r.started
    BY <1>1, <1>3, <2>1 DEF ServerType, ServerPCs, SpacesOrNone
  <2>5. Stores(s, r, b, x)
    BY <1>1, <1>2, <1>6, <2>1 DEF Stores
  <2>6. [area EXCEPT ![b] = x][b] = x
    BY <1>1, <2>1
  <2> HIDE DEF b, x, r
  <2>7. \A a \in Spaces : ~(area[a].ready /\ area[a].local = s)
    BY <1>2, NotBacking DEF ServerInv
  <2>8. Server(s, chain, [area EXCEPT ![b] = x], s, r)
    <3> DEFINE ar2 == [area EXCEPT ![b] = x]
    <3>1. ar2[b] = x /\ \A a \in Spaces : a # b => ar2[a] = area[a]
      BY <2>6
    <3> HIDE DEF ar2
    <3>2. Shape(chain, s, r)
      BY <2>1, <2>4 DEF Shape, Early, Starting, Owning
    <3>3. \A i \in 1..Len(chain) : Found(ar2, chain[i]) => chain[i] = b
      <4> SUFFICES ASSUME NEW i \in 1..Len(chain), Found(ar2, chain[i]), chain[i] # b
                   PROVE  FALSE
        OBVIOUS
      <4>1. chain[i] \in Spaces
        BY <1>1 DEF Found, SpacesOrNone
      <4>2. Found(area, chain[i])
        BY <3>1, <4>1 DEF Found
      <4>3. QED
        BY <2>1, <4>2
    <3>4. Owner(ar2, chain, s, r)
      BY <2>1, <2>3, <2>4, <3>1, <3>3 DEF Owner, Starting, Owning, Found
    <3>5. Published(ar2, s, r)
      BY <2>4 DEF Published, Stored
    <3>6. QED
      BY <3>2, <3>4, <3>5 DEF Server, Holder, ar2
  <2>9. QED
    BY <1>2, <2>1, <2>3, <2>4, <2>5, <2>7, <2>8, StoreAction
<1>7. QED
  BY <1>4, <1>5, <1>6 DEF FindArea

\* An entry is put at the head of the chain.
LEMMA Pushed ==
    ASSUME NEW ch \in Seq(SpacesOrNone), NEW e \in SpacesOrNone
    PROVE  /\ <<e>> \o ch \in Seq(SpacesOrNone)
           /\ Len(<<e>> \o ch) = Len(ch) + 1
           /\ (<<e>> \o ch)[1] = e
           /\ \A i \in 1..Len(ch) : (<<e>> \o ch)[i + 1] = ch[i]
           /\ \A i \in 1..Len(ch) + 1 : i = 1 \/ (i - 1 \in 1..Len(ch) /\ (<<e>> \o ch)[i] = ch[i - 1])
OBVIOUS

LEMMA AllocateAreaKeeps ==
    ASSUME ServerInv, NEW s \in Spaces, AllocateArea(s)
    PROVE  After
<1>1. /\ srv[s] \in ServerType /\ srv \in [Spaces -> ServerType] /\ area \in [Spaces -> AreaType]
      /\ enq \in SpacesOrNone /\ chain \in Seq(SpacesOrNone)
      /\ Shape(chain, s, srv[s]) /\ Owner(area, chain, s, srv[s])
  BY KnownNow, Types
<1>2. srv[s].pc = "allocate" /\ srv[s].pc \in Holding /\ s # None /\ s \in SpacesOrNone
  BY ConstantsAssumption DEF AllocateArea, Holding, SpacesOrNone, None
<1>3. ~srv[s].started /\ srv[s].i = 1 /\ ~InChain(chain, s)
  BY <1>1, <1>2 DEF Shape, Early
<1>4. enq = s
  BY <1>2, HoldsENQ
<1>5. CASE enq' \in {enq, None} /\ GiveUp(s) /\ UNCHANGED <<area, chain>>
  BY <1>2, <1>4, <1>5, GiveUpKeeps
<1>6. CASE /\ area' = [area EXCEPT ![s] = EmptyArea]
           /\ chain' = <<s>> \o chain
           /\ srv' = [srv EXCEPT ![s].area = s, ![s].pc = "take"]
           /\ UNCHANGED enq
  <2> DEFINE ch2 == <<s>> \o chain
             ar2 == [area EXCEPT ![s] = EmptyArea]
             r == [srv[s] EXCEPT !.area = s, !.pc = "take"]
  <2>1. /\ ch2 \in Seq(SpacesOrNone) /\ Len(ch2) = Len(chain) + 1 /\ ch2[1] = s
        /\ \A i \in 1..Len(chain) + 1 : i = 1 \/ (i - 1 \in 1..Len(chain) /\ ch2[i] = chain[i - 1])
    BY <1>1, <1>2, Pushed
  <2>2. EmptyArea \in AreaType /\ EmptyArea.current /\ ~EmptyArea.named /\ ~EmptyArea.ready
    <3>1. EmptyTable \in [Services -> {"none", "ss", "cp"}]
      BY DEF EmptyTable
    <3>2. QED
      BY <3>1 DEF EmptyArea, AreaType, None
  <2>3. ar2[s] = EmptyArea /\ \A a \in Spaces : a # s => ar2[a] = area[a]
    BY <1>1
  <2>4. r \in ServerType /\ r.pc = "take" /\ r.i = 1 /\ r.area = s /\ ~r.started
    BY <1>1, <1>2, <1>3 DEF ServerType, ServerPCs
  <2>5. srv' = [srv EXCEPT ![s] = r]
    BY <1>1, <1>6
  <2> HIDE DEF ch2, ar2, r
  <2>6. \A t \in Spaces \ {s} : InChain(ch2, t) => InChain(chain, t)
    BY <1>1, <2>1 DEF InChain
  <2>7. \A i \in 1..Len(chain) : chain[i] # s /\ ~Found(area, chain[i])
    BY <1>1, <1>2, <1>3 DEF InChain, Owner
  <2>8. \A i \in 1..Len(ch2) : ~Found(ar2, ch2[i])
    <3> SUFFICES ASSUME NEW i \in 1..Len(ch2), Found(ar2, ch2[i])
                 PROVE  FALSE
      OBVIOUS
    <3>1. ch2[i] # s
      BY <2>2, <2>3 DEF Found
    <3>2. i - 1 \in 1..Len(chain) /\ ch2[i] = chain[i - 1]
      BY <2>1, <3>1
    <3>3. chain[i - 1] \in Spaces
      BY <1>1, <3>2 DEF Found, SpacesOrNone
    <3>4. Found(area, chain[i - 1])
      BY <2>3, <3>1, <3>2, <3>3 DEF Found
    <3>5. QED
      BY <2>7, <3>2, <3>4
  <2>9. OneFound(ar2, ch2)
    BY <2>8 DEF OneFound
  <2>10. Once(ch2)
    <3>1. Once(chain)
      BY DEF ServerInv, Inv
    <3>2. SUFFICES ASSUME NEW i \in 1..Len(ch2), NEW j \in 1..Len(ch2), ch2[i] # None, ch2[i] = ch2[j]
                   PROVE  i = j
      BY DEF Once
    <3>3. CASE i = 1 \/ j = 1
      BY <1>1, <2>1, <2>7, <3>2, <3>3
    <3>4. CASE i # 1 /\ j # 1
      <4>1. /\ i - 1 \in 1..Len(chain) /\ ch2[i] = chain[i - 1]
            /\ j - 1 \in 1..Len(chain) /\ ch2[j] = chain[j - 1]
        BY <2>1, <3>4
      <4>2. i - 1 = j - 1
        BY <3>1, <3>2, <4>1 DEF Once
      <4>3. QED
        BY <4>1, <4>2
    <3>5. QED
      BY <3>3, <3>4
  <2>11. InChain(ch2, s)
    <3>1. 1 \in 1..Len(ch2)
      BY <1>1, <2>1
    <3>2. QED
      BY <2>1, <3>1 DEF InChain
  <2>12. Server(s, ch2, ar2, s, r)
    <3>1. Shape(ch2, s, r)
      BY <2>4 DEF Shape, Early, Starting, Owning
    <3>2. Owner(ar2, ch2, s, r)
      BY <2>2, <2>3, <2>4, <2>8, <2>11 DEF Owner, Starting, Owning
    <3>3. Published(ar2, s, r)
      BY <2>4 DEF Published, Stored
    <3>4. QED
      BY <3>1, <3>2, <3>3 DEF Server, Holder
  <2>13. \A a \in Spaces : ~(area[a].ready /\ area[a].local = s)
    BY <1>2, NotBacking DEF ServerInv
  <2>14. Inv(s, chain, area, srv)
    BY <1>4 DEF ServerInv
  <2>15. Inv(s, ch2, ar2, [srv EXCEPT ![s] = r])
    <3>1. OneFound([area EXCEPT ![s] = EmptyArea], ch2) /\ Server(s, ch2, [area EXCEPT ![s] = EmptyArea], s, r)
      BY <2>9, <2>12 DEF ar2
    <3>2. Inv(s, ch2, [area EXCEPT ![s] = EmptyArea], [srv EXCEPT ![s] = r])
      BY <1>2, <2>1, <2>2, <2>4, <2>6, <2>10, <2>13, <2>14, <3>1, HolderStores
    <3>3. QED
      BY <3>2 DEF ar2
  <2>16. QED
    BY <1>4, <1>6, <2>5, <2>15 DEF After, ch2, ar2
<1>7. QED
  BY <1>5, <1>6 DEF AllocateArea

-----------------------------------------------------------------------------
(* The end of a space, and servers of another name.                        *)

\* Clearing the PC numbers of an area takes nothing from what is known of it.
LEMMA ClearedServer ==
    ASSUME NEW b \in Spaces, NEW ar \in [Spaces -> AreaType], NEW ch \in Seq(SpacesOrNone),
           NEW y \in AreaType,
           y.current = ar[b].current, y.named = ar[b].named, y.ready = ar[b].ready,
           y.local = ar[b].local, y.ssNum = 0, y.ssSeq = 0, y.cpNum = 0, y.cpSeq = 0,
           NEW q, NEW t \in Spaces, NEW r \in ServerType, Server(q, ch, ar, t, r)
    PROVE  Server(q, ch, [ar EXCEPT ![b] = y], t, r)
<1> DEFINE ar2 == [ar EXCEPT ![b] = y]
<1>1. \A a \in Spaces : /\ ar2[a].current = ar[a].current /\ ar2[a].named = ar[a].named
                        /\ ar2[a].ready = ar[a].ready /\ ar2[a].local = ar[a].local
                        /\ ar2[a].ssNum \in {0, ar[a].ssNum} /\ ar2[a].ssSeq \in {0, ar[a].ssSeq}
                        /\ ar2[a].cpNum \in {0, ar[a].cpNum} /\ ar2[a].cpSeq \in {0, ar[a].cpSeq}
  OBVIOUS
<1> HIDE DEF ar2
<1>2. Shape(ch, t, r) /\ Holder(q, t, r) /\ Owner(ar, ch, t, r) /\ Published(ar, t, r)
  BY DEF Server
<1>3. \A i \in 1..Len(ch) : Found(ar2, ch[i]) <=> Found(ar, ch[i])
  <2> SUFFICES ASSUME NEW i \in 1..Len(ch)
               PROVE  Found(ar2, ch[i]) <=> Found(ar, ch[i])
    OBVIOUS
  <2>1. ch[i] \in SpacesOrNone
    OBVIOUS
  <2>2. QED
    BY <1>1, <2>1 DEF Found, SpacesOrNone
<1>4. r.pc \in Starting \cup Owning \cup {"stop"} => r.area \in Spaces
  BY <1>2 DEF Shape
<1>5. Owner(ar2, ch, t, r)
  BY <1>1, <1>2, <1>3, <1>4 DEF Owner, Starting, Owning
<1>6. Published(ar2, t, r)
  BY <1>1, <1>2, <1>4 DEF Published, Stored, Starting, Owning
<1>7. QED
  BY <1>2, <1>5, <1>6 DEF Server, ar2

LEMMA EndSpaceKeeps ==
    ASSUME ServerInv, NEW s \in Spaces, EndSpace(s)
    PROVE  After
<1> DEFINE r == [NewServer EXCEPT !.pc = "gone"]
           b == srv[s].area
<1>1. /\ srv[s] \in ServerType /\ srv \in [Spaces -> ServerType] /\ area \in [Spaces -> AreaType]
      /\ enq \in SpacesOrNone /\ chain \in Seq(SpacesOrNone)
      /\ Shape(chain, s, srv[s]) /\ Inv(enq, chain, area, srv)
  BY KnownNow, Types DEF ServerInv
<1>2. srv[s].pc = "ended" /\ UNCHANGED <<enq, chain>> /\ srv' = [srv EXCEPT ![s] = r]
  BY DEF EndSpace
<1>3. r \in ServerType /\ r.pc = "gone" /\ r.i = 1 /\ r.lx = 0 /\ ~r.started /\ ~r.resmgr
  BY ConstantsAssumption DEF NewServer, ServerType, ServerPCs, SpacesOrNone, None
<1> HIDE DEF r
<1>4. \A ar : Server(enq, chain, ar, s, r)
  BY <1>1, <1>2, <1>3 DEF Server, Shape, Holder, Owner, Published, Stored, Holding, Starting, Owning, Early
<1>5. CASE srv[s].resmgr
  <2> DEFINE y == [area[b] EXCEPT !.ssNum = 0, !.ssSeq = 0, !.cpNum = 0, !.cpSeq = 0]
             ar2 == [area EXCEPT ![b] = y]
  <2>1. b \in Spaces
    BY <1>1, <1>5 DEF Shape
  <2>2. /\ y \in AreaType
        /\ y.current = area[b].current /\ y.named = area[b].named /\ y.ready = area[b].ready
        /\ y.local = area[b].local
        /\ y.ssNum = 0 /\ y.ssSeq = 0 /\ y.cpNum = 0 /\ y.cpSeq = 0
    <3>1. area[b] \in AreaType
      BY <1>1, <2>1
    <3> HIDE DEF b
    <3>2. QED
      BY <3>1 DEF AreaType
  <2>3. area' = ar2
    BY <1>5 DEF EndSpace
  <2>4. ar2 \in [Spaces -> AreaType] /\ ar2[b] = y /\ \A a \in Spaces : a # b => ar2[a] = area[a]
    <3> HIDE DEF y, b
    <3> QED BY <1>1, <2>1, <2>2
  <2>5. \A t \in Spaces \ {s} : Server(enq, chain, ar2, t, srv[t])
    <3> HIDE DEF y, b
    <3> SUFFICES ASSUME NEW t \in Spaces
                 PROVE  Server(enq, chain, ar2, t, srv[t])
      OBVIOUS
    <3>1. Server(enq, chain, area, t, srv[t]) /\ srv[t] \in ServerType
      BY <1>1 DEF Inv
    <3>2. QED
      BY <1>1, <2>1, <2>2, <3>1, ClearedServer
  <2> HIDE DEF y, ar2, b
  <2>6. OneFound(ar2, chain)
    <3>1. OneFound(area, chain)
      BY <1>1 DEF Inv
    <3>2. \A i \in 1..Len(chain) : Found(ar2, chain[i]) => Found(area, chain[i])
      <4> SUFFICES ASSUME NEW i \in 1..Len(chain), Found(ar2, chain[i])
                   PROVE  Found(area, chain[i])
        OBVIOUS
      <4>1. chain[i] \in Spaces
        BY <1>1 DEF Found, SpacesOrNone
      <4>2. QED
        BY <2>2, <2>4, <4>1 DEF Found
    <3>3. QED
      BY <3>1, <3>2 DEF OneFound
  <2>7. \A a \in Spaces : ar2[a].ready =>
               /\ ar2[a].local \in Spaces
               /\ Backs(ar2[a], a, ar2[a].local, IF ar2[a].local = s THEN r ELSE srv[ar2[a].local])
    <3> SUFFICES ASSUME NEW a \in Spaces, ar2[a].ready
                 PROVE  /\ ar2[a].local \in Spaces
                        /\ Backs(ar2[a], a, ar2[a].local, IF ar2[a].local = s THEN r ELSE srv[ar2[a].local])
      OBVIOUS
    <3>1. area[a].ready /\ ar2[a].local = area[a].local
      BY <2>2, <2>4
    <3>2. area[a].local \in Spaces /\ Backs(area[a], a, area[a].local, srv[area[a].local])
      BY <1>1, <3>1 DEF Inv, ReadyBacked
    <3>3. CASE area[a].local = s
      <4>1. a = b
        BY <1>2, <3>2, <3>3 DEF Backs, b
      <4>2. Backs(y, a, s, r)
        BY <1>3, <2>2 DEF Backs
      <4>3. QED
        BY <2>4, <3>1, <3>2, <3>3, <4>1, <4>2
    <3>4. CASE area[a].local # s
      <4>1. Backs(ar2[a], a, area[a].local, srv[area[a].local])
        BY <2>2, <2>4, <3>2 DEF Backs
      <4>2. QED
        BY <3>1, <3>2, <3>4, <4>1
    <3>5. QED
      BY <3>3, <3>4
  <2>8. Once(chain)
    BY <1>1 DEF Inv
  <2>9. Inv(enq, chain, ar2, [srv EXCEPT ![s] = r])
    BY <1>1, <1>3, <1>4, <2>4, <2>5, <2>6, <2>7, <2>8, Change
  <2>10. QED
    BY <1>2, <2>3, <2>9 DEF After
<1>6. CASE ~srv[s].resmgr
  <2>1. area' = area
    BY <1>6 DEF EndSpace
  <2>2. \A a \in Spaces : ~(area[a].ready /\ area[a].local = s)
    BY <1>1, <1>2, <1>6, BacksOne DEF Backs
  <2>3. Inv(enq, chain, area, [srv EXCEPT ![s] = r])
    BY <1>1, <1>3, <1>4, <2>2, Quiet
  <2>4. QED
    BY <1>2, <2>1, <2>3 DEF After
<1>7. QED
  BY <1>5, <1>6

\* An entry of another name is put at the head of the chain.
LEMMA OtherEntry ==
    ASSUME NEW q, NEW ch, NEW ar, NEW sv, Inv(q, ch, ar, sv)
    PROVE  Inv(q, <<None>> \o ch, ar, sv)
<1> DEFINE ch2 == <<None>> \o ch
<1>1. ch \in Seq(SpacesOrNone) /\ Once(ch) /\ OneFound(ar, ch)
  BY DEF Inv, Typed
<1>2. /\ ch2 \in Seq(SpacesOrNone) /\ Len(ch2) = Len(ch) + 1 /\ ch2[1] = None
      /\ \A i \in 1..Len(ch) : ch2[i + 1] = ch[i]
      /\ \A i \in 1..Len(ch) + 1 : i = 1 \/ (i - 1 \in 1..Len(ch) /\ ch2[i] = ch[i - 1])
  <2>1. None \in SpacesOrNone
    BY DEF SpacesOrNone
  <2>2. QED
    BY <1>1, <2>1, Pushed
<1> HIDE DEF ch2
<1>3. \A i \in 1..Len(ch2) : ch2[i] # None => i - 1 \in 1..Len(ch) /\ ch2[i] = ch[i - 1]
  BY <1>1, <1>2
<1>4. Once(ch2)
  <2> SUFFICES ASSUME NEW i \in 1..Len(ch2), NEW j \in 1..Len(ch2), ch2[i] # None, ch2[i] = ch2[j]
               PROVE  i = j
    BY DEF Once
  <2>1. /\ i - 1 \in 1..Len(ch) /\ ch2[i] = ch[i - 1]
        /\ j - 1 \in 1..Len(ch) /\ ch2[j] = ch[j - 1]
    BY <1>3
  <2>2. i - 1 = j - 1
    BY <1>1, <2>1 DEF Once
  <2>3. QED
    BY <2>1, <2>2
<1>5. OneFound(ar, ch2)
  <2> SUFFICES ASSUME NEW i \in 1..Len(ch2), NEW j \in 1..Len(ch2), Found(ar, ch2[i]), Found(ar, ch2[j])
               PROVE  i = j
    BY DEF OneFound
  <2>1. /\ i - 1 \in 1..Len(ch) /\ ch2[i] = ch[i - 1]
        /\ j - 1 \in 1..Len(ch) /\ ch2[j] = ch[j - 1]
    BY <1>3 DEF Found
  <2>2. i - 1 = j - 1
    BY <1>1, <2>1 DEF OneFound
  <2>3. QED
    BY <2>1, <2>2
<1>6. \A a \in Spaces : InChain(ch2, a) <=> InChain(ch, a)
  <2> SUFFICES ASSUME NEW a \in Spaces
               PROVE  InChain(ch2, a) <=> InChain(ch, a)
    OBVIOUS
  <2>1. a # None
    BY ConstantsAssumption DEF None
  <2>2. InChain(ch2, a) => InChain(ch, a)
    BY <1>3, <2>1 DEF InChain
  <2>3. ASSUME NEW i \in 1..Len(ch), ch[i] = a
        PROVE  InChain(ch2, a)
    <3>1. i + 1 \in 1..Len(ch2) /\ ch2[i + 1] = a
      BY <1>1, <1>2, <2>3
    <3>2. QED
      BY <3>1 DEF InChain
  <2>4. QED
    BY <2>2, <2>3 DEF InChain
<1>7. ASSUME NEW t \in Spaces
      PROVE  Server(q, ch2, ar, t, sv[t])
  <2>1. Server(q, ch, ar, t, sv[t])
    BY DEF Inv
  <2>2. Shape(ch2, t, sv[t])
    BY <1>6, <2>1 DEF Server, Shape
  <2>3. \A i \in 1..Len(ch2) : Found(ar, ch2[i]) => i - 1 \in 1..Len(ch) /\ ch2[i] = ch[i - 1]
    BY <1>3 DEF Found
  <2>4. sv[t].pc \in Starting \cup Owning => sv[t].area \in Spaces
    BY <2>1 DEF Server, Shape
  <2>5. Owner(ar, ch, t, sv[t])
    BY <2>1 DEF Server
  <2>6. sv[t].pc = "allocate" => \A i \in 1..Len(ch2) : ~Found(ar, ch2[i])
    BY <2>3, <2>5 DEF Owner
  <2>7. sv[t].pc = "take" => \A i \in 1..Len(ch2) : Found(ar, ch2[i]) => ch2[i] = sv[t].area
    BY <2>3, <2>5 DEF Owner
  <2>8. sv[t].pc \in Starting \cup Owning => InChain(ch2, sv[t].area)
    BY <1>6, <2>4, <2>5 DEF Owner
  <2>9. Owner(ar, ch2, t, sv[t])
    BY <2>5, <2>6, <2>7, <2>8 DEF Owner
  <2>10. QED
    BY <2>1, <2>2, <2>9 DEF Server
<1>8. Typed(q, ch2, ar, sv) /\ ReadyBacked(ar, sv)
  BY <1>2 DEF Inv, Typed
<1>9. QED
  BY <1>4, <1>5, <1>7, <1>8 DEF Inv, ch2

LEMMA OtherServerKeeps ==
    ASSUME ServerInv, OtherServer
    PROVE  After
BY OtherEntry DEF OtherServer, After, ServerInv

-----------------------------------------------------------------------------
(* The calls.                                                              *)

\* A step of the call of c, which leaves it with k.
OneCall(c) ==
    \E k \in ClientType :
        /\ k.pc \notin {"idle", "done", "abended"} => k.area \in Spaces
        /\ client' = [client EXCEPT ![c] = k]
        /\ UNCHANGED serverVars

LEMMA NewCallType == NewCall \in ClientType /\ NewCall.pc = "idle"
BY DEF NewCall, ClientType, ClientPCs, Services, SpacesOrNone, ReturnCodes, None

LEMMA DoneIsOneCall ==
    ASSUME NEW c \in Clients, NEW rc \in ReturnCodes, client' = Done(c, rc), UNCHANGED serverVars
    PROVE  OneCall(c)
<1> DEFINE k == [NewCall EXCEPT !.pc = "done", !.rc = rc]
<1>1. k \in ClientType /\ k.pc = "done"
  BY NewCallType DEF ClientType, ClientPCs
<1>2. client' = [client EXCEPT ![c] = k]
  BY DEF Done
<1> HIDE DEF k
<1>3. QED
  BY <1>1, <1>2 DEF OneCall

LEMMA AbendedIsOneCall ==
    ASSUME NEW c \in Clients, UNCHANGED serverVars,
           client' = [client EXCEPT ![c] = [NewCall EXCEPT !.pc = "abended"]]
    PROVE  OneCall(c)
<1>1. [NewCall EXCEPT !.pc = "abended"] \in ClientType /\ [NewCall EXCEPT !.pc = "abended"].pc = "abended"
  BY NewCallType DEF ClientType, ClientPCs
<1>2. QED
  BY <1>1 DEF OneCall

\* What is known of a call that is under way.
LEMMA CallKnown ==
    ASSUME ServerInv, ClientInv, NEW c \in Clients
    PROVE  /\ client \in [Clients -> ClientType] /\ client[c] \in ClientType
           /\ client[c].pc \notin {"idle", "done", "abended"} =>
                 client[c].area \in Spaces /\ area[client[c].area] \in AreaType
BY Types DEF ClientInv

\* A call goes on with the same area.
LEMMA GoesOnIsOneCall ==
    ASSUME ServerInv, ClientInv, NEW c \in Clients, UNCHANGED serverVars, NEW k \in ClientType,
           client[c].pc \notin {"idle", "done", "abended"}, k.area = client[c].area,
           client' = [client EXCEPT ![c] = k]
    PROVE  OneCall(c)
BY CallKnown DEF OneCall

LEMMA CheckVersionType ==
    ASSUME ServerInv, ClientInv, NEW c \in Clients, CheckVersion(c)
    PROVE  OneCall(c)
<1>1. /\ client \in [Clients -> ClientType] /\ client[c] \in ClientType /\ client[c].area \in Spaces
      /\ area[client[c].area] \in AreaType /\ client[c].pc \notin {"idle", "done", "abended"}
      /\ UNCHANGED serverVars
  BY CallKnown DEF CheckVersion, Reads
<1>2. CASE client' = Done(c, "WRONG_SERVER_VERSION")
  BY <1>1, <1>2, DoneIsOneCall DEF ReturnCodes
<1>3. CASE client' = [client EXCEPT ![c].pc = "ready"]
  <2> DEFINE k == [client[c] EXCEPT !.pc = "ready"]
  <2>1. k \in ClientType /\ k.area = client[c].area
    BY <1>1, ConstantsAssumption DEF ClientType, ClientPCs, AreaType, SpacesOrNone
  <2>2. client' = [client EXCEPT ![c] = k]
    BY <1>1, <1>3
  <2> HIDE DEF k
  <2>3. QED
    BY <1>1, <2>1, <2>2, GoesOnIsOneCall
<1>4. QED
  BY <1>2, <1>3 DEF CheckVersion, Reads

LEMMA CheckReadyType ==
    ASSUME ServerInv, ClientInv, NEW c \in Clients, CheckReady(c)
    PROVE  OneCall(c)
<1>1. /\ client \in [Clients -> ClientType] /\ client[c] \in ClientType /\ client[c].area \in Spaces
      /\ area[client[c].area] \in AreaType /\ client[c].pc \notin {"idle", "done", "abended"}
      /\ UNCHANGED serverVars
  BY CallKnown DEF CheckReady, Reads
<1>2. CASE client' = Done(c, "SERVER_NOT_READY")
  BY <1>1, <1>2, DoneIsOneCall DEF ReturnCodes
<1>3. CASE client' = [client EXCEPT ![c].pc = "flags"]
  <2> DEFINE k == [client[c] EXCEPT !.pc = "flags"]
  <2>1. k \in ClientType /\ k.area = client[c].area
    BY <1>1, ConstantsAssumption DEF ClientType, ClientPCs, AreaType, SpacesOrNone
  <2>2. client' = [client EXCEPT ![c] = k]
    BY <1>1, <1>3
  <2> HIDE DEF k
  <2>3. QED
    BY <1>1, <2>1, <2>2, GoesOnIsOneCall
<1>4. QED
  BY <1>2, <1>3 DEF CheckReady, Reads

LEMMA ReadServiceFlagsType ==
    ASSUME ServerInv, ClientInv, NEW c \in Clients, ReadServiceFlags(c)
    PROVE  OneCall(c)
<1>1. /\ client \in [Clients -> ClientType] /\ client[c] \in ClientType /\ client[c].area \in Spaces
      /\ area[client[c].area] \in AreaType /\ client[c].pc \notin {"idle", "done", "abended"}
      /\ UNCHANGED serverVars
  BY CallKnown DEF ReadServiceFlags, Reads
<1>2. CASE client' = [client EXCEPT ![c].pc = "number", ![c].kind = IF area[client[c].area].table[client[c].svc] = "ss" THEN "ss" ELSE "cp"]
  <2> DEFINE k == [client[c] EXCEPT !.pc = "number", !.kind = IF area[client[c].area].table[client[c].svc] = "ss" THEN "ss" ELSE "cp"]
  <2>1. k \in ClientType /\ k.area = client[c].area
    BY <1>1, ConstantsAssumption DEF ClientType, ClientPCs, AreaType, SpacesOrNone
  <2>2. client' = [client EXCEPT ![c] = k]
    BY <1>1, <1>2
  <2> HIDE DEF k
  <2>3. QED
    BY <1>1, <2>1, <2>2, GoesOnIsOneCall
<1>3. QED
  BY <1>2 DEF ReadServiceFlags, Reads

LEMMA ReadPCNumberType ==
    ASSUME ServerInv, ClientInv, NEW c \in Clients, ReadPCNumber(c)
    PROVE  OneCall(c)
<1> DEFINE y == area[client[c].area]
           num == y[IF client[c].kind = "ss" THEN "ssNum" ELSE "cpNum"]
           k == [client[c] EXCEPT !.pc = "sequence", !.num = num]
<1>1. /\ client \in [Clients -> ClientType] /\ client[c] \in ClientType /\ y \in AreaType
      /\ client[c].pc \notin {"idle", "done", "abended"} /\ UNCHANGED serverVars
      /\ client' = [client EXCEPT ![c].pc = "sequence", ![c].num = num]
  BY CallKnown DEF ReadPCNumber, Reads
<1>2. y.ssNum \in Nat /\ y.cpNum \in Nat
  <2> HIDE DEF y
  <2>1. y.ssNum \in LXs \cup {0} /\ y.cpNum \in {lx + 1 : lx \in LXs} \cup {0}
    BY <1>1 DEF AreaType
  <2>2. \A lx \in LXs : lx \in Nat /\ lx + 1 \in Nat
    BY ConstantsAssumption
  <2>3. \A n \in {lx + 1 : lx \in LXs} : n \in Nat
    BY <2>2
  <2>4. QED
    BY <2>1, <2>2, <2>3
<1>3. num \in Nat
  <2> HIDE DEF y
  <2>1. CASE client[c].kind = "ss"
    BY <1>2, <2>1
  <2>2. CASE client[c].kind # "ss"
    BY <1>2, <2>2
  <2>3. QED
    BY <2>1, <2>2
<1> HIDE DEF num
<1>4. k \in ClientType /\ k.area = client[c].area
  BY <1>1, <1>3 DEF ClientType, ClientPCs
<1>5. client' = [client EXCEPT ![c] = k]
  BY <1>1
<1> HIDE DEF k
<1>6. QED
  BY <1>1, <1>4, <1>5, GoesOnIsOneCall

LEMMA ReadSequenceNumberType ==
    ASSUME ServerInv, ClientInv, NEW c \in Clients, ReadSequenceNumber(c)
    PROVE  OneCall(c)
<1>1. /\ client \in [Clients -> ClientType] /\ client[c] \in ClientType /\ client[c].area \in Spaces
      /\ area[client[c].area] \in AreaType /\ client[c].pc \notin {"idle", "done", "abended"}
      /\ UNCHANGED serverVars
  BY CallKnown DEF ReadSequenceNumber, Reads
<1>2. CASE client' = Done(c, "ZERO_PC_NUMBER")
  BY <1>1, <1>2, DoneIsOneCall DEF ReturnCodes
<1>3. CASE client' = [client EXCEPT ![c].pc = "pc", ![c].seq = area[client[c].area][IF client[c].kind = "ss" THEN "ssSeq" ELSE "cpSeq"]]
  <2> DEFINE k == [client[c] EXCEPT !.pc = "pc", !.seq = area[client[c].area][IF client[c].kind = "ss" THEN "ssSeq" ELSE "cpSeq"]]
  <2>1. k \in ClientType /\ k.area = client[c].area
    BY <1>1, ConstantsAssumption DEF ClientType, ClientPCs, AreaType, SpacesOrNone, None
  <2>2. client' = [client EXCEPT ![c] = k]
    BY <1>1, <1>3
  <2> HIDE DEF k
  <2>3. QED
    BY <1>1, <2>1, <2>2, GoesOnIsOneCall
<1>4. QED
  BY <1>2, <1>3 DEF ReadSequenceNumber, Reads

LEMMA ReadLocalServerType ==
    ASSUME ServerInv, ClientInv, NEW c \in Clients, ReadLocalServer(c)
    PROVE  OneCall(c)
<1>1. /\ client \in [Clients -> ClientType] /\ client[c] \in ClientType /\ client[c].area \in Spaces
      /\ area[client[c].area] \in AreaType /\ client[c].pc \notin {"idle", "done", "abended"}
      /\ UNCHANGED serverVars
  BY CallKnown DEF ReadLocalServer, Reads
<1>2. CASE client' = Done(c, "SERVER_NULL")
  BY <1>1, <1>2, DoneIsOneCall DEF ReturnCodes
<1>3. CASE client' = [client EXCEPT ![c].pc = "service"]
  <2> DEFINE k == [client[c] EXCEPT !.pc = "service"]
  <2>1. k \in ClientType /\ k.area = client[c].area
    BY <1>1, ConstantsAssumption DEF ClientType, ClientPCs, AreaType, SpacesOrNone
  <2>2. client' = [client EXCEPT ![c] = k]
    BY <1>1, <1>3
  <2> HIDE DEF k
  <2>3. QED
    BY <1>1, <2>1, <2>2, GoesOnIsOneCall
<1>4. QED
  BY <1>2, <1>3 DEF ReadLocalServer, Reads

LEMMA CheckServiceType ==
    ASSUME ServerInv, ClientInv, NEW c \in Clients, CheckService(c)
    PROVE  OneCall(c)
<1>1. /\ client \in [Clients -> ClientType] /\ client[c] \in ClientType /\ client[c].area \in Spaces
      /\ area[client[c].area] \in AreaType /\ client[c].pc \notin {"idle", "done", "abended"}
      /\ UNCHANGED serverVars
  BY CallKnown DEF CheckService, Reads
<1>2. CASE client' = Done(c, "SERVICE_NOT_INITIALIZED")
  BY <1>1, <1>2, DoneIsOneCall DEF ReturnCodes
<1>3. CASE client' = Done(c, "IMPROPER_SERVICE_AS")
  BY <1>1, <1>3, DoneIsOneCall DEF ReturnCodes
<1>4. CASE client' = [client EXCEPT ![c].pc = "call"]
  <2> DEFINE k == [client[c] EXCEPT !.pc = "call"]
  <2>1. k \in ClientType /\ k.area = client[c].area
    BY <1>1, ConstantsAssumption DEF ClientType, ClientPCs, AreaType, SpacesOrNone
  <2>2. client' = [client EXCEPT ![c] = k]
    BY <1>1, <1>4
  <2> HIDE DEF k
  <2>3. QED
    BY <1>1, <2>1, <2>2, GoesOnIsOneCall
<1>5. QED
  BY <1>2, <1>3, <1>4 DEF CheckService, Reads

LEMMA CallUserFunctionType ==
    ASSUME ServerInv, ClientInv, NEW c \in Clients, CallUserFunction(c)
    PROVE  OneCall(c)
<1>1. /\ client \in [Clients -> ClientType] /\ client[c] \in ClientType /\ client[c].area \in Spaces
      /\ area[client[c].area] \in AreaType /\ client[c].pc \notin {"idle", "done", "abended"}
      /\ UNCHANGED serverVars
  BY CallKnown DEF CallUserFunction, Reads
<1>2. CASE client' = Done(c, "FUNCTION_NULL")
  BY <1>1, <1>2, DoneIsOneCall DEF ReturnCodes
<1>3. CASE client' = [client EXCEPT ![c].pc = "done", ![c].rc = "OK"]
  <2> DEFINE k == [client[c] EXCEPT !.pc = "done", !.rc = "OK"]
  <2>1. k \in ClientType /\ k.area = client[c].area
    BY <1>1, ConstantsAssumption DEF ClientType, ClientPCs, AreaType, SpacesOrNone, ReturnCodes
  <2>2. client' = [client EXCEPT ![c] = k]
    BY <1>1, <1>3
  <2> HIDE DEF k
  <2>3. QED
    BY <1>1, <2>1, <2>2, GoesOnIsOneCall
<1>4. QED
  BY <1>2, <1>3 DEF CallUserFunction, Reads

LEMMA ReadServerAgainType ==
    ASSUME ServerInv, ClientInv, NEW c \in Clients, ReadServerAgain(c)
    PROVE  OneCall(c)
<1>1. /\ client \in [Clients -> ClientType] /\ client[c] \in ClientType /\ client[c].area \in Spaces
      /\ area[client[c].area] \in AreaType /\ client[c].pc \notin {"idle", "done", "abended"}
      /\ UNCHANGED serverVars
  BY CallKnown DEF ReadServerAgain, Reads
<1>2. CASE client' = [client EXCEPT ![c].pc = "queue", ![c].server = area[client[c].area].local]
  <2> DEFINE k == [client[c] EXCEPT !.pc = "queue", !.server = area[client[c].area].local]
  <2>1. k \in ClientType /\ k.area = client[c].area
    BY <1>1, ConstantsAssumption DEF ClientType, ClientPCs, AreaType, SpacesOrNone, None
  <2>2. client' = [client EXCEPT ![c] = k]
    BY <1>1, <1>2
  <2> HIDE DEF k
  <2>3. QED
    BY <1>1, <2>1, <2>2, GoesOnIsOneCall
<1>3. QED
  BY <1>2 DEF ReadServerAgain, Reads

LEMMA LogServiceType ==
    ASSUME NEW c \in Clients, LogService(c)
    PROVE  OneCall(c)
BY DoneIsOneCall DEF LogService, Reads, ReturnCodes

LEMMA ReturnType ==
    ASSUME NEW c \in Clients, Return(c)
    PROVE  OneCall(c)
BY NewCallType DEF Return, Reads, OneCall

LEMMA ProgramCallType ==
    ASSUME ServerInv, ClientInv, NEW c \in Clients, ProgramCall(c)
    PROVE  OneCall(c)
<1> DEFINE s == client[c].seq
<1>1. /\ client \in [Clients -> ClientType] /\ client[c] \in ClientType
      /\ client[c].pc \notin {"idle", "done", "abended"} /\ UNCHANGED serverVars
  BY CallKnown DEF ProgramCall, Reads
<1>2. CASE client' = [client EXCEPT ![c] = [NewCall EXCEPT !.pc = "abended"]]
  BY <1>1, <1>2, AbendedIsOneCall
<1>3. CASE /\ s # None /\ Enters(s, client[c].num, s)
           /\ client' = [client EXCEPT ![c] =
                           [@ EXCEPT !.pc = "local", !.home = s, !.area = srv[s].area, !.num = 0, !.seq = 0]]
  <2> DEFINE k == [client[c] EXCEPT !.pc = "local", !.home = s, !.area = srv[s].area, !.num = 0, !.seq = 0]
  <2>1. s \in Spaces
    BY <1>1, <1>3 DEF ClientType, SpacesOrNone
  <2>2. srv[s].lx # 0
    BY <1>3 DEF Enters, Connected
  <2>3. srv[s].area \in Spaces
    BY <2>1, <2>2, KnownNow DEF Shape
  <2>4. k \in ClientType /\ k.area = srv[s].area
    BY <1>1, <2>1, <2>3 DEF ClientType, ClientPCs, SpacesOrNone, None
  <2>5. client' = [client EXCEPT ![c] = k]
    BY <1>1, <1>3
  <2> HIDE DEF k, s
  <2>6. QED
    BY <1>1, <2>3, <2>4, <2>5 DEF OneCall
<1>4. QED
  BY <1>2, <1>3 DEF ProgramCall, Reads

LEMMA BeginCallType ==
    ASSUME ServerInv, ClientInv, NEW c \in Clients, BeginCall(c)
    PROVE  OneCall(c)
<1>1. chain \in Seq(SpacesOrNone)
  BY Types
<1>2. ASSUME NEW v \in Services, NEW a \in Spaces, UNCHANGED serverVars,
             client' = [client EXCEPT ![c] = [NewCall EXCEPT !.pc = "check", !.svc = v, !.area = a]]
      PROVE  OneCall(c)
  <2> DEFINE k == [NewCall EXCEPT !.pc = "check", !.svc = v, !.area = a]
  <2>1. k \in ClientType /\ k.area = a
    BY NewCallType DEF ClientType, ClientPCs, SpacesOrNone
  <2> HIDE DEF k
  <2>2. QED
    BY <1>2, <2>1 DEF OneCall, k
<1>3. ASSUME NEW a \in Spaces, UNCHANGED serverVars,
             client' = [client EXCEPT ![c] = [NewCall EXCEPT !.pc = "check", !.area = a]]
      PROVE  OneCall(c)
  <2> DEFINE k == [NewCall EXCEPT !.pc = "check", !.area = a]
  <2>1. k \in ClientType /\ k.area = a
    BY NewCallType DEF ClientType, ClientPCs, SpacesOrNone
  <2> HIDE DEF k
  <2>2. QED
    BY <1>3, <2>1 DEF OneCall, k
<1>4. ASSUME NEW v \in Services, CallService(c, v)
      PROVE  OneCall(c)
  <2>1. CASE Lookup.rc = "OK"
    <3>1. Lookup.area \in Spaces
      BY <2>1, LookupOK
    <3>2. QED
      BY <1>2, <1>4, <2>1, <3>1 DEF CallService
  <2>2. CASE Lookup.rc # "OK"
    <3>1. Lookup.rc \in ReturnCodes
      BY DEF Lookup, Walk, ReturnCodes
    <3>2. client' = Done(c, Lookup.rc) /\ UNCHANGED serverVars
      BY <1>4, <2>2 DEF CallService, Done
    <3>3. QED
      BY <3>1, <3>2, DoneIsOneCall
  <2>3. QED
    BY <2>1, <2>2
<1>5. ASSUME CallLookedUp(c)
      PROVE  OneCall(c)
  <2>1. PICK i \in 1..Len(chain) : LookupRoutine.area = chain[i] /\ Current(chain[i])
    BY <1>5, WalkFinds DEF CallLookedUp, LookupRoutine
  <2>2. LookupRoutine.area \in Spaces
    BY <1>1, <2>1 DEF Current, SpacesOrNone
  <2>3. QED
    BY <1>3, <1>5, <2>2 DEF CallLookedUp
<1>6. ASSUME NEW a \in Spaces, CallService2(c, a)
      PROVE  OneCall(c)
  BY <1>3, <1>6 DEF CallService2
<1>7. QED
  BY <1>4, <1>5, <1>6 DEF BeginCall

LEMMA CallStepKeeps ==
    ASSUME ServerInv, ClientInv, NEW c \in Clients, Call(c) \/ BeginCall(c)
    PROVE  ClientInv' /\ UNCHANGED serverVars
<1>1. OneCall(c)
  BY CheckVersionType, CheckReadyType, ReadServiceFlagsType, ReadPCNumberType, ReadSequenceNumberType,
     ProgramCallType, ReadLocalServerType, CheckServiceType, CallUserFunctionType, ReadServerAgainType,
     LogServiceType, ReturnType, BeginCallType DEF Call
<1>2. PICK k \in ClientType :
        /\ k.pc \notin {"idle", "done", "abended"} => k.area \in Spaces
        /\ client' = [client EXCEPT ![c] = k]
        /\ UNCHANGED serverVars
  BY <1>1 DEF OneCall
<1>3. QED
  BY <1>2 DEF ClientInv

-----------------------------------------------------------------------------
(* The theorems.                                                           *)

SystemInv == ServerInv /\ ClientInv

LEMMA InitEstablishes ==
    ASSUME Init
    PROVE  SystemInv
<1>1. Typed(None, <<>>, area, srv)
  <2>1. EmptyArea \in AreaType
    <3>1. EmptyTable \in [Services -> {"none", "ss", "cp"}]
      BY DEF EmptyTable
    <3>2. QED
      BY <3>1 DEF EmptyArea, AreaType, None
  <2>2. [NewServer EXCEPT !.pc = "unused"] \in ServerType
    BY DEF NewServer, ServerType, ServerPCs, SpacesOrNone, None
  <2>3. QED
    BY <2>1, <2>2 DEF Init, Typed, SpacesOrNone
<1>2. \A s \in Spaces : /\ srv[s].pc = "unused" /\ srv[s].i = 1 /\ srv[s].lx = 0
                        /\ ~srv[s].started /\ ~srv[s].resmgr
  BY DEF Init, NewServer
<1>3. \A s \in Spaces : Server(None, <<>>, area, s, srv[s])
  BY <1>2 DEF Server, Shape, Holder, Owner, Published, Stored, InChain, Holding, Starting, Owning
<1>4. \A a \in Spaces : ~area[a].ready
  BY DEF Init, EmptyArea
<1>5. Once(<<>>) /\ OneFound(area, <<>>)
  BY DEF Once, OneFound
<1>6. ServerInv
  BY <1>1, <1>3, <1>4, <1>5 DEF Init, ServerInv, Inv, ReadyBacked
<1>7. ClientInv
  BY NewCallType DEF Init, ClientInv
<1>8. QED
  BY <1>6, <1>7 DEF SystemInv

\* The space that ends abends the calls that had entered it.
LEMMA EndSpaceClients ==
    ASSUME ClientInv, NEW s \in Spaces, EndSpace(s)
    PROVE  ClientInv'
<1>1. [NewCall EXCEPT !.pc = "abended"] \in ClientType /\ [NewCall EXCEPT !.pc = "abended"].pc = "abended"
  BY NewCallType DEF ClientType, ClientPCs
<1>2. QED
  BY <1>1 DEF ClientInv, EndSpace

LEMMA ServeKeeps ==
    ASSUME ServerInv, NEW s \in Spaces, Serve(s)
    PROVE  After /\ other' = other /\ routine' \in BOOLEAN /\ client' = client
<1>1. After
  BY LoadServerKeeps, ColdStartKeeps, FindAreaKeeps, AllocateAreaKeeps, TakeAreaKeeps, CopyServiceTableKeeps,
     EstablishPCRoutinesKeeps, PublishPCInfoKeeps, InstallResourceManagerKeeps, StartServerKeeps,
     LeaveMainLoopKeeps, EndLoopKeeps, StopServerKeeps, ReleaseResourcesKeeps DEF Serve
<1>2. other' = other /\ client' = client
  BY DEF Serve, LoadServer, ColdStart, FindArea, AllocateArea, TakeArea, CopyServiceTable, EstablishPCRoutines,
         PublishPCInfo, InstallResourceManager, StartServer, LeaveMainLoop, EndLoop, StopServer, ReleaseResources
<1>3. routine \in BOOLEAN
  BY DEF ServerInv
<1>4. routine' \in {routine, TRUE, FALSE}
  BY DEF Serve, LoadServer, ColdStart, FindArea, AllocateArea, TakeArea, CopyServiceTable, EstablishPCRoutines,
         PublishPCInfo, InstallResourceManager, StartServer, LeaveMainLoop, EndLoop, StopServer, ReleaseResources
<1>5. QED
  BY <1>1, <1>2, <1>3, <1>4

LEMMA FateKeeps ==
    ASSUME ServerInv, ClientInv, NEW s \in Spaces, Fate(s)
    PROVE  After /\ other' = other /\ routine' = routine /\ ClientInv'
<1>1. After
  BY LaunchKeeps, AbendMainKeeps, RemoveServerKeeps, EndTaskKeeps, EndSpaceKeeps DEF Fate
<1>2. other' = other /\ routine' = routine
  BY DEF Fate, Launch, AbendMain, RemoveServer, EndTask, EndSpace
<1>3. CASE EndSpace(s)
  BY <1>1, <1>2, <1>3, EndSpaceClients
<1>4. CASE client' = client
  BY <1>1, <1>2, <1>4 DEF ClientInv
<1>5. QED
  BY <1>3, <1>4 DEF Fate, Launch, AbendMain, RemoveServer, EndTask

LEMMA NextKeeps ==
    ASSUME SystemInv, [Next]_vars
    PROVE  SystemInv'
<1>1. ServerInv /\ ClientInv /\ other \in BOOLEAN /\ routine \in BOOLEAN
  BY DEF SystemInv, ServerInv
<1>2. CASE \E s \in Spaces : Serve(s)
  BY <1>1, <1>2, ServeKeeps DEF SystemInv, ServerInv, After, ClientInv
<1>3. CASE \E s \in Spaces : Fate(s)
  BY <1>1, <1>3, FateKeeps DEF SystemInv, ServerInv, After
<1>4. CASE OtherServer
  <2>1. After
    BY <1>1, <1>4, OtherServerKeeps
  <2>2. other' \in BOOLEAN /\ routine' = routine /\ client' = client
    BY <1>4 DEF OtherServer
  <2>3. QED
    BY <1>1, <2>1, <2>2 DEF SystemInv, ServerInv, After, ClientInv
<1>5. CASE \E c \in Clients : Call(c) \/ BeginCall(c)
  <2>1. ClientInv' /\ UNCHANGED serverVars
    BY <1>1, <1>5, CallStepKeeps
  <2>2. QED
    BY <1>1, <2>1 DEF SystemInv, ServerInv, serverVars
<1>6. CASE UNCHANGED vars
  BY <1>1, <1>6 DEF vars, SystemInv, ServerInv, ClientInv
<1>7. QED
  BY <1>2, <1>3, <1>4, <1>5, <1>6 DEF Next

\* Every state the system reaches satisfies the invariant, whatever the number
\* of starts and clients and the bound of the chain.
THEOREM InvariantTheorem == Spec => []SystemInv
<1>1. Init => SystemInv
  BY InitEstablishes
<1>2. SystemInv /\ [Next]_vars => SystemInv'
  BY NextKeeps
<1>3. QED
  BY <1>1, <1>2, PTL DEF Spec

\* Every variable holds a value of its kind.
THEOREM TypeTheorem == Spec => []TypeOK
<1>1. SystemInv => TypeOK
  <2> SUFFICES ASSUME SystemInv
               PROVE  TypeOK
    OBVIOUS
  <2>1. ServerInv /\ ClientInv
    BY DEF SystemInv
  <2>2. /\ enq \in SpacesOrNone /\ chain \in Seq(SpacesOrNone)
        /\ area \in [Spaces -> AreaType] /\ other \in BOOLEAN /\ routine \in BOOLEAN
    BY <2>1, Types DEF ServerInv
  <2>3. ASSUME NEW s \in Spaces
        PROVE  srv[s].pc \in ServerPCs /\ srv[s].i \in 1..8
               /\ srv[s].area \in Spaces \cup {None} /\ srv[s].lx \in LXs \cup {0}
    <3>1. srv[s] \in ServerType /\ Shape(chain, s, srv[s])
      BY <2>1, KnownNow
    <3>2. srv[s].i \in 1..8
      BY <3>1 DEF Shape
    <3>3. QED
      BY <3>1, <3>2 DEF ServerType, SpacesOrNone
  <2>4. ASSUME NEW c \in Clients
        PROVE  client[c].pc \in ClientPCs /\ client[c].area \in Spaces \cup {None}
    BY <2>1 DEF ClientInv, ClientType, SpacesOrNone
  <2>5. QED
    BY <2>2, <2>3, <2>4 DEF TypeOK, SpacesOrNone
<1>2. QED
  BY <1>1, InvariantTheorem, PTL

\* However starts of a server overlap and wherever they are cut short, its name
\* has at most one current area.
THEOREM OneCurrentAreaTheorem == Spec => []OneCurrentArea
<1>1. SystemInv => OneCurrentArea
  BY OneCurrentIs DEF SystemInv, ServerInv, Inv
<1>2. QED
  BY <1>1, InvariantTheorem, PTL

\* A server in its main loop is found by its name, and the area that is found
\* says it is ready, designates it and holds no PC number but its own.
THEOREM RunningServerTheorem == Spec => []RunningServerReachable
<1>1. SystemInv => RunningServerReachable
  <2> SUFFICES ASSUME SystemInv, NEW s \in Spaces, srv[s].pc = "main"
               PROVE  LET a == srv[s].area
                      IN /\ Len(chain) <= MaxChain => Lookup = [rc |-> "OK", area |-> a]
                         /\ area[a].ready
                         /\ area[a].local = s
                         /\ \A i \in 1..Len(PublishOrder) :
                               area[a][PublishOrder[i]] \in {0, PcInfo(s)[PublishOrder[i]]}
    BY DEF RunningServerReachable
  <2> DEFINE a == srv[s].area
  <2>1. ServerInv
    BY DEF SystemInv
  <2>2. /\ Shape(chain, s, srv[s]) /\ Owner(area, chain, s, srv[s]) /\ Published(area, s, srv[s])
        /\ chain \in Seq(SpacesOrNone)
    BY <2>1, KnownNow, Types
  <2>3. a \in Spaces /\ InChain(chain, a) /\ area[a].current /\ area[a].named /\ area[a].local = s
        /\ area[a].ready
    BY <2>2 DEF Shape, Owner, Starting, Owning
  <2>4. ASSUME Len(chain) <= MaxChain
        PROVE  Lookup = [rc |-> "OK", area |-> a]
    <3>1. PICK i \in 1..Len(chain) : chain[i] = a
      BY <2>3 DEF InChain
    <3>2. i <= MaxChain /\ Current(chain[i])
      BY <2>2, <2>3, <2>4, <3>1, ConstantsAssumption DEF Current, None
    <3>3. Lookup.rc = "OK" /\ Lookup = [rc |-> "OK", area |-> Lookup.area]
      BY <3>2 DEF Lookup, Walk
    <3>4. Lookup.area = a
      BY <2>1, <3>1, <3>2, <3>3, LookupOK DEF Current, Found
    <3>5. QED
      BY <3>3, <3>4
  <2>5. /\ area[a].ssNum \in {0, srv[s].lx} /\ area[a].ssSeq \in {0, s}
        /\ area[a].cpNum \in {0, srv[s].lx + 1} /\ area[a].cpSeq \in {0, s}
    BY <2>2 DEF Published, Stored
  <2>6. ASSUME NEW i \in 1..Len(PublishOrder)
        PROVE  area[a][PublishOrder[i]] \in {0, PcInfo(s)[PublishOrder[i]]}
    <3> HIDE DEF a
    <3>1. i = 1 \/ i = 2 \/ i = 3 \/ i = 4
      BY DEF PublishOrder
    <3>2. QED
      BY <2>5, <3>1 DEF PublishOrder, PcInfo
  <2>7. QED
    BY <2>3, <2>4, <2>6
<1>2. QED
  BY <1>1, InvariantTheorem, PTL

\* An area that says it is ready leads to no address space that is gone.
THEOREM NoCallToTheDeadTheorem == Spec => []NoCallToTheDead
<1>1. SystemInv => NoCallToTheDead
  BY DEF SystemInv, ServerInv, Inv, ReadyBacked, Backs, NoCallToTheDead
<1>2. QED
  BY <1>1, InvariantTheorem, PTL

-----------------------------------------------------------------------------
(* The main loop and the command tasks (CmsServerTasks), for any number of *)
(* messages, commands and cells: no message element is lost or freed       *)
(* twice, and the callbacks that run at once stay below the limit.         *)
(*                                                                         *)
(* MessagesInv says of the two ends of a message's way what its element's  *)
(* cell says: a caller, the queue or the hand of one task has it while it  *)
(* is taken.  TasksInv says that commandTaskCount is the number of tasks   *)
(* between its two updates.                                                *)


Flusher == Commands \cup {Main}
Pools == {"none", "main", "fallback"}
Calls == {"new", "holding", "refused", "ok"}
Stages ==
    {"none", "attached", "rejected", "target", "callback", "flush", "flushing", "log", "ending", "over"}

MessageType ==
    /\ term \in BOOLEAN
    /\ queue \in Seq(Msgs)
    /\ hand \in [Flusher -> Msgs \cup {NoMsg}]
    /\ cell \in [Msgs -> Pools]
    /\ call \in [Msgs -> Calls]
    /\ freed \subseteq Msgs
    /\ command \in [Commands -> Stages]

-----------------------------------------------------------------------------
(* The inductive invariant of the messages.                                *)

\* Where the main task or a FLUSH command may have the message.
Queued(m) == \E i \in 1..Len(queue) : queue[i] = m
InHand(m) == \E t \in Flusher : hand[t] = m

\* A message is in one element of the queue or one hand, if in any.
QueuedOnce == \A i, j \in 1..Len(queue) : queue[i] = queue[j] => i = j
HandedOnce == \A t, u \in Flusher : hand[t] = hand[u] /\ hand[t] \in Msgs => t = u
Apart == \A m \in Msgs : ~(Queued(m) /\ InHand(m))

\* What is on its way was enqueued, is not freed, and has its cell.
OnItsWay ==
    \A m \in Msgs : Queued(m) \/ InHand(m) =>
        call[m] = "ok" /\ m \notin freed /\ cell[m] # "none"

\* The cells of the others.
Off ==
    \A m \in Msgs :
        /\ call[m] \in {"new", "refused"} \/ m \in freed => cell[m] = "none"
        /\ call[m] = "holding" => cell[m] # "none"
        /\ m \in freed => call[m] = "ok"

\* A command has a message in hand while it flushes, and then only.
HandBusy == \A k \in Commands : hand[k] \in Msgs <=> command[k] = "flushing"

\* Until termination a cell that is taken is somewhere.
Kept == ~term => \A m \in Msgs : cell[m] # "none" => call[m] = "holding" \/ Queued(m) \/ InHand(m)

MessagesInv ==
    /\ MessageType /\ QueuedOnce /\ HandedOnce /\ Apart /\ OnItsWay /\ Off /\ HandBusy /\ Kept

-----------------------------------------------------------------------------
(* The steps that touch neither the queue nor the hands.                   *)

LEMMA MessagesInit == TasksInit => MessagesInv
<1> SUFFICES ASSUME TasksInit PROVE MessagesInv
  OBVIOUS
<1> USE TasksAssumption DEF TasksInit
<1>1. MessageType
  <2>1. queue \in Seq(Msgs)
    OBVIOUS
  <2>2. /\ term \in BOOLEAN /\ freed \subseteq Msgs
        /\ hand \in [Flusher -> Msgs \cup {NoMsg}]
        /\ cell \in [Msgs -> Pools] /\ call \in [Msgs -> Calls]
        /\ command \in [Commands -> Stages]
    BY DEF Flusher, Pools, Calls, Stages
  <2> QED BY <2>1, <2>2 DEF MessageType
<1>2. QueuedOnce /\ HandedOnce
  BY DEF QueuedOnce, HandedOnce, Flusher
<1>3. Apart /\ OnItsWay
  BY DEF Apart, OnItsWay, Queued, InHand, Flusher
<1>4. Off /\ HandBusy /\ Kept
  BY DEF Off, HandBusy, Kept, Flusher
<1> QED BY <1>1, <1>2, <1>3, <1>4 DEF MessagesInv

\* Steps of the tasks that do not flush.
LEMMA MessagesFrame ==
    ASSUME MessagesInv, UNCHANGED messageVars, term' \in BOOLEAN, term => term',
           command' \in [Commands -> Stages],
           \A k \in Commands : command'[k] = "flushing" <=> command[k] = "flushing"
    PROVE  MessagesInv'
<1> USE DEF MessagesInv, messageVars
<1>1. MessageType' /\ QueuedOnce' /\ HandedOnce'
  BY DEF MessageType, QueuedOnce, HandedOnce
<1>2. Apart' /\ OnItsWay' /\ Off' /\ Kept'
  BY DEF Apart, OnItsWay, Off, Kept, Queued, InHand
<1>3. HandBusy'
  BY DEF HandBusy
<1> QED BY <1>1, <1>2, <1>3

LEMMA AllocateKeeps ==
    ASSUME MessagesInv, NEW m \in Msgs, AllocateElement(m)
    PROVE  MessagesInv'
<1> USE DEF MessagesInv
<1>1. /\ UNCHANGED <<term, queue, hand, freed, command>>
      /\ call[m] = "new"
      /\ \/ /\ cell' = cell
            /\ call' = [call EXCEPT ![m] = "refused"]
         \/ /\ \E pool \in {"main", "fallback"} : cell' = [cell EXCEPT ![m] = pool]
            /\ call' = [call EXCEPT ![m] = "holding"]
  BY DEF AllocateElement, Take
<1>2. MessageType'
  BY <1>1 DEF MessageType, Pools, Calls
<1>3. QueuedOnce' /\ HandedOnce' /\ Apart' /\ HandBusy'
  BY <1>1 DEF QueuedOnce, HandedOnce, Apart, HandBusy, Queued, InHand
<1>4. OnItsWay'
  BY <1>1 DEF OnItsWay, Queued, InHand, MessageType, Pools, Calls
<1>5. Off'
  BY <1>1 DEF Off, MessageType, Pools, Calls
<1>6. Kept'
  BY <1>1 DEF Kept, Queued, InHand, MessageType, Pools, Calls
<1> QED BY <1>2, <1>3, <1>4, <1>5, <1>6

LEMMA EnqueueKeeps ==
    ASSUME MessagesInv, NEW m \in Msgs, EnqueueMessage(m)
    PROVE  MessagesInv'
<1> USE DEF MessagesInv
<1>1. /\ call[m] = "holding"
      /\ queue' = Append(queue, m)
      /\ call' = [call EXCEPT ![m] = "ok"]
      /\ UNCHANGED <<term, hand, cell, freed, command>>
  BY DEF EnqueueMessage
<1>2. /\ queue' \in Seq(Msgs) /\ Len(queue') = Len(queue) + 1 /\ Len(queue) \in Nat
      /\ queue'[Len(queue) + 1] = m
      /\ \A i \in 1..Len(queue) : queue'[i] = queue[i]
  BY <1>1 DEF MessageType
<1>3. ~Queued(m) /\ ~InHand(m)
  BY <1>1 DEF OnItsWay
<1>4. \A n \in Msgs : (Queued(n))' <=> Queued(n) \/ n = m
  BY <1>2 DEF Queued
<1>5. \A n \in Msgs : (InHand(n))' <=> InHand(n)
  BY <1>1 DEF InHand
<1>6. MessageType'
  BY <1>1, <1>2 DEF MessageType, Calls
<1>7. QueuedOnce'
  BY <1>2, <1>3 DEF QueuedOnce, Queued
<1>8. HandedOnce' /\ HandBusy'
  BY <1>1 DEF HandedOnce, HandBusy
<1>9. Apart' /\ OnItsWay' /\ Off' /\ Kept'
  BY <1>1, <1>3, <1>4, <1>5 DEF Apart, OnItsWay, Off, Kept, MessageType
<1> QED BY <1>6, <1>7, <1>8, <1>9

-----------------------------------------------------------------------------
(* The steps that flush.                                                   *)

\* What task t does to the messages when it takes the next one, h, having put
\* away the one it had; in a server that terminates h may be lost.
TakesNext(t, h) ==
    /\ h \in {Next1, NoMsg} /\ (~term => h = Next1)
    /\ queue' = Rest
    /\ hand' = [hand EXCEPT ![t] = h]
    /\ UNCHANGED <<term, call>>

PutsAway(t) ==
    \/ hand[t] = NoMsg /\ UNCHANGED <<cell, freed>>
    \/ /\ hand[t] \in Msgs
       /\ freed' = freed \cup {hand[t]}
       /\ cell' = [cell EXCEPT ![hand[t]] = "none"]

LEMMA NextFacts ==
    ASSUME queue \in Seq(Msgs), NoMsg \notin Msgs
    PROVE  /\ Rest \in Seq(Msgs)
           /\ Next1 \in Msgs \cup {NoMsg}
           /\ Next1 = NoMsg <=> queue = <<>>
           /\ queue = <<>> => Rest = <<>>
           /\ queue # <<>> =>
                 /\ Next1 = queue[1] /\ 1 \in 1..Len(queue)
                 /\ Len(Rest) = Len(queue) - 1
                 /\ \A i \in 1..Len(Rest) : i + 1 \in 1..Len(queue) /\ Rest[i] = queue[i + 1]
                 /\ \A i \in 1..Len(queue) : i # 1 => i - 1 \in 1..Len(Rest)
<1>1. CASE queue = <<>>
  BY <1>1 DEF Next1, Rest
<1>2. CASE queue # <<>>
  <2>1. /\ Tail(queue) \in Seq(Msgs) /\ Len(Tail(queue)) = Len(queue) - 1
        /\ Head(queue) = queue[1] /\ Len(queue) \in Nat \ {0}
        /\ \A i \in 1..Len(Tail(queue)) : Tail(queue)[i] = queue[i + 1]
    BY <1>2
  <2>2. queue[1] \in Msgs
    BY <2>1
  <2> QED BY <1>2, <2>1, <2>2 DEF Next1, Rest
<1> QED BY <1>1, <1>2

\* Where messages are after the step.
LEMMA WhereAfter ==
    ASSUME MessagesInv, NEW t \in Flusher, NEW h, TakesNext(t, h), NEW m \in Msgs
    PROVE  /\ (Queued(m))' <=> Queued(m) /\ m # Next1
           /\ (InHand(m))' <=> (InHand(m) /\ m # hand[t]) \/ m = h
<1>1. queue \in Seq(Msgs) /\ hand \in [Flusher -> Msgs \cup {NoMsg}] /\ NoMsg \notin Msgs
  BY TasksAssumption DEF MessagesInv, MessageType
<1>2. (Queued(m))' <=> Queued(m) /\ m # Next1
  <2>1. CASE queue = <<>>
    BY <1>1, <2>1, NextFacts DEF TakesNext, Queued
  <2>2. CASE queue # <<>>
    <3>1. ASSUME NEW i \in 1..Len(Rest), Rest[i] = m PROVE Queued(m) /\ m # Next1
      BY <1>1, <2>2, <3>1, NextFacts DEF Queued, MessagesInv, QueuedOnce
    <3>2. ASSUME NEW i \in 1..Len(queue), queue[i] = m, m # Next1
          PROVE  \E j \in 1..Len(Rest) : Rest[j] = m
      <4>1. i - 1 \in 1..Len(Rest) /\ Rest[i - 1] = queue[i]
        BY <1>1, <2>2, <3>2, NextFacts
      <4> QED BY <3>2, <4>1
    <3> QED BY <3>1, <3>2 DEF TakesNext, Queued
  <2> QED BY <2>1, <2>2
<1>3. (InHand(m))' <=> (InHand(m) /\ m # hand[t]) \/ m = h
  <2>1. hand'[t] = h /\ \A u \in Flusher : u # t => hand'[u] = hand[u]
    BY <1>1 DEF TakesNext
  <2>2. \A u \in Flusher : hand[u] = m /\ hand[t] = m => u = t
    BY DEF MessagesInv, HandedOnce
  <2> QED BY <2>1, <2>2 DEF InHand
<1> QED BY <1>2, <1>3

LEMMA FlushKeeps ==
    ASSUME MessagesInv, NEW t \in Flusher, NEW h, TakesNext(t, h), PutsAway(t),
           command' \in [Commands -> Stages],
           \A k \in Commands : hand'[k] \in Msgs <=> command'[k] = "flushing"
    PROVE  MessagesInv'
<1> DEFINE old == hand[t]
<1> USE DEF MessagesInv
<1>1. NoMsg \notin Msgs /\ h \in Msgs \cup {NoMsg} /\ old \in Msgs \cup {NoMsg}
  BY TasksAssumption, NextFacts DEF TakesNext, MessageType
<1>2. h \in Msgs => h = Next1 /\ Queued(h) /\ ~InHand(h)
  <2>1. h \in Msgs => h = Next1 /\ queue # <<>>
    BY <1>1, NextFacts DEF TakesNext, MessageType
  <2>2. h \in Msgs => Queued(h)
    BY <1>1, <2>1, NextFacts DEF Queued, MessageType
  <2> QED BY <2>1, <2>2 DEF Apart
<1>3. \A m \in Msgs : /\ (Queued(m))' <=> Queued(m) /\ m # Next1
                      /\ (InHand(m))' <=> (InHand(m) /\ m # old) \/ m = h
  BY WhereAfter
<1>4. old \in Msgs => InHand(old) /\ ~Queued(old)
  BY DEF InHand, Apart
<1>5. /\ \A m \in Msgs : m # old => cell'[m] = cell[m] /\ (m \in freed' <=> m \in freed)
      /\ old \in Msgs => cell'[old] = "none" /\ old \in freed'
      /\ cell' \in [Msgs -> Pools] /\ freed' \subseteq Msgs
  BY <1>1 DEF PutsAway, MessageType, Pools
<1>6. hand' \in [Flusher -> Msgs \cup {NoMsg}] /\ queue' \in Seq(Msgs)
  BY <1>1, NextFacts DEF TakesNext, MessageType
<1>7. MessageType'
  BY <1>5, <1>6 DEF MessageType, TakesNext
<1>8. QueuedOnce'
  <2>1. queue \in Seq(Msgs) /\ queue' = Rest
    BY DEF MessageType, TakesNext
  <2>2. CASE queue = <<>>
    BY <2>1, <2>2, <1>1, NextFacts DEF QueuedOnce
  <2>3. CASE queue # <<>>
    <3> SUFFICES ASSUME NEW i \in 1..Len(Rest), NEW j \in 1..Len(Rest), Rest[i] = Rest[j]
                 PROVE  i = j
      BY <2>1 DEF QueuedOnce
    <3>1. /\ i + 1 \in 1..Len(queue) /\ Rest[i] = queue[i + 1]
          /\ j + 1 \in 1..Len(queue) /\ Rest[j] = queue[j + 1]
      BY <1>1, <2>1, <2>3, NextFacts
    <3>2. i + 1 = j + 1
      BY <3>1 DEF QueuedOnce
    <3> QED BY <3>2
  <2> QED BY <2>2, <2>3
<1>9. HandedOnce'
  <2>1. hand'[t] = h /\ \A u \in Flusher : u # t => hand'[u] = hand[u]
    BY DEF TakesNext, MessageType
  <2>2. \A u \in Flusher : h \in Msgs => hand[u] # h
    BY <1>2 DEF InHand
  <2> QED BY <2>1, <2>2 DEF HandedOnce
<1>10. Apart'
  BY <1>2, <1>3 DEF Apart
<1>11. OnItsWay'
  <2> SUFFICES ASSUME NEW m \in Msgs, (Queued(m))' \/ (InHand(m))'
               PROVE  call'[m] = "ok" /\ m \notin freed' /\ cell'[m] # "none"
    BY DEF OnItsWay
  <2>1. m # old /\ (Queued(m) \/ InHand(m))
    BY <1>2, <1>3, <1>4
  <2> QED BY <2>1, <1>5 DEF OnItsWay, TakesNext
<1>12. Off'
  BY <1>4, <1>5 DEF Off, OnItsWay, TakesNext
<1>13. HandBusy'
  BY DEF HandBusy
<1>14. Kept'
  <2> SUFFICES ASSUME ~term, NEW m \in Msgs, cell'[m] # "none"
               PROVE  call'[m] = "holding" \/ (Queued(m))' \/ (InHand(m))'
    BY DEF Kept, TakesNext
  <2>1. m # old /\ cell[m] # "none"
    BY <1>5
  <2>2. call'[m] = call[m] /\ h = Next1
    BY DEF TakesNext
  <2> QED BY <2>1, <2>2, <1>3 DEF Kept
<1> QED BY <1>7, <1>8, <1>9, <1>10, <1>11, <1>12, <1>13, <1>14

LEMMA MainFlushKeeps == ASSUME MessagesInv, Background \/ BackgroundPrint PROVE MessagesInv'
<1> USE TasksAssumption DEF MessagesInv, MessageType, Flusher
<1>1. Main \in Flusher /\ hand[Main] \in Msgs \cup {NoMsg} /\ UNCHANGED <<term, command>>
  BY DEF Background, BackgroundPrint
<1>2. PICK h : TakesNext(Main, h)
  <2>1. CASE Background
    BY <2>1 DEF Background, Dequeue, TakesNext
  <2>2. CASE BackgroundPrint
    BY <1>1, <2>2 DEF BackgroundPrint, PrintNext, Flushed, TakesNext
  <2> QED BY <2>1, <2>2
<1>3. PutsAway(Main)
  <2>1. CASE Background
    BY <2>1 DEF Background, Dequeue, PutsAway
  <2>2. CASE BackgroundPrint
    BY <1>1, <2>2 DEF BackgroundPrint, PrintNext, Flushed, PutsAway
  <2> QED BY <2>1, <2>2
<1>4. \A k \in Commands : hand'[k] \in Msgs <=> command'[k] = "flushing"
  <2>1. \A k \in Commands : hand'[k] = hand[k]
    BY <1>2 DEF TakesNext
  <2> QED BY <1>1, <2>1 DEF HandBusy
<1> HIDE DEF MessagesInv
<1>5. command' \in [Commands -> Stages]
  BY <1>1 DEF MessagesInv
<1> QED BY <1>1, <1>2, <1>3, <1>4, <1>5, FlushKeeps

LEMMA CommandFlushKeeps ==
    ASSUME MessagesInv, NEW k \in Commands, FlushCommand(k) \/ FlushPrint(k)
    PROVE  MessagesInv'
<1> USE TasksAssumption DEF MessagesInv, MessageType, Flusher
<1>1. k \in Flusher /\ hand[k] \in Msgs \cup {NoMsg} /\ term' = term
  BY DEF FlushCommand, FlushPrint
<1>2. hand[k] \in Msgs <=> FlushPrint(k)
  BY DEF FlushCommand, FlushPrint, HandBusy
<1>3. PICK h : TakesNext(k, h) /\ (FlushCommand(k) => h = Next1)
  <2>1. CASE FlushCommand(k)
    BY <2>1 DEF FlushCommand, Dequeue, TakesNext
  <2>2. CASE FlushPrint(k)
    BY <1>1, <1>2, <2>2 DEF FlushPrint, PrintNext, Flushed, TakesNext, FlushCommand
  <2> QED BY <2>1, <2>2
<1>4. PutsAway(k)
  <2>1. CASE FlushCommand(k)
    BY <1>1, <1>2, <2>1 DEF FlushCommand, FlushPrint, Dequeue, PutsAway
  <2>2. CASE FlushPrint(k)
    BY <1>1, <1>2, <2>2 DEF FlushPrint, PrintNext, Flushed, PutsAway
  <2> QED BY <2>1, <2>2
<1>5. hand'[k] = h /\ \A c \in Commands : c # k => hand'[c] = hand[c]
  BY <1>3 DEF TakesNext
<1>6. h \in Msgs \cup {NoMsg} /\ (h = NoMsg => h \notin Msgs) /\ (Next1 = NoMsg <=> queue = <<>>)
  BY <1>3, NextFacts DEF TakesNext
<1>7. command' = [command EXCEPT ![k] = IF h \in Msgs THEN "flushing" ELSE "ending"]
  <2>1. CASE FlushCommand(k)
    BY <1>3, <1>6, <2>1 DEF FlushCommand, At
  <2>2. CASE FlushPrint(k)
    BY <1>5, <1>6, <2>2 DEF FlushPrint, At
  <2> QED BY <2>1, <2>2
<1>8. command' \in [Commands -> Stages]
  BY <1>7 DEF Stages
<1>9. \A c \in Commands : hand'[c] \in Msgs <=> command'[c] = "flushing"
  BY <1>5, <1>7 DEF HandBusy
<1> HIDE DEF MessagesInv
<1> QED BY <1>1, <1>3, <1>4, <1>8, <1>9, FlushKeeps

LEMMA OtherTaskKeeps ==
    ASSUME MessagesInv,
           \/ MainLoopEnds \/ StopCommand
           \/ \E k \in Commands :
                 \/ ModifyCommand(k) \/ BeginTask(k) \/ PassToCallback(k) \/ CallbackEnds(k)
                 \/ ChangeLevel(k) \/ EndCommandTask(k)
    PROVE  MessagesInv'
<1>1. UNCHANGED messageVars
  BY DEF MainLoopEnds, StopCommand, ModifyCommand, BeginTask, PassToCallback, CallbackEnds, ChangeLevel,
         EndCommandTask
<1>2. term' \in BOOLEAN /\ (term => term')
  BY DEF MainLoopEnds, StopCommand, ModifyCommand, BeginTask, PassToCallback, CallbackEnds, ChangeLevel,
         EndCommandTask, MessagesInv, MessageType
<1>3. /\ command' \in [Commands -> Stages]
      /\ \A k \in Commands : command'[k] = "flushing" <=> command[k] = "flushing"
  <2>1. command \in [Commands -> Stages]
    BY DEF MessagesInv, MessageType
  <2>2. CASE command' = command
    BY <2>1, <2>2
  <2>3. CASE \E k \in Commands, to \in Stages \ {"flushing"} :
                command[k] # "flushing" /\ command' = [command EXCEPT ![k] = to]
    BY <2>1, <2>3
  <2> QED BY <2>2, <2>3 DEF MainLoopEnds, StopCommand, ModifyCommand, BeginTask, PassToCallback,
                            CallbackEnds, ChangeLevel, EndCommandTask, At, Stages
<1> QED BY <1>1, <1>2, <1>3, MessagesFrame

LEMMA MessagesStep == ASSUME MessagesInv, [TasksNext]_taskVars PROVE MessagesInv'
<1>1. CASE UNCHANGED taskVars
  BY <1>1, MessagesFrame DEF taskVars, messageVars, MessagesInv, MessageType
<1>2. CASE TasksNext
  BY <1>2, AllocateKeeps, EnqueueKeeps, MainFlushKeeps, CommandFlushKeeps, OtherTaskKeeps
     DEF TasksNext, CommandTask
<1> QED BY <1>1, <1>2

\* The elements of messages are where MessagesInv says, whatever the order in
\* which callers, the main task and FLUSH commands work on the queue.
THEOREM MessagesInvariant == TasksSpec => []MessagesInv
BY MessagesInit, MessagesStep, PTL DEF TasksSpec

-----------------------------------------------------------------------------
(* MessagesAccounted: the places are counted.                              *)

LEMMA NoneOrOne ==
    ASSUME NEW S, \A x, y \in S : x = y
    PROVE  Cardinality(S) = IF S = {} THEN 0 ELSE 1
<1>1. CASE S = {}
  BY <1>1, FS_EmptySet
<1>2. CASE S # {}
  <2>1. PICK x : x \in S
    BY <1>2
  <2>2. S = {x}
    BY <2>1
  <2> QED BY <1>2, <2>2, FS_Singleton
<1> QED BY <1>1, <1>2

LEMMA PlacesFacts ==
    ASSUME MessagesInv, NEW m \in Msgs
    PROVE  /\ \A x, y \in Places(m) : x = y
           /\ Places(m) = {} <=> ~Queued(m) /\ ~InHand(m) /\ call[m] # "holding"
<1> DEFINE inQueue == {<<"queue", i>> : i \in {j \in 1..Len(queue) : queue[j] = m}}
           inHands == {<<"hand", t>> : t \in {u \in Flusher : hand[u] = m}}
           atCaller == {<<"caller", c>> : c \in {m} \cap {d \in Msgs : call[d] = "holding"}}
<1>1. Places(m) = inQueue \cup inHands \cup atCaller
  BY DEF Places, Flusher
<1>2. (inQueue = {} <=> ~Queued(m)) /\ (inHands = {} <=> ~InHand(m))
  BY DEF Queued, InHand
<1>3. atCaller = {} <=> call[m] # "holding"
  OBVIOUS
<1>4. \A x, y \in inQueue : x = y
  BY DEF MessagesInv, QueuedOnce
<1>5. \A x, y \in inHands : x = y
  BY DEF MessagesInv, HandedOnce
<1>6. \A x, y \in atCaller : x = y
  OBVIOUS
<1>7. /\ inQueue # {} => inHands = {} /\ atCaller = {}
      /\ inHands # {} => atCaller = {}
  BY <1>2, <1>3 DEF MessagesInv, Apart, OnItsWay
<1> HIDE DEF inQueue, inHands, atCaller
<1> QED BY <1>1, <1>2, <1>3, <1>4, <1>5, <1>6, <1>7

\* flushDebugMessages runs in the main task and in FLUSH commands at once
\* (c/crossmemory.c): until the server is told to terminate an element is in
\* exactly one place while its cell is taken; it is never in two.
THEOREM MessagesAccountedTheorem == TasksSpec => []MessagesAccounted
<1>1. MessagesInv => MessagesAccounted
  <2> SUFFICES ASSUME MessagesInv, NEW m \in Msgs
               PROVE  /\ ~term => Cardinality(Places(m)) = (IF cell[m] = "none" THEN 0 ELSE 1)
                      /\ Cardinality(Places(m)) <= 1
                      /\ m \in freed => Places(m) = {}
    BY DEF MessagesAccounted
  <2>1. Cardinality(Places(m)) = IF Places(m) = {} THEN 0 ELSE 1
    BY PlacesFacts, NoneOrOne
  <2>2. ~term => (Places(m) = {} <=> cell[m] = "none")
    BY PlacesFacts DEF MessagesInv, OnItsWay, Off, Kept
  <2>3. m \in freed => Places(m) = {}
    BY PlacesFacts DEF MessagesInv, OnItsWay, Off
  <2> QED BY <2>1, <2>2, <2>3
<1> QED BY <1>1, MessagesInvariant, PTL

-----------------------------------------------------------------------------
(* CallbacksBounded: commandTaskCount is exact.                            *)

\* The tasks that have counted themselves and have not ended.
Counted == {k \in Commands : command[k] \in {"target", "callback", "flush", "flushing", "log", "ending"}}
Callbacks == {k \in Commands : command[k] = "callback"}

TasksInv ==
    /\ command \in [Commands -> Stages]
    /\ count = Cardinality(Counted)
    /\ CallbacksBounded

LEMMA CountedFinite ==
    /\ IsFiniteSet(Counted) /\ Cardinality(Counted) \in Nat
    /\ IsFiniteSet(Callbacks) /\ Cardinality(Callbacks) \in Nat
    /\ Cardinality(Callbacks) <= Cardinality(Counted)
<1>1. Callbacks \subseteq Counted /\ Counted \subseteq Commands
  BY DEF Callbacks, Counted
<1>2. IsFiniteSet(Counted)
  BY <1>1, FS_Subset, TasksAssumption
<1>3. IsFiniteSet(Callbacks) /\ Cardinality(Callbacks) <= Cardinality(Counted)
  BY <1>1, <1>2, FS_Subset
<1> QED BY <1>2, <1>3, FS_CardinalityType

LEMMA TasksInvInit == TasksInit => TasksInv
<1> SUFFICES ASSUME TasksInit PROVE TasksInv
  OBVIOUS
<1>1. command \in [Commands -> Stages] /\ Counted = {} /\ Callbacks = {} /\ count = 0
  BY DEF TasksInit, Stages, Counted, Callbacks
<1> QED BY <1>1, FS_EmptySet, TasksAssumption DEF TasksInv, CallbacksBounded, Callbacks

\* Command k goes on without beginning or ending, or running a callback.
LEMMA TaskGoesOn ==
    ASSUME TasksInv, count' = count, NEW k \in Commands, NEW to \in Stages \ {"callback"},
           command' = [command EXCEPT ![k] = to],
           k \in Counted <=> to \in {"target", "flush", "flushing", "log", "ending"}
    PROVE  TasksInv'
<1>1. command' \in [Commands -> Stages] /\ Counted' = Counted /\ Callbacks' \subseteq Callbacks
  BY DEF TasksInv, Counted, Callbacks, Stages
<1>2. Cardinality(Callbacks') <= Cardinality(Callbacks) /\ Cardinality(Callbacks') \in Nat
  BY <1>1, CountedFinite, FS_Subset, FS_CardinalityType
<1> QED BY <1>1, <1>2, CountedFinite, TasksAssumption DEF TasksInv, CallbacksBounded, Callbacks

LEMMA BeginKeeps == ASSUME TasksInv, NEW k \in Commands, BeginTask(k) PROVE TasksInv'
<1>1. /\ command' \in [Commands -> Stages] /\ Callbacks' = Callbacks
      /\ k \notin Counted /\ Counted' = Counted \cup {k} /\ count' = count + 1
  BY DEF BeginTask, At, TasksInv, Counted, Callbacks, Stages
<1> QED BY <1>1, CountedFinite, FS_AddElement DEF TasksInv, CallbacksBounded, Callbacks

LEMMA EndKeeps == ASSUME TasksInv, NEW k \in Commands, EndCommandTask(k) PROVE TasksInv'
<1>1. /\ command' \in [Commands -> Stages] /\ Callbacks' = Callbacks
      /\ k \in Counted /\ Counted' = Counted \ {k} /\ count' = count - 1
  BY DEF EndCommandTask, At, TasksInv, Counted, Callbacks, Stages
<1> QED BY <1>1, CountedFinite, FS_RemoveElement DEF TasksInv, CallbacksBounded, Callbacks

\* The callback called is among the tasks counted, fewer than MaxTasks.
LEMMA PassKeeps == ASSUME TasksInv, NEW k \in Commands, PassToCallback(k) PROVE TasksInv'
<1>1. command' \in [Commands -> Stages] /\ Counted' = Counted /\ count' = count
  BY DEF PassToCallback, At, TasksInv, Counted, Stages
<1>2. CASE count >= MaxTasks
  <2>1. Callbacks' = Callbacks
    BY <1>2 DEF PassToCallback, At, TasksInv, Callbacks
  <2> QED BY <1>1, <2>1 DEF TasksInv, CallbacksBounded, Callbacks
<1>3. CASE ~(count >= MaxTasks)
  <2>1. Callbacks' \subseteq Counted'
    BY DEF Callbacks, Counted
  <2>2. Cardinality(Callbacks') <= Cardinality(Counted) /\ Cardinality(Callbacks') \in Nat
    BY <1>1, <2>1, CountedFinite, FS_Subset, FS_CardinalityType
  <2> QED BY <1>1, <1>3, <2>2, CountedFinite, TasksAssumption DEF TasksInv, CallbacksBounded, Callbacks
<1> QED BY <1>2, <1>3

LEMMA TasksInvFrame == ASSUME TasksInv, UNCHANGED <<command, count>> PROVE TasksInv'
BY DEF TasksInv, Counted, CallbacksBounded

LEMMA TasksInvStep == ASSUME TasksInv, [TasksNext]_taskVars PROVE TasksInv'
<1>1. ASSUME NEW k \in Commands, ModifyCommand(k) PROVE TasksInv'
  <2>1. PICK to \in {"attached", "rejected"} : command' = [command EXCEPT ![k] = to]
    BY <1>1 DEF ModifyCommand, At
  <2>2. k \notin Counted /\ count' = count
    BY <1>1 DEF ModifyCommand, Counted
  <2> QED BY <2>1, <2>2, TaskGoesOn DEF Stages
<1>2. ASSUME NEW k \in Commands, CallbackEnds(k) \/ FlushCommand(k) \/ FlushPrint(k) \/ ChangeLevel(k)
      PROVE  TasksInv'
  <2>1. PICK to \in {"ending", "flushing"} : command' = [command EXCEPT ![k] = to]
    BY <1>2 DEF CallbackEnds, FlushCommand, FlushPrint, ChangeLevel, At
  <2>2. k \in Counted /\ count' = count
    BY <1>2 DEF CallbackEnds, FlushCommand, FlushPrint, ChangeLevel, Counted
  <2> QED BY <2>1, <2>2, TaskGoesOn DEF Stages
<1>3. CASE UNCHANGED <<command, count>>
  BY <1>3, TasksInvFrame
<1> QED BY <1>1, <1>2, <1>3, BeginKeeps, PassKeeps, EndKeeps
        DEF TasksNext, CommandTask, taskVars, AllocateElement, EnqueueMessage, Background,
            BackgroundPrint, MainLoopEnds, StopCommand

\* passCommandToUserCallback tests the limit after the task has counted itself:
\* fewer than MaxTasks callbacks run at once, whatever count the console saw
\* when it let the tasks through.
THEOREM CallbacksBoundedTheorem == TasksSpec => []CallbacksBounded
<1>1. TasksInv => CallbacksBounded
  BY DEF TasksInv
<1> QED BY <1>1, TasksInvInit, TasksInvStep, PTL DEF TasksSpec
=============================================================================
