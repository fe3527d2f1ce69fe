------------------------- MODULE CrossMemoryServer -------------------------
(***************************************************************************)
(* The life of a cross-memory server and the calls made to it              *)
(* (c/crossmemory.c).                                                      *)
(*                                                                         *)
(* A server runs in an address space of its own.  What its clients see of  *)
(* it is a global area in common storage, found by name along the ZVTE     *)
(* chain: a version, the READY flag, the address of the server's private   *)
(* structure, the PC numbers that enter its address space, a copy of its   *)
(* service table.  The areas and the chain outlive every server.  Spaces   *)
(* are the address spaces that run a server of one name, one start each:   *)
(* each of them starts, runs, stops, abends or is cancelled at any step,   *)
(* the next one taking over the area of the last or discarding it.         *)
(*                                                                         *)
(* Clients walk the chain, read the area field by field with no lock, and  *)
(* enter the server's address space (services of kind "ss") or run its     *)
(* code in their own (kind "cp").                                          *)
(***************************************************************************)
EXTENDS Integers, Sequences, FiniteSets

CONSTANTS
    Spaces,         \* the starts of the server, 1..n; also its PC sequence numbers
    Clients,        \* the units of work that call services
    UserKind,       \* how each start registers its user service: "ss" or "cp"
    LXs,            \* the PC numbers LXRES can return (the "cp" one is the next)
    MaxChain        \* CMS_MAX_ZVTE_CHAIN_LENGTH

ASSUME ConstantsAssumption ==
    /\ Spaces \subseteq Nat \ {0}
    /\ UserKind \in [Spaces -> {"ss", "cp"}]
    /\ LXs \subseteq Nat
    /\ MaxChain \in Nat

None == 0           \* no address space, no address: NULL

Services == {"log", "user"}     \* a standard service and a registered one

VARIABLES
    enq,        \* the space whose main task holds the server's ENQ, or None
    chain,      \* the ZVTE chain, head first: the areas, each named by the space that
                \* made it, and None for an area of another server's name
    other,      \* a server of another name has found no area and is about to add one
    routine,    \* the look-up routine is anchored in the ZVT
    area,       \* the global areas in common storage
    srv,        \* each start of the server: where it is and its private flags
    client      \* each client: where its call is and what it has read

vars == <<enq, chain, other, routine, area, srv, client>>
serverVars == <<enq, chain, other, routine, area, srv>>

EmptyTable == [v \in Services |-> "none"]

EmptyArea ==    \* an area just allocated, after memset: it has no name yet
    [current |-> TRUE, named |-> FALSE, ready |-> FALSE, local |-> None,
     ssNum |-> 0, ssSeq |-> 0, cpNum |-> 0, cpSeq |-> 0, table |-> EmptyTable]

NewServer ==
    [pc |-> "load", i |-> 1, area |-> None, lx |-> 0, started |-> FALSE, resmgr |-> FALSE, removed |-> FALSE]

NewCall == [pc |-> "idle", svc |-> "user", area |-> None, kind |-> "ss", num |-> 0,
            seq |-> 0, home |-> None, server |-> None, rc |-> "none"]

Init ==
    /\ enq = None
    /\ chain = <<>>
    /\ other = FALSE
    /\ routine = FALSE
    /\ area = [a \in Spaces |-> EmptyArea]
    /\ srv = [s \in Spaces |-> [NewServer EXCEPT !.pc = "unused"]]
    /\ client = [c \in Clients |-> NewCall]

-----------------------------------------------------------------------------
(* Looking a server up.                                                    *)

\* An entry of the chain that leads to an area with the server's name, and not
\* a discarded one.
Current(entry) == entry # None /\ area[entry].named /\ area[entry].current

\* A walk along the chain that gives up after max entries.
Walk(max) ==
    LET found == {i \in 1..Len(chain) : i <= max /\ Current(chain[i])}
        first == CHOOSE i \in found : \A j \in found : i <= j
    IN IF found # {} THEN [rc |-> "OK", area |-> chain[first]]
       ELSE IF Len(chain) >= MaxChain THEN [rc |-> "CHAIN_LOOP", area |-> None]
       ELSE [rc |-> "NULL_AREA", area |-> None]

\* cmsGetGlobalArea: the first current area among the first MaxChain entries.
Lookup == Walk(MaxChain)

\* The look-up routine anchored in the ZVT: it counts an entry before it looks
\* at it, so the last of MaxChain entries is taken for a loop.
LookupRoutine == Walk(MaxChain - 1)

-----------------------------------------------------------------------------
(* The main task of a server: cmsStartMainLoop.                            *)

Goto(s, to) == srv' = [srv EXCEPT ![s].pc = to]

\* An address space is started; makeCrossMemoryServer2 and cmsRegisterService
\* give it its structure and its service table.
\* One at a time from the operator, but nothing waits for the last one's end.
Launch(s) ==
    /\ srv[s].pc = "unused"
    /\ \A t \in Spaces : t < s => srv[t].pc # "unused"
    /\ srv' = [srv EXCEPT ![s] = NewServer]
    /\ UNCHANGED <<other, routine, enq, chain, area, client>>

\* A step of the start that fails: the rest of the start is skipped.
GiveUp(s) == Goto(s, "ending")

\* Faulty: the reason code that says the name is taken is not looked at.
LoadServerTwice(s) ==
    /\ srv[s].pc = "load"
    /\ enq' = IF enq = None THEN s ELSE enq
    /\ Goto(s, "cold")
    /\ UNCHANGED <<other, routine, chain, area, client>>

\* loadServer: the ENQ of the server's name, exclusive or fail.
LoadServer(s) ==
    /\ srv[s].pc = "load"
    /\ \/ enq = None /\ enq' = s /\ Goto(s, "cold")
       \/ GiveUp(s) /\ UNCHANGED enq
    /\ UNCHANGED <<other, routine, chain, area, client>>

\* discardGlobalResources when the server is started cold (its failure is only
\* a warning); discardLookupRoutineAnchor when it is started with RESET.
ColdStart(s) ==
    /\ srv[s].pc = "cold"
    /\ \/ UNCHANGED area
       \/ Lookup.rc = "OK" /\ area' = [area EXCEPT ![Lookup.area].current = FALSE]
    /\ routine' \in {routine, FALSE}
    /\ Goto(s, "find")
    /\ UNCHANGED <<other, enq, chain, client>>

\* The first part of allocateGlobalResources: installCMSLookupRoutine, which may
\* fail, then the area the last server left, its flags reset, or no area and a
\* new one to allocate.
FindArea(s) ==
    /\ srv[s].pc = "find"
    /\ \/ /\ routine' = TRUE
          /\ Lookup.rc = "OK"
          /\ area' = [area EXCEPT ![Lookup.area].ready = FALSE]
          /\ srv' = [srv EXCEPT ![s].area = Lookup.area, ![s].pc = "take"]
       \/ /\ routine' = TRUE
          /\ Lookup.rc = "NULL_AREA"
          /\ Goto(s, "allocate")
          /\ UNCHANGED area
       \/ /\ routine' = TRUE
          /\ Lookup.rc = "CHAIN_LOOP"
          /\ GiveUp(s)
          /\ UNCHANGED area
       \/ GiveUp(s) /\ UNCHANGED <<routine, area>>
    /\ UNCHANGED <<other, enq, chain, client>>

\* allocateECSAStorage and addGlobalArea: a new area at the head of the chain.
\* The ENQ is released when there is no common storage left, and kept when the
\* chain has no room.
AllocateArea(s) ==
    /\ srv[s].pc = "allocate"
    /\ \/ /\ area' = [area EXCEPT ![s] = EmptyArea]
          /\ chain' = <<s>> \o chain
          /\ srv' = [srv EXCEPT ![s].area = s, ![s].pc = "take"]
          /\ UNCHANGED enq
       \/ /\ enq' \in {enq, None}
          /\ GiveUp(s)
          /\ UNCHANGED <<area, chain>>
    /\ UNCHANGED <<other, routine, client>>

\* Faulty: only a new area is given the address of the server.
TakeNewArea(s) ==
    /\ srv[s].pc = "take"
    /\ area' = [area EXCEPT ![srv[s].area].named = TRUE,
                            ![srv[s].area].local = IF srv[s].area = s THEN s ELSE @]
    /\ \/ Goto(s, "table")
       \/ GiveUp(s)
    /\ UNCHANGED <<other, routine, enq, chain, client>>

\* The rest of allocateGlobalResources: unless an old LPA module is in the way,
\* the area gets its name and now designates this server, then the LPA module
\* and the pools (each of which may fail) and the service table.
TakeArea(s) ==
    /\ srv[s].pc = "take"
    /\ \/ /\ area' = [area EXCEPT ![srv[s].area].named = TRUE, ![srv[s].area].local = s]
          /\ Goto(s, "table") \/ GiveUp(s)
       \/ area[srv[s].area].named /\ GiveUp(s) /\ UNCHANGED area
    /\ UNCHANGED <<other, routine, enq, chain, client>>

\* Faulty: the table is copied before the standard services are in it.
CopyUserServices(s) ==
    /\ srv[s].pc = "table"
    /\ area' = [area EXCEPT ![srv[s].area].table = [log |-> "none", user |-> UserKind[s]]]
    /\ \/ Goto(s, "establish")
       \/ GiveUp(s)
    /\ UNCHANGED <<other, routine, enq, chain, client>>

CopyServiceTable(s) ==
    /\ srv[s].pc = "table"
    /\ area' = [area EXCEPT ![srv[s].area].table = [log |-> "ss", user |-> UserKind[s]]]
    /\ \/ Goto(s, "establish")
       \/ GiveUp(s)
    /\ UNCHANGED <<other, routine, enq, chain, client>>

InSpace(t) == srv[t].pc \notin {"unused", "ended", "gone"}

\* establishPCRoutines up to ETCON: a linkage index no living space owns.
EstablishPCRoutines(s) ==
    /\ srv[s].pc = "establish"
    /\ \/ \E lx \in LXs \ {srv[t].lx : t \in {u \in Spaces : InSpace(u)}} :
             srv' = [srv EXCEPT ![s].lx = lx, ![s].pc = "publish"]
       \/ GiveUp(s)
    /\ UNCHANGED <<other, routine, enq, chain, area, client>>

PublishOrder == <<"ssNum", "ssSeq", "cpNum", "cpSeq">>

\* Faulty: the entry number is taken for the one after the next.
PcInfoOff(s) == [ssNum |-> srv[s].lx, ssSeq |-> s, cpNum |-> srv[s].lx + 2, cpSeq |-> s]

\* What establishPCRoutines stores in each field of pcInfo.
PcInfo(s) == [ssNum |-> srv[s].lx, ssSeq |-> s, cpNum |-> srv[s].lx + 1, cpSeq |-> s]

\* The end of establishPCRoutines: pcInfo is stored one field after another.
PublishPCInfo(s) ==
    LET i == srv[s].i
        f == PublishOrder[i]
    IN /\ srv[s].pc = "publish"
       /\ area' = [area EXCEPT ![srv[s].area][f] = PcInfo(s)[f]]
       /\ srv' = [srv EXCEPT ![s].i = IF i = Len(PublishOrder) THEN 1 ELSE i + 1,
                             ![s].pc = IF i = Len(PublishOrder) THEN "resmgr" ELSE @]
       /\ UNCHANGED <<other, routine, enq, chain, client>>

\* Faulty: a resource manager that cannot be installed is only warned about.
InstallOrWarn(s) ==
    /\ srv[s].pc = "resmgr"
    /\ \E installed \in BOOLEAN :
          srv' = [srv EXCEPT ![s].resmgr = installed, ![s].pc = "start"]
    /\ UNCHANGED <<other, routine, enq, chain, area, client>>

\* installResourceManager, before the server may be called.
InstallResourceManager(s) ==
    /\ srv[s].pc = "resmgr"
    /\ \/ srv' = [srv EXCEPT ![s].resmgr = TRUE, ![s].pc = "start"]
       \/ GiveUp(s)
    /\ UNCHANGED <<other, routine, enq, chain, area, client>>

\* The start callback, which may refuse, and startServer.
StartServer(s) ==
    /\ srv[s].pc = "start"
    /\ \/ /\ area' = [area EXCEPT ![srv[s].area].ready = TRUE]
          /\ srv' = [srv EXCEPT ![s].started = TRUE, ![s].pc = "main"]
       \/ GiveUp(s) /\ UNCHANGED area
    /\ UNCHANGED <<other, routine, enq, chain, client>>

\* stcBaseMainLoop returns, because of the STOP command or of an error.
LeaveMainLoop(s) ==
    /\ srv[s].pc = "main"
    /\ Goto(s, "ending")
    /\ UNCHANGED <<other, routine, enq, chain, area, client>>

\* stcBaseShutdown; stopServer is for a server that was started only.
EndLoop(s) ==
    /\ srv[s].pc = "ending"
    /\ srv' = [srv EXCEPT ![s].pc = IF srv[s].started THEN "stop" ELSE "release"]
    /\ UNCHANGED <<other, routine, enq, chain, area, client>>

StopOrder == <<"ready", "local", "ssNum", "ssSeq", "cpNum", "cpSeq", "table">>

\* stopServer clears the area one field after another.
StopServer(s) ==
    LET i == srv[s].i
        f == StopOrder[i]
    IN /\ srv[s].pc = "stop"
       /\ area' = [area EXCEPT ![srv[s].area][f] = EmptyArea[f]]
       /\ srv' = [srv EXCEPT ![s].i = IF i = Len(StopOrder) THEN 1 ELSE i + 1,
                             ![s].pc = IF i = Len(StopOrder) THEN "release" ELSE @]
       /\ UNCHANGED <<other, routine, enq, chain, client>>

\* The stop callback, freeGlobalResources, removeResourceManager (which may
\* fail and leave it in place); cmsStartMainLoop returns.
ReleaseResources(s) ==
    /\ srv[s].pc = "release"
    /\ \/ srv' = [srv EXCEPT ![s].resmgr = FALSE, ![s].pc = "returned"]
       \/ Goto(s, "returned")
    /\ UNCHANGED <<other, routine, enq, chain, area, client>>

\* The main task abends: the recovery of cmsStartMainLoop returns at once, and
\* nothing of what was set up is undone.
AbendMain(s) ==
    /\ InSpace(s)
    /\ srv[s].pc # "returned"
    /\ srv' = [srv EXCEPT ![s].pc = "returned", ![s].i = 1]
    /\ UNCHANGED <<other, routine, enq, chain, area, client>>

\* The program that embeds the server removes it: its queue and its message
\* pools are freed.
RemoveServer(s) ==
    /\ srv[s].pc = "returned"
    /\ ~srv[s].removed
    /\ srv' = [srv EXCEPT ![s].removed = TRUE]
    /\ UNCHANGED <<other, routine, enq, chain, area, client>>

\* The job step task of the space ends, by itself or cancelled: the system
\* releases its ENQ and disconnects its PC numbers.
EndTask(s) ==
    /\ InSpace(s)
    /\ srv' = [srv EXCEPT ![s] = [NewServer EXCEPT !.pc = "ended", !.area = srv[s].area,
                                                   !.resmgr = srv[s].resmgr]]
    /\ enq' = IF enq = s THEN None ELSE enq
    /\ UNCHANGED <<other, routine, chain, area, client>>

\* The call of c is over; what it has read is forgotten.
Done(c, rc) == [client EXCEPT ![c] = [NewCall EXCEPT !.pc = "done", !.rc = rc]]

\* The address space ends: its resource manager clears pcInfo of the area, and
\* the units of work that had entered the space are abended.
EndSpace(s) ==
    /\ srv[s].pc = "ended"
    /\ srv' = [srv EXCEPT ![s] = [NewServer EXCEPT !.pc = "gone"]]
    /\ area' = IF srv[s].resmgr
               THEN [area EXCEPT ![srv[s].area] =
                        [@ EXCEPT !.ssNum = 0, !.ssSeq = 0, !.cpNum = 0, !.cpSeq = 0]]
               ELSE area
    /\ client' = [c \in Clients |->
                    IF client[c].home = s /\ client[c].kind = "ss"
                    THEN [NewCall EXCEPT !.pc = "abended"] ELSE client[c]]
    /\ UNCHANGED <<other, routine, enq, chain>>

\* A server of another name goes through the same: it finds no area of its own,
\* then adds one; no lock is held in between.
OtherServer ==
    /\ \/ ~other /\ Len(chain) < MaxChain /\ other' = TRUE /\ UNCHANGED chain
       \/ other /\ other' = FALSE /\ chain' = <<None>> \o chain
       \/ other /\ other' = FALSE /\ UNCHANGED chain
    /\ UNCHANGED <<routine, enq, area, srv, client>>

-----------------------------------------------------------------------------
(* A client's call: cmsCallService and callServiceInternal.                *)

\* cmsCallService: the area is looked up by name.
CallService(c, v) ==
    /\ client[c].pc = "idle"
    /\ client' = [client EXCEPT ![c] =
                    IF Lookup.rc = "OK"
                    THEN [NewCall EXCEPT !.pc = "check", !.svc = v, !.area = Lookup.area]
                    ELSE [NewCall EXCEPT !.pc = "done", !.rc = Lookup.rc]]
    /\ UNCHANGED serverVars

\* The same for a caller of the look-up routine, which goes on with the address
\* it was given (cmsCallService2).
CallLookedUp(c) ==
    /\ client[c].pc = "idle"
    /\ routine
    /\ LookupRoutine.rc = "OK"
    /\ client' = [client EXCEPT ![c] = [NewCall EXCEPT !.pc = "check", !.area = LookupRoutine.area]]
    /\ UNCHANGED serverVars

\* cmsCallService2 and 3: the caller has kept the address of an area, which may
\* have been discarded since.
CallService2(c, a) ==
    /\ client[c].pc = "idle"
    /\ a \in {chain[i] : i \in 1..Len(chain)} \ {None}
    /\ area[a].named
    /\ client' = [client EXCEPT ![c] = [NewCall EXCEPT !.pc = "check", !.area = a]]
    /\ UNCHANGED serverVars

Reads(c, to) ==
    /\ client' = to
    /\ UNCHANGED serverVars

CheckVersion(c) ==
    /\ client[c].pc = "check"
    /\ Reads(c, IF area[client[c].area].current THEN [client EXCEPT ![c].pc = "ready"]
                ELSE Done(c, "WRONG_SERVER_VERSION"))

CheckReady(c) ==
    /\ client[c].pc = "ready"
    /\ Reads(c, IF area[client[c].area].ready THEN [client EXCEPT ![c].pc = "flags"]
                ELSE Done(c, "SERVER_NOT_READY"))

\* The service's flags say which of the two PC numbers is the one to use.
ReadServiceFlags(c) ==
    /\ client[c].pc = "flags"
    /\ Reads(c, [client EXCEPT ![c].pc = "number",
                    ![c].kind = IF area[client[c].area].table[client[c].svc] = "ss" THEN "ss" ELSE "cp"])

ReadPCNumber(c) ==
    /\ client[c].pc = "number"
    /\ Reads(c, [client EXCEPT ![c].pc = "sequence",
                    ![c].num = area[client[c].area][IF client[c].kind = "ss" THEN "ssNum" ELSE "cpNum"]])

ReadSequenceNumber(c) ==
    /\ client[c].pc = "sequence"
    /\ Reads(c, IF client[c].num = 0 THEN Done(c, "ZERO_PC_NUMBER")
                ELSE [client EXCEPT ![c].pc = "pc",
                        ![c].seq = area[client[c].area][IF client[c].kind = "ss" THEN "ssSeq" ELSE "cpSeq"]])

\* A PC number and a sequence number enter the space that established them,
\* as long as its job step task has not ended.
Connected(s) == InSpace(s) /\ srv[s].pc \notin {"load", "cold", "find", "allocate", "take", "table", "establish"}
                           /\ srv[s].lx # 0
Enters(s, num, seq) == Connected(s) /\ seq = s /\ num \in {srv[s].lx, srv[s].lx + 1}

\* callPCRoutine: the entry number fixes the kind of the call, the linkage the
\* area; a pair that designates nothing abends the client.
ProgramCall(c) ==
    LET r == client[c]
        s == r.seq
    IN /\ r.pc = "pc"
       /\ Reads(c, IF s # None /\ Enters(s, r.num, s)
                   THEN [client EXCEPT ![c] =
                            [@ EXCEPT !.pc = "local", !.home = s, !.area = srv[s].area, !.num = 0, !.seq = 0]]
                   ELSE [client EXCEPT ![c] = [NewCall EXCEPT !.pc = "abended"]])

-----------------------------------------------------------------------------
(* The PC routine: handleUnsafeProgramCall, for an authorized caller.      *)

ReadLocalServer(c) ==
    /\ client[c].pc = "local"
    /\ Reads(c, IF area[client[c].area].local = None THEN Done(c, "SERVER_NULL")
                ELSE [client EXCEPT ![c].pc = "service"])

\* The service's flags again, this time in the PC routine.
CheckService(c) ==
    LET k == area[client[c].area].table[client[c].svc]
    IN /\ client[c].pc = "service"
       /\ Reads(c, IF k = "none" THEN Done(c, "SERVICE_NOT_INITIALIZED")
                   ELSE IF k # client[c].kind THEN Done(c, "IMPROPER_SERVICE_AS")
                   ELSE [client EXCEPT ![c].pc = "call"])

\* A registered service: its function is read from the table once more, and run.
CallUserFunction(c) ==
    /\ client[c].pc = "call"
    /\ client[c].svc = "user"
    /\ Reads(c, IF area[client[c].area].table["user"] = "none" THEN Done(c, "FUNCTION_NULL")
                ELSE [client EXCEPT ![c].pc = "done", ![c].rc = "OK"])

\* A standard service: the server's address is read again, without a test.
ReadServerAgain(c) ==
    /\ client[c].pc = "call"
    /\ client[c].svc = "log"
    /\ Reads(c, [client EXCEPT ![c].pc = "queue", ![c].server = area[client[c].area].local])

\* The structure of s can be used from the space the call has entered.
Usable(c, s) == s = client[c].home /\ ~srv[s].removed

\* handleLogService puts the message in the server's queue.  With no server to
\* use (NULL, freed or another space's) the outcome is an abend of the routine,
\* which is recovered, or a message put where nobody looks.
LogService(c) ==
    /\ client[c].pc = "queue"
    /\ \/ Usable(c, client[c].server) /\ Reads(c, Done(c, "OK"))
       \/ ~Usable(c, client[c].server) /\ Reads(c, Done(c, "PC_SERVICE_ABEND_DETECTED"))
       \/ ~Usable(c, client[c].server) /\ client[c].server # None /\ Reads(c, Done(c, "OK"))

\* The client has its return code.
Return(c) ==
    /\ client[c].pc = "done"
    /\ Reads(c, [client EXCEPT ![c] = NewCall])

-----------------------------------------------------------------------------
Serve(s) ==     \* the steps of the main task of s, in the order of cmsStartMainLoop
    \/ LoadServer(s) \/ ColdStart(s) \/ FindArea(s) \/ AllocateArea(s) \/ TakeArea(s)
    \/ CopyServiceTable(s) \/ EstablishPCRoutines(s) \/ PublishPCInfo(s)
    \/ InstallResourceManager(s) \/ StartServer(s) \/ LeaveMainLoop(s) \/ EndLoop(s)
    \/ StopServer(s) \/ ReleaseResources(s)

Fate(s) ==      \* what happens to s
    Launch(s) \/ AbendMain(s) \/ RemoveServer(s) \/ EndTask(s) \/ EndSpace(s)

Call(c) ==      \* the steps of a call once it is begun
    \/ CheckVersion(c) \/ CheckReady(c) \/ ReadServiceFlags(c) \/ ReadPCNumber(c)
    \/ ReadSequenceNumber(c) \/ ProgramCall(c) \/ ReadLocalServer(c) \/ CheckService(c)
    \/ CallUserFunction(c) \/ ReadServerAgain(c) \/ LogService(c) \/ Return(c)

BeginCall(c) ==
    \/ \E v \in Services : CallService(c, v)
    \/ CallLookedUp(c)
    \/ \E a \in Spaces : CallService2(c, a)

Next ==
    \/ \E s \in Spaces : Serve(s) \/ Fate(s)
    \/ OtherServer
    \/ \E c \in Clients : Call(c) \/ BeginCall(c)

\* A unit of work that has begun a call goes on with it.  Nothing else has to
\* happen: no server has to start, to go on or to end.
Fairness == \A c \in Clients : WF_vars(Call(c))

Spec == Init /\ [][Next]_vars /\ Fairness

-----------------------------------------------------------------------------
(* Properties.                                                             *)

AreaType ==
    [current : BOOLEAN, named : BOOLEAN, ready : BOOLEAN, local : Spaces \cup {None},
     ssNum : LXs \cup {0}, ssSeq : Spaces \cup {0},
     cpNum : {lx + 1 : lx \in LXs} \cup {0}, cpSeq : Spaces \cup {0},
     table : [Services -> {"none", "ss", "cp"}]]

ServerPCs == {"unused", "load", "cold", "find", "allocate", "take", "table", "establish", "publish",
              "resmgr", "start", "main", "ending", "stop", "release", "returned", "ended", "gone"}

ClientPCs == {"idle", "check", "ready", "flags", "number", "sequence", "pc", "local", "service",
              "call", "queue", "done", "abended"}

\* Every variable holds a value of its kind.
TypeOK ==
    /\ enq \in Spaces \cup {None}
    /\ chain \in Seq(Spaces \cup {None}) /\ other \in BOOLEAN /\ routine \in BOOLEAN
    /\ area \in [Spaces -> AreaType]
    /\ \A s \in Spaces : srv[s].pc \in ServerPCs /\ srv[s].i \in 1..8
                          /\ srv[s].area \in Spaces \cup {None} /\ srv[s].lx \in LXs \cup {0}
    /\ \A c \in Clients : client[c].pc \in ClientPCs /\ client[c].area \in Spaces \cup {None}

\* The areas of a name that are not discarded are never more than one, however
\* the starts of the server, cold or not, overlap, and wherever one is cut short.
OneCurrentArea ==
    \A i, j \in 1..Len(chain) : Current(chain[i]) /\ Current(chain[j]) => i = j

\* A server in its main loop is the one its clients find: the look-up by name
\* ends at its area, which is ready and designates this server; and the PC
\* numbers there are its own or were cleared (the resource manager of an
\* earlier server that shared the area may run late), never another's.  Only a
\* chain that has grown past its bound, which servers of two names that start at
\* once can do, hides an area at its end.
RunningServerReachable ==
    \A s \in Spaces :
        srv[s].pc = "main" =>
            LET a == srv[s].area
            IN /\ Len(chain) <= MaxChain => Lookup = [rc |-> "OK", area |-> a]
               /\ area[a].ready
               /\ area[a].local = s
               /\ \A i \in 1..Len(PublishOrder) :
                     area[a][PublishOrder[i]] \in {0, PcInfo(s)[PublishOrder[i]]}

\* An area that says it is ready never designates an address space that is
\* gone, whichever way the server of that space ended: once its resource
\* manager has run no client can be led into the void.
NoCallToTheDead ==
    \A a \in Spaces :
        area[a].ready =>
            /\ area[a].ssNum # 0 /\ area[a].ssSeq # 0 => srv[area[a].ssSeq].pc # "gone"
            /\ area[a].cpNum # 0 /\ area[a].cpSeq # 0 => srv[area[a].cpSeq].pc # "gone"

\* What the look-up routine calls a loop is one ("Exit if looping", "Max ZVTEs"):
\* it finds the area of a running server whenever cmsGetGlobalArea does.
LookupsAgree ==
    \A s \in Spaces :
        srv[s].pc = "main" /\ routine /\ Lookup.rc = "OK" => LookupRoutine = Lookup

Steady(s) ==
    /\ srv[s].pc = "main"
    /\ Len(chain) <= MaxChain
    /\ \A i \in 1..Len(PublishOrder) : area[srv[s].area][PublishOrder[i]] = PcInfo(s)[PublishOrder[i]]

\* A call has begun, with the area that a look-up by name gives, and not with the
\* address of one that was discarded.
BegunByName(c) == client[c].pc = "check" /\ area[client[c].area].current

Served(c) == client[c].pc = "done" /\ client[c].rc = "OK"

\* Whatever crashed before it, when a server stays in its main loop every call
\* that begins from then on at the area of the name is served: it neither abends
\* nor ends with another return code.  Nothing is promised of calls that began
\* earlier, or at an area that is discarded (callServiceInternal,
\* handleUnsafeProgramCall).
EventuallyServed ==
    \A c \in Clients :
        [](BegunByName(c) /\ [](\E s \in Spaces : Steady(s)) => <>Served(c))
=============================================================================
