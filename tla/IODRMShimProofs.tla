-------------------------- MODULE IODRMShimProofs --------------------------
(***************************************************************************)
(* Theorems about IODRMShim, for every number of threads, table slots and  *)
(* memory descriptors.  The safety invariants are not inductive by         *)
(* themselves: that a closing thread does not free a page another one is   *)
(* clearing follows from who holds fLock, who can be in flight in which    *)
(* phase of the driver's life, and what a critical section may assume of   *)
(* its slot.  IInv collects these facts.  The arithmetic of the buffers,   *)
(* for words of any size and any request, comes last.                      *)
(***************************************************************************)
EXTENDS IODRMShim, DumbGeometry, TLAPS, WellFoundedInduction

\* What start() and stop() have set up by the time they are in a phase.
LifeInv ==
  /\ cdevsw => life \in {"node", "up", "stop_cdevsw"}
  /\ node => life = "up"
  /\ Loaded => gShim /\ fLock # NoLock
  /\ overlap => life \in {"stop_mem", "stop_lock", "stop_gshim", "unloaded"}

\* An ioctl is in flight only while the device is there to be used; before
\* that, nothing has been shown.
FlightInv ==
  /\ \A t \in Tasks : Busy(t) => life \in {"up", "stop_cdevsw"}
  /\ fds # {} => life \in {"up", "stop_cdevsw"}
  /\ life \in {"probing", "adding"} => fCurrentFbId = 0

\* fLock names the one thread that is inside a critical section.
LockInv ==
  \A t \in Tasks : pc[t] \in Holding <=> fLock = t

\* A critical section's slot is in use; it has memory once past the allocation.
SlotInv ==
  \A t \in Tasks :
    /\ pc[t] \in Holding => arg[t] \in Handles /\ fBOs[arg[t]].in_use
    /\ pc[t] = "alloc" => fBOs[arg[t]].mem = NoMem
    /\ pc[t] \in Touching => fBOs[arg[t]].mem # NoMem

\* TableMatchesMemory without set-builders.
OwnInv ==
  IF Loaded
    THEN /\ life \in {"probing", "adding", "node"} => live = {}
         /\ \A h \in Handles :
              fBOs[h].in_use <=> \/ fBOs[h].mem # NoMem
                                 \/ \E t \in Tasks : pc[t] = "alloc" /\ arg[t] = h
         /\ \A h \in Handles : fBOs[h].mem # NoMem => fBOs[h].mem \in live
         /\ \A m \in live : \E h \in Handles : fBOs[h].mem = m
         /\ \A h, k \in Handles :
              fBOs[h].mem # NoMem /\ fBOs[h].mem = fBOs[k].mem => h = k
    ELSE live = {}

Trusted == FlightInv /\ LockInv /\ SlotInv /\ OwnInv

IInv == /\ TypeOK
        /\ LifeInv
        /\ ~overlap => Trusted
        /\ PanicOnlyIfBusyUnload

-----------------------------------------------------------------------------
(* Operators.                                                               *)

\* Every non-empty set of natural numbers has a least element.
LEMMA LeastElement ==
  ASSUME NEW S, S \subseteq Nat, S # {}
  PROVE  \E h \in S : \A k \in S : h <= k
<1> DEFINE Less == {ss \in Nat \X Nat : ss[1] < ss[2]}
<1>1. IsWellFoundedOn(OpToRel(<, Nat), Nat)
  BY NatLessThanWellFounded
<1>2. OpToRel(<, Nat) = Less
  BY Zenon DEF OpToRel
<1>3. IsWellFoundedOn(Less, Nat)
  BY <1>1, <1>2, Zenon
<1>4. PICK h \in S : \A k \in S : ~(<<k, h>> \in Less)
  <2> HIDE DEF Less
  <2>1. QED
    BY <1>3, WFMin, Zenon
<1>5. \A k \in S : <<k, h>> \in Less <=> k < h
  OBVIOUS
<1>6. \A k \in S : ~(k < h)
  BY <1>4, <1>5, Zenon
<1>7. \A k \in S : h <= k
  <2> HIDE DEF Less
  <2>1. h \in Nat /\ \A k \in S : k \in Nat
    OBVIOUS
  <2>2. QED
    BY <1>6, <2>1
<1>8. QED
  BY <1>7

\* allocHandle gives 0 or a slot that is not in use; it gives a slot whenever
\* there is one, so ENOMEM means that the table is full.
LEMMA AllocHandleFacts ==
  ASSUME TypeOK
  PROVE  /\ allocHandle # 0 => allocHandle \in Handles /\ ~fBOs[allocHandle].in_use
         /\ allocHandle = 0 => \A h \in Handles : fBOs[h].in_use
<1> DEFINE unused == {h \in Handles : ~fBOs[h].in_use}
           least(h) == h \in unused /\ \A k \in unused : h <= k
<1>1. CASE unused = {}
  BY <1>1 DEF allocHandle
<1>2. CASE unused # {}
  <2>1. unused \subseteq Nat /\ 0 \notin unused
    BY NumBOsAssumption DEF Handles
  <2>2. \E h \in unused : \A k \in unused : h <= k
    BY <1>2, <2>1, LeastElement
  <2>4. least(CHOOSE x \in unused : \A k \in unused : x <= k)
    BY <2>2
  <2>5. allocHandle \in unused
    BY <1>2, <2>4 DEF allocHandle
  <2>6. QED
    BY <2>1, <2>5
<1>3. QED
  BY <1>1, <1>2

-----------------------------------------------------------------------------
(* Types.                                                                   *)

LEMMA UnusedType == Unused \in DumbBO
  BY DEF Unused, DumbBO

LEMMA NullArg == 0 \in Args /\ 0 \in 0..NumBOs /\ Handles \subseteq Args /\ Handles \subseteq 0..NumBOs
  BY NumBOsAssumption DEF Args, Handles

LEMMA TypeInit == Init => TypeOK
<1> SUFFICES ASSUME Init PROVE TypeOK
  OBVIOUS
<1>1. fBOs \in [Handles -> DumbBO]
  BY UnusedType DEF Init
<1>2. pc \in [Tasks -> PCs] /\ cmd \in [Tasks -> IssuedCmds \cup {NoCmd}]
      /\ arg \in [Tasks -> Args]
  BY NullArg DEF Init, PCs
<1>3. QED
  BY <1>1, <1>2, NullArg DEF Init, TypeOK, LifeStates, Holding

LEMMA TypeStart ==
  ASSUME TypeOK, Start, UNCHANGED panic
  PROVE  TypeOK'
<1> USE DEF TypeOK, LifeStates, tableVars, taskVars
<1>1. CASE StartAlloc
  BY <1>1, UnusedType, NullArg DEF StartAlloc
<1>2. CASE StartProbe
  BY <1>2 DEF StartProbe
<1>3. CASE StartCdevsw
  BY <1>3 DEF StartCdevsw
<1>4. CASE StartNode
  BY <1>4 DEF StartNode
<1>5. QED
  BY <1>1, <1>2, <1>3, <1>4 DEF Start

LEMMA TypeStop ==
  ASSUME TypeOK, Stop, UNCHANGED panic
  PROVE  TypeOK'
  BY DEF Stop, StopNode, StopCdevsw, StopMem, StopLock, StopGShim,
     TypeOK, LifeStates, tableVars, taskVars

\* The threads' variables, which every ioctl step changes in the same two ways.
LEMMA TypeReturn ==
  ASSUME TypeOK, NEW t \in Tasks, Return(t)
  PROVE  /\ fds' \subseteq Tasks
         /\ pc' \in [Tasks -> PCs]
         /\ cmd' \in [Tasks -> IssuedCmds \cup {NoCmd}]
         /\ arg' \in [Tasks -> Args]
         /\ \A u \in Tasks : pc'[u] \in Holding => arg'[u] \in Handles
<1>1. pc' \in [Tasks -> PCs] /\ cmd' \in [Tasks -> IssuedCmds \cup {NoCmd}]
      /\ arg' \in [Tasks -> Args]
  BY NullArg DEF TypeOK, Return, PCs
<1>2. QED
  BY <1>1 DEF TypeOK, Return, Holding

LEMMA TypeGoTo ==
  ASSUME TypeOK, NEW t \in Tasks, NEW where \in PCs, NEW h \in Args,
         where \in Holding => h \in Handles, GoTo(t, where, h)
  PROVE  /\ fds' \subseteq Tasks
         /\ pc' \in [Tasks -> PCs]
         /\ cmd' \in [Tasks -> IssuedCmds \cup {NoCmd}]
         /\ arg' \in [Tasks -> Args]
         /\ \A u \in Tasks : pc'[u] \in Holding => arg'[u] \in Handles
  BY DEF TypeOK, GoTo

LEMMA TypeTask ==
  ASSUME TypeOK, NEW t \in Tasks, Task(t), UNCHANGED panic
  PROVE  TypeOK'
<1> USE DEF driverSame, lifeVars, tableVars
<1>1. CASE DevOpen(t)
  BY <1>1 DEF DevOpen, TypeOK
<1>2. CASE DevClose(t)
  BY <1>2 DEF DevClose, TypeOK
<1>3. CASE IoctlEnter(t)
  <2>1. PICK c \in IssuedCmds, h \in Args :
          /\ pc'  = [pc  EXCEPT ![t] = "entered"]
          /\ cmd' = [cmd EXCEPT ![t] = c]
          /\ arg' = [arg EXCEPT ![t] = h]
    BY <1>3 DEF IoctlEnter
  <2>2. pc' \in [Tasks -> PCs] /\ cmd' \in [Tasks -> IssuedCmds \cup {NoCmd}]
        /\ arg' \in [Tasks -> Args]
    BY <2>1 DEF TypeOK, PCs
  <2>3. \A u \in Tasks : pc'[u] \in Holding => arg'[u] \in Handles
    BY <2>1 DEF TypeOK, Holding
  <2>4. QED
    BY <1>3, <2>2, <2>3 DEF IoctlEnter, TypeOK
<1>4. CASE DispatchReject(t)
  BY <1>4, TypeReturn DEF DispatchReject, TypeOK
<1>5. CASE Dispatch(t)
  <2>1. arg[t] \in Args /\ "locking" \in PCs /\ "lockless" \in PCs
        /\ "locking" \notin Holding /\ "lockless" \notin Holding
    BY DEF TypeOK, PCs, Holding
  <2>2. QED
    BY <1>5, <2>1, TypeGoTo DEF Dispatch, TypeOK
<1>6. CASE Lockless(t)
  BY <1>6, TypeReturn DEF Lockless, TypeOK
<1>7. CASE CreateFull(t)
  BY <1>7, TypeReturn DEF CreateFull, TypeOK
<1>8. CASE CreateClaim(t)
  <2>1. allocHandle \in Handles /\ "alloc" \in PCs
    BY <1>8, AllocHandleFacts DEF CreateClaim, PCs
  <2>2. fBOs' \in [Handles -> DumbBO]
    BY <1>8, <2>1 DEF CreateClaim, TypeOK, DumbBO
  <2>3. QED
    BY <1>8, <2>1, <2>2, TypeGoTo, NullArg DEF CreateClaim, TypeOK
<1>9. CASE CreateAlloc(t)
  <2>1. arg[t] \in Handles /\ "fill" \in PCs
    BY <1>9 DEF CreateAlloc, InSection, TypeOK, Holding, PCs
  <2>2. fBOs' \in [Handles -> DumbBO] /\ live' \subseteq Mems
    BY <1>9, <2>1 DEF CreateAlloc, TypeOK, DumbBO
  <2>3. QED
    BY <1>9, <2>1, <2>2, TypeGoTo, NullArg DEF CreateAlloc, TypeOK
<1>10. CASE CreateNoMem(t)
  BY <1>10, TypeReturn, UnusedType DEF CreateNoMem, TypeOK
<1>11. CASE CreateFill(t)
  BY <1>11, TypeReturn DEF CreateFill, TypeOK
<1>12. CASE MapDumb(t)
  BY <1>12, TypeReturn DEF MapDumb, TypeOK
<1>13. CASE SetCrtcUnknown(t)
  BY <1>13, TypeReturn DEF SetCrtcUnknown, TypeOK
<1>14. CASE SetCrtcFind(t)
  <2>1. arg[t] \in Handles /\ "blit" \in PCs
    BY <1>14 DEF SetCrtcFind, findBO, PCs
  <2>2. QED
    BY <1>14, <2>1, TypeGoTo, NullArg DEF SetCrtcFind, TypeOK
<1>15. CASE SetCrtcBlit(t)
  <2>1. arg[t] \in 0..NumBOs
    BY <1>15, NullArg DEF SetCrtcBlit, InSection, TypeOK, Holding
  <2>2. QED
    BY <1>15, <2>1, TypeReturn DEF SetCrtcBlit, TypeOK
<1>16. CASE GemClose(t)
  <2>1. fBOs' \in [Handles -> DumbBO] /\ live' \subseteq Mems
    BY <1>16, UnusedType DEF GemClose, TypeOK
  <2>2. QED
    BY <1>16, <2>1, TypeReturn DEF GemClose, TypeOK
<1>17. QED
  BY <1>1, <1>2, <1>3, <1>4, <1>5, <1>6, <1>7, <1>8,
     <1>9, <1>10, <1>11, <1>12, <1>13, <1>14, <1>15, <1>16 DEF Task, Proceed, Acquire

LEMMA TypeStep == TypeOK /\ [Next]_vars => TypeOK'
<1> SUFFICES ASSUME TypeOK, [Next]_vars PROVE TypeOK'
  OBVIOUS
<1>1. CASE Start /\ UNCHANGED panic
  BY <1>1, TypeStart
<1>2. CASE Stop /\ UNCHANGED panic
  BY <1>2, TypeStop
<1>3. ASSUME NEW t \in Tasks, Task(t), UNCHANGED panic PROVE TypeOK'
  BY <1>3, TypeTask
<1>4. ASSUME NEW t \in Tasks, Fault(t) PROVE TypeOK'
  BY <1>4 DEF Fault, TypeOK, lifeVars, tableVars, taskVars
<1>5. CASE UNCHANGED vars
  BY <1>5 DEF vars, TypeOK, lifeVars, tableVars, taskVars
<1>6. QED
  BY <1>1, <1>2, <1>3, <1>4, <1>5 DEF Next, Step

\* Every reachable state has the types of the C structures: handles within the
\* table, slots with a descriptor or NULL, a lock that is absent, free or held.
THEOREM TypeCorrect == Spec => []TypeOK
  BY TypeInit, TypeStep, PTL DEF Spec

-----------------------------------------------------------------------------
(* The inductive invariant.                                                 *)

LEMMA InvInit == Init => IInv
<1> SUFFICES ASSUME Init PROVE IInv
  OBVIOUS
<1>1. TypeOK
  BY TypeInit
<1>2. LifeInv /\ PanicOnlyIfBusyUnload
  BY DEF Init, LifeInv, Loaded, PanicOnlyIfBusyUnload
<1>3. Trusted
  BY NullAssumption DEF Init, Trusted, FlightInv, LockInv, SlotInv, OwnInv, Loaded, Busy,
     Holding, Touching
<1>4. QED
  BY <1>1, <1>2, <1>3 DEF IInv

\* Fault never strikes while the driver is trusted.
LEMMA NoFault ==
  ASSUME IInv, ~overlap, NEW t \in Tasks
  PROVE  ~UsesFreed(t)
<1>1. Busy(t) => Loaded /\ fLock # NoLock
  BY DEF IInv, Trusted, FlightInv, LifeInv, Loaded
<1>2. pc[t] \in Holding => fLock = t
  BY DEF IInv, Trusted, LockInv
<1>3. pc[t] \in Touching => fBOs[arg[t]].mem \in live
  <2>1. pc[t] \in Touching => pc[t] \in Holding /\ Busy(t)
    BY DEF Touching, Holding, Busy
  <2>2. QED
    BY <1>1, <2>1 DEF IInv, TypeOK, Trusted, SlotInv, OwnInv
<1>4. CanLock(t, "GEM_CLOSE") /\ findBO(arg[t]) => fBOs[arg[t]].mem \in live \cup {NoMem}
  BY <1>1 DEF CanLock, findBO, Busy, IInv, Trusted, OwnInv
<1>5. QED
  BY <1>1, <1>2, <1>3, <1>4 DEF UsesFreed, Busy, Holding, Touching

\* An ioctl changes nothing of the driver's life, and fLock only by taking and
\* giving it back.
LEMMA TaskKeepsLife ==
  ASSUME NEW t \in Tasks, Task(t)
  PROVE  /\ UNCHANGED <<lifeVars, overlap>>
         /\ fLock' \in {fLock, Free, t}
<1> USE DEF driverSame
<1>1. UNCHANGED <<lifeVars, overlap>>
  BY DEF Task, Proceed, Acquire, DevOpen, DevClose, IoctlEnter,
     DispatchReject, Dispatch, Lockless, CreateFull, CreateClaim, CreateAlloc,
     CreateNoMem, CreateFill, MapDumb, SetCrtcUnknown, SetCrtcFind,
     SetCrtcBlit, GemClose
<1>2. fLock' \in {fLock, Free, t}
  BY DEF Task, Proceed, Acquire, DevOpen, DevClose, IoctlEnter,
     DispatchReject, Dispatch, Lockless, CreateFull, CreateClaim, CreateAlloc,
     CreateNoMem, CreateFill, MapDumb, SetCrtcUnknown, SetCrtcFind,
     SetCrtcBlit, GemClose
<1>3. QED
  BY <1>1, <1>2

\* start() and stop() keep the phases in order, and the ioctls too: only a
\* thread in the critical section, or none, changes fLock.
LEMMA LifeStep == IInv /\ [Next]_vars => LifeInv'
<1> SUFFICES ASSUME IInv, [Next]_vars PROVE LifeInv'
  OBVIOUS
<1> USE NullAssumption DEF IInv, LifeInv, Loaded, lifeVars, driverSame
<1>1. CASE Start
  BY <1>1 DEF Start, StartAlloc, StartProbe, StartCdevsw, StartNode
<1>2. CASE Stop
  <2>1. CASE StopNode
    BY <1>2, <2>1 DEF StopNode
  <2>2. CASE StopCdevsw
    BY <1>2, <2>2 DEF StopCdevsw
  <2>3. CASE StopMem \/ StopLock \/ StopGShim
    BY <1>2, <2>3 DEF StopMem, StopLock, StopGShim
  <2>4. QED
    BY <1>2, <2>1, <2>2, <2>3 DEF Stop
<1>3. ASSUME NEW t \in Tasks, Task(t) PROVE LifeInv'
  BY <1>3, TaskKeepsLife
<1>4. ASSUME NEW t \in Tasks, Fault(t) PROVE LifeInv'
  BY <1>4 DEF Fault
<1>5. CASE UNCHANGED vars
  BY <1>5 DEF vars
<1>6. QED
  BY <1>1, <1>2, <1>3, <1>4, <1>5 DEF Next, Step

\* A phase of start() or stop() other than the device's lifetime meets no ioctl.
LEMMA TrustedDriver ==
  ASSUME IInv, Start \/ Stop, ~overlap'
  PROVE  Trusted'
<1>1. ~overlap
  BY DEF Start, Stop, StartAlloc, StartProbe, StartCdevsw, StartNode, StopNode,
     StopCdevsw, StopMem, StopLock, StopGShim, IInv, LifeInv
<1>2. Trusted /\ TypeOK
  BY <1>1 DEF IInv
<1>3. UNCHANGED <<pc, cmd, arg>>
  BY DEF Start, Stop, StartAlloc, StartProbe, StartCdevsw, StartNode, StopNode,
     StopCdevsw, StopMem, StopLock, StopGShim, taskVars
<1>4. FlightInv'
  BY <1>2, <1>3 DEF Trusted, FlightInv, Busy, Start, Stop, StartAlloc, StartProbe,
     StartCdevsw, StartNode, StopNode, StopCdevsw, StopMem, StopLock, StopGShim,
     taskVars, tableVars
<1>5. (\A t \in Tasks : ~Busy(t)) \/ life = "up"
  BY <1>2 DEF Trusted, FlightInv, Start, Stop, StartAlloc, StartProbe,
     StartCdevsw, StartNode, StopNode, StopCdevsw, StopMem, StopLock, StopGShim
<1>6. LockInv'
  BY <1>2, <1>3, <1>5, NullAssumption DEF Trusted, LockInv, Holding, Busy, Start, Stop,
     StartAlloc, StartProbe, StartCdevsw, StartNode, StopNode, StopCdevsw, StopMem,
     StopLock, StopGShim
<1>7. SlotInv'
  BY <1>2, <1>3, <1>5 DEF Trusted, SlotInv, Holding, Touching, Busy, Start, Stop,
     StartAlloc, StartProbe, StartCdevsw, StartNode, StopNode, StopCdevsw, StopMem,
     StopLock, StopGShim, tableVars
<1>8. OwnInv'
  <2>1. CASE StartAlloc
    <3>1. live' = {} /\ \A h \in Handles : fBOs'[h].mem = NoMem /\ ~fBOs'[h].in_use
      BY <1>2, <2>1 DEF StartAlloc, Trusted, OwnInv, Loaded, Unused
    <3>2. \A t \in Tasks : pc'[t] # "alloc"
      BY <1>2, <1>3, <2>1 DEF StartAlloc, Trusted, FlightInv, Busy
    <3>3. QED
      BY <3>1, <3>2 DEF OwnInv
  <2>2. CASE StartProbe \/ StopNode \/ StopCdevsw
    <3>1. Loaded /\ Loaded' /\ UNCHANGED tableVars
          /\ (life' \in {"probing", "adding", "node"} => life = "probing")
      BY <2>2 DEF StartProbe, StopNode, StopCdevsw, Loaded
    <3>2. QED
      BY <1>2, <1>3, <3>1 DEF Trusted, OwnInv, tableVars
  <2>3. CASE StartCdevsw \/ StartNode
    <3>1. Loaded /\ UNCHANGED tableVars /\ live = {}
      BY <1>2, <2>3 DEF Trusted, OwnInv, StartCdevsw, StartNode, Loaded
    <3>2. CASE Loaded'
      BY <1>2, <1>3, <3>1, <3>2 DEF Trusted, OwnInv, tableVars
    <3>3. CASE ~Loaded'
      BY <1>2, <3>1, <3>3 DEF Trusted, OwnInv, tableVars
    <3>4. QED
      BY <3>2, <3>3
  <2>4. CASE StopMem
    <3>1. Loaded /\ ~Loaded'
      BY <2>4 DEF StopMem, Loaded
    <3>2. \A m \in live : \E h \in Handles : fBOs[h].in_use /\ fBOs[h].mem = m
      <4>1. \A h \in Handles : fBOs[h].mem \in live => fBOs[h].mem # NoMem
        BY <1>2, NullAssumption DEF TypeOK
      <4>2. QED
        BY <1>2, <3>1, <4>1 DEF Trusted, OwnInv
    <3>3. live' = {}
      BY <2>4, <3>2 DEF StopMem
    <3>4. QED
      BY <3>1, <3>3 DEF OwnInv
  <2>5. CASE StopLock \/ StopGShim
    BY <1>2, <2>5 DEF StopLock, StopGShim, Trusted, OwnInv, Loaded, tableVars
  <2>6. QED
    BY <2>1, <2>2, <2>3, <2>4, <2>5 DEF Start, Stop
<1>9. QED
  BY <1>4, <1>6, <1>7, <1>8 DEF Trusted

\* A step that ends outside the critical section and leaves lock and table alone.
LEMMA QuietStep ==
  ASSUME IInv, ~overlap, NEW t \in Tasks,
         UNCHANGED <<life, fLock, fBOs, live>>,
         pc[t] \notin Holding, pc'[t] \notin Holding,
         \A u \in Tasks \ {t} : pc'[u] = pc[u] /\ arg'[u] = arg[u]
  PROVE  LockInv' /\ SlotInv' /\ OwnInv'
<1>1. Trusted
  BY DEF IInv
<1>2. \A u \in Tasks : pc'[u] \in Holding \cup {"alloc"} \/ pc[u] \in Holding \cup {"alloc"}
        => u # t
  BY DEF Holding
<1>3. LockInv'
  BY <1>1, <1>2 DEF Trusted, LockInv
<1>4. SlotInv'
  BY <1>1, <1>2 DEF Trusted, SlotInv, Holding, Touching
<1>5. \A h \in Handles : (\E u \in Tasks : pc'[u] = "alloc" /\ arg'[u] = h)
                      <=> (\E u \in Tasks : pc[u] = "alloc" /\ arg[u] = h)
  BY <1>2
<1>6. OwnInv'
  BY <1>1, <1>5 DEF Trusted, OwnInv, Loaded
<1>7. QED
  BY <1>3, <1>4, <1>6

\* Only live ioctls run, and they leave the phase alone.
LEMMA FlightTask ==
  ASSUME IInv, ~overlap, NEW t \in Tasks, Task(t)
  PROVE  FlightInv'
<1>1. Trusted /\ LifeInv /\ TypeOK
  BY DEF IInv
<1>2. UNCHANGED lifeVars
  BY TaskKeepsLife
<1>3. life \in {"up", "stop_cdevsw"}
  <2>1. CASE DevOpen(t)
    BY <1>1, <2>1 DEF DevOpen, LifeInv
  <2>2. CASE DevClose(t) \/ IoctlEnter(t)
    BY <1>1, <2>2 DEF DevClose, IoctlEnter, Trusted, FlightInv
  <2>3. CASE Proceed(t) \/ Acquire(t)
    <3>1. Busy(t)
      BY <2>3 DEF Busy, Proceed, Acquire, DispatchReject, Dispatch, Lockless,
         CreateFull, CreateClaim, CreateAlloc, CreateNoMem, CreateFill, MapDumb,
         SetCrtcUnknown, SetCrtcFind, SetCrtcBlit, GemClose, CanLock, InSection
    <3>2. QED
      BY <1>1, <3>1 DEF Trusted, FlightInv
  <2>4. QED
    BY <2>1, <2>2, <2>3 DEF Task
<1>4. QED
  BY <1>2, <1>3 DEF FlightInv, lifeVars

\* An ioctl that changes the table does it alone, on the one slot it holds.
LEMMA TrustedTask ==
  ASSUME IInv, ~overlap, NEW t \in Tasks, Task(t)
  PROVE  Trusted'
<1>1. Trusted /\ TypeOK
  BY DEF IInv
<1>2. FlightInv' /\ life' = life
  BY FlightTask, TaskKeepsLife DEF lifeVars
<1>3. ASSUME Busy(t) PROVE Loaded /\ Loaded' /\ life \notin {"probing", "adding", "node"}
  BY <1>1, <1>2, <1>3 DEF Trusted, FlightInv, Loaded
<1>4. ASSUME fLock \in {Free, t}
      PROVE  \A u \in Tasks \ {t} : pc[u] \notin Holding /\ pc[u] # "alloc"
  BY <1>1, <1>4, NullAssumption DEF Trusted, LockInv, Holding
<1>5. CASE \/ DevOpen(t) \/ DevClose(t) \/ IoctlEnter(t) \/ DispatchReject(t)
           \/ Dispatch(t) \/ Lockless(t) \/ CreateFull(t) \/ MapDumb(t)
           \/ SetCrtcUnknown(t)
  <2>1. UNCHANGED <<life, fLock, fBOs, live>>
    BY <1>2, <1>5 DEF DevOpen, DevClose, IoctlEnter, DispatchReject, Dispatch,
       Lockless, CreateFull, MapDumb, SetCrtcUnknown, tableVars
  <2>2. pc[t] \notin Holding
    BY <1>5 DEF DevOpen, DevClose, IoctlEnter, DispatchReject, Dispatch,
       Lockless, CreateFull, MapDumb, SetCrtcUnknown, CanLock, Busy, Holding
  <2>3. /\ pc'[t] \notin Holding
        /\ \A u \in Tasks \ {t} : pc'[u] = pc[u] /\ arg'[u] = arg[u]
    BY <1>1, <1>5 DEF DevOpen, DevClose, IoctlEnter, DispatchReject, Dispatch,
       Lockless, CreateFull, MapDumb, SetCrtcUnknown, Busy, Holding, Return,
       GoTo, TypeOK
  <2>4. QED
    BY <1>2, <2>1, <2>2, <2>3, QuietStep DEF Trusted
<1>6. CASE CreateClaim(t)
  <2> DEFINE h == allocHandle
  <2>1. h \in Handles /\ ~fBOs[h].in_use
    BY <1>1, <1>6, AllocHandleFacts DEF CreateClaim
  <2> HIDE DEF h
  <2>2. /\ fLock' = t /\ fLock = Free /\ live' = live
        /\ fBOs' = [fBOs EXCEPT ![h].in_use = TRUE]
        /\ pc' = [pc EXCEPT ![t] = "alloc"] /\ arg' = [arg EXCEPT ![t] = h]
        /\ Busy(t)
    BY <1>6 DEF CreateClaim, CanLock, GoTo, Busy, h
  <2>3. /\ \A u \in Tasks \ {t} : pc'[u] = pc[u] /\ arg'[u] = arg[u] /\ pc[u] \notin Holding
        /\ pc'[t] = "alloc" /\ arg'[t] = h
    BY <1>1, <1>4, <2>2 DEF TypeOK
  <2>4. /\ \A k \in Handles : fBOs'[k].mem = fBOs[k].mem
        /\ \A k \in Handles \ {h} : fBOs'[k].in_use = fBOs[k].in_use
        /\ fBOs'[h].in_use /\ fBOs[h].mem = NoMem
    BY <1>1, <1>3, <2>1, <2>2 DEF TypeOK, DumbBO, Trusted, OwnInv
  <2>5. LockInv'
    BY <1>1, <2>2, <2>3, NullAssumption DEF Trusted, LockInv, Holding
  <2>6. SlotInv'
    BY <1>1, <2>1, <2>3, <2>4 DEF Trusted, SlotInv, Holding, Touching
  <2>7. OwnInv'
    <3>1. \A k \in Handles : (\E u \in Tasks : pc'[u] = "alloc" /\ arg'[u] = k) <=> k = h
      BY <2>1, <2>3 DEF Holding
    <3>2. pc[t] # "alloc" /\ \A u \in Tasks : pc[u] # "alloc"
      BY <1>6, <2>3 DEF CreateClaim, CanLock, Holding
    <3>3. \A k \in Handles : fBOs'[k].in_use <=> fBOs'[k].mem # NoMem \/ k = h
      BY <1>1, <1>3, <2>2, <2>4, <3>2 DEF Trusted, OwnInv
    <3>4. QED
      BY <1>1, <1>2, <1>3, <2>2, <2>4, <3>1, <3>3 DEF Trusted, OwnInv
  <2>8. QED
    BY <1>2, <2>5, <2>6, <2>7 DEF Trusted
<1>7. CASE CreateAlloc(t)
  <2> DEFINE h == arg[t]
  <2>1. /\ h \in Handles /\ fBOs[h].in_use /\ fBOs[h].mem = NoMem
        /\ pc[t] = "alloc" /\ fLock = t
    BY <1>1, <1>7 DEF CreateAlloc, InSection, Trusted, SlotInv, Holding
  <2>2. PICK m \in Mems \ live : /\ fBOs' = [fBOs EXCEPT ![h].mem = m]
                               /\ live' = live \cup {m}
    BY <1>7 DEF CreateAlloc
  <2>3. /\ fLock' = t /\ Busy(t)
        /\ \A u \in Tasks \ {t} : pc'[u] = pc[u] /\ arg'[u] = arg[u] /\ pc[u] \notin Holding
        /\ pc'[t] = "fill" /\ arg'[t] = h
    BY <1>1, <1>4, <1>7, <2>1 DEF CreateAlloc, GoTo, TypeOK, Busy
  <2> HIDE DEF h
  <2>4. /\ \A k \in Handles \ {h} : fBOs'[k].mem = fBOs[k].mem
        /\ \A k \in Handles : fBOs'[k].in_use = fBOs[k].in_use
        /\ fBOs'[h].mem = m /\ m # NoMem
    BY <1>1, <2>1, <2>2, NullAssumption DEF TypeOK, DumbBO
  <2>5. LockInv'
    BY <2>1, <2>3, NullAssumption DEF LockInv, Holding
  <2>6. SlotInv'
    BY <1>1, <2>1, <2>3, <2>4 DEF Trusted, SlotInv, Holding, Touching
  <2>7. OwnInv'
    <3>1. \A k \in Handles : (\E u \in Tasks : pc[u] = "alloc" /\ arg[u] = k) <=> k = h
      BY <2>1, <2>3 DEF Holding, h
    <3>2. \A u \in Tasks : pc'[u] # "alloc"
      BY <2>3 DEF Holding
    <3>3. \A k \in Handles : fBOs'[k].in_use <=> fBOs'[k].mem # NoMem
      BY <1>1, <1>3, <2>1, <2>3, <2>4, <3>1 DEF Trusted, OwnInv
    <3>4. \A k \in Handles : fBOs'[k].mem # NoMem => fBOs'[k].mem \in live'
      BY <1>1, <1>3, <2>2, <2>3, <2>4 DEF Trusted, OwnInv
    <3>5. \A n \in live' : \E k \in Handles : fBOs'[k].mem = n
      <4>1. \A n \in live : \E k \in Handles \ {h} : fBOs[k].mem = n
        BY <1>1, <1>3, <2>1, <2>3, NullAssumption DEF Trusted, OwnInv, TypeOK
      <4>2. QED
        BY <2>1, <2>2, <2>4, <4>1
    <3>6. \A j, k \in Handles : fBOs'[j].mem # NoMem /\ fBOs'[j].mem = fBOs'[k].mem => j = k
      BY <1>1, <1>3, <2>2, <2>3, <2>4 DEF Trusted, OwnInv
    <3>7. QED
      BY <1>2, <1>3, <2>3, <3>2, <3>3, <3>4, <3>5, <3>6 DEF OwnInv
  <2>8. QED
    BY <1>2, <2>5, <2>6, <2>7 DEF Trusted
<1>8. CASE CreateNoMem(t)
  <2> DEFINE h == arg[t]
  <2>1. /\ h \in Handles /\ fBOs[h].mem = NoMem /\ pc[t] = "alloc" /\ fLock = t
        /\ Busy(t)
    BY <1>1, <1>8 DEF CreateNoMem, InSection, Trusted, SlotInv, Holding, Busy
  <2>2. /\ fLock' = Free /\ live' = live
        /\ fBOs' = [fBOs EXCEPT ![h] = Unused]
        /\ \A u \in Tasks \ {t} : pc'[u] = pc[u] /\ arg'[u] = arg[u] /\ pc[u] \notin Holding
        /\ pc'[t] = "idle"
    BY <1>1, <1>4, <1>8, <2>1 DEF CreateNoMem, Return, TypeOK
  <2>3. \A u \in Tasks : pc'[u] \notin Holding
    BY <2>2 DEF Holding
  <2>4. LockInv' /\ SlotInv'
    BY <2>2, <2>3, NullAssumption DEF LockInv, SlotInv, Holding, Touching
  <2>5. \A k \in Handles : (\E u \in Tasks : pc[u] = "alloc" /\ arg[u] = k) <=> k = h
    BY <2>1, <2>2 DEF Holding
  <2> HIDE DEF h
  <2>6. /\ \A k \in Handles : fBOs'[k].mem = fBOs[k].mem
        /\ \A k \in Handles \ {h} : fBOs'[k].in_use = fBOs[k].in_use
        /\ ~fBOs'[h].in_use
    BY <1>1, <2>1, <2>2 DEF TypeOK, Unused
  <2>7. OwnInv'
    BY <1>1, <1>2, <1>3, <2>1, <2>2, <2>3, <2>5, <2>6 DEF Trusted, OwnInv, Holding
  <2>8. QED
    BY <1>2, <2>4, <2>7 DEF Trusted
<1>9. CASE CreateFill(t) \/ SetCrtcBlit(t)
  <2>1. /\ fLock = t /\ fLock' = Free /\ UNCHANGED <<fBOs, live>>
        /\ pc[t] \in Touching /\ Busy(t)
    BY <1>9 DEF CreateFill, SetCrtcBlit, InSection, tableVars, Touching, Busy
  <2>2. /\ \A u \in Tasks \ {t} : pc'[u] = pc[u] /\ pc[u] \notin Holding
        /\ pc'[t] = "idle"
    BY <1>1, <1>4, <1>9, <2>1 DEF CreateFill, SetCrtcBlit, Return, TypeOK
  <2>3. \A u \in Tasks : pc'[u] \notin Holding /\ pc[u] # "alloc"
    BY <2>1, <2>2 DEF Holding, Touching
  <2>4. LockInv' /\ SlotInv'
    BY <2>1, <2>3, NullAssumption DEF LockInv, SlotInv, Holding, Touching
  <2>5. OwnInv'
    BY <1>1, <1>2, <1>3, <2>1, <2>3 DEF Trusted, OwnInv, Holding
  <2>6. QED
    BY <1>2, <2>4, <2>5 DEF Trusted
<1>10. CASE SetCrtcFind(t)
  <2>1. /\ fLock = Free /\ fLock' = t /\ UNCHANGED <<fBOs, live>>
        /\ arg[t] \in Handles /\ fBOs[arg[t]].in_use /\ Busy(t)
        /\ pc[t] # "alloc"
    BY <1>10 DEF SetCrtcFind, CanLock, findBO, tableVars, Busy
  <2>2. /\ \A u \in Tasks \ {t} : pc'[u] = pc[u] /\ arg'[u] = arg[u] /\ pc[u] \notin Holding
        /\ pc'[t] = "blit" /\ arg'[t] = arg[t]
    BY <1>1, <1>4, <1>10, <2>1 DEF SetCrtcFind, GoTo, TypeOK
  <2>3. \A u \in Tasks : pc'[u] # "alloc" /\ pc[u] # "alloc"
    BY <2>1, <2>2 DEF Holding
  <2>4. fBOs[arg[t]].mem # NoMem
    BY <1>1, <1>3, <2>1, <2>3 DEF Trusted, OwnInv
  <2>5. LockInv'
    BY <2>1, <2>2, NullAssumption DEF LockInv, Holding
  <2>6. SlotInv'
    BY <2>1, <2>2, <2>3, <2>4 DEF SlotInv, Holding, Touching
  <2>7. OwnInv'
    BY <1>1, <1>2, <1>3, <2>1, <2>3 DEF Trusted, OwnInv
  <2>8. QED
    BY <1>2, <2>5, <2>6, <2>7 DEF Trusted
<1>11. CASE GemClose(t)
  <2>1. fLock = Free /\ fLock' = Free /\ Busy(t) /\ pc[t] \notin Holding
    BY <1>11 DEF GemClose, CanLock, Busy, Holding
  <2>2. /\ \A u \in Tasks \ {t} : pc'[u] = pc[u] /\ arg'[u] = arg[u] /\ pc[u] \notin Holding
        /\ pc'[t] = "idle"
    BY <1>1, <1>4, <1>11, <2>1 DEF GemClose, Return, TypeOK
  <2>3. \A u \in Tasks : /\ pc'[u] \notin Holding /\ pc[u] \notin Holding
                       /\ pc'[u] # "alloc" /\ pc[u] # "alloc"
    BY <2>1, <2>2 DEF Holding
  <2>4. LockInv' /\ SlotInv'
    BY <2>1, <2>3, NullAssumption DEF LockInv, SlotInv, Holding, Touching
  <2>5. CASE ~findBO(arg[t])
    <3>1. UNCHANGED <<fBOs, live>>
      BY <1>11, <2>5 DEF GemClose
    <3>2. OwnInv'
      BY <1>1, <1>2, <1>3, <2>1, <2>3, <3>1 DEF Trusted, OwnInv
    <3>3. QED
      BY <1>2, <2>4, <3>2 DEF Trusted
  <2>6. CASE findBO(arg[t])
    <3> DEFINE h == arg[t]
    <3>1. /\ h \in Handles
          /\ live' = live \ {fBOs[h].mem}
          /\ fBOs' = [fBOs EXCEPT ![h] = Unused]
      BY <1>11, <2>6 DEF GemClose, findBO
    <3> HIDE DEF h
    <3>2. /\ \A k \in Handles \ {h} : fBOs'[k] = fBOs[k]
          /\ ~fBOs'[h].in_use /\ fBOs'[h].mem = NoMem
      BY <1>1, <3>1 DEF TypeOK, Unused
    <3>3. \A k \in Handles : fBOs'[k].in_use <=> fBOs'[k].mem # NoMem
      BY <1>1, <1>3, <2>1, <2>3, <3>2 DEF Trusted, OwnInv
    <3>4. \A k \in Handles : fBOs'[k].mem # NoMem => fBOs'[k].mem \in live'
      BY <1>1, <1>3, <2>1, <3>1, <3>2 DEF Trusted, OwnInv
    <3>5. \A n \in live' : \E k \in Handles : fBOs'[k].mem = n
      BY <1>1, <1>3, <2>1, <3>1, <3>2 DEF Trusted, OwnInv
    <3>6. \A j, k \in Handles : fBOs'[j].mem # NoMem /\ fBOs'[j].mem = fBOs'[k].mem => j = k
      BY <1>1, <1>3, <2>1, <3>2 DEF Trusted, OwnInv
    <3>7. OwnInv'
      BY <1>2, <1>3, <2>1, <2>3, <3>3, <3>4, <3>5, <3>6 DEF OwnInv
    <3>8. QED
      BY <1>2, <2>4, <3>7 DEF Trusted
  <2>7. QED
    BY <2>5, <2>6
<1>12. QED
  BY <1>5, <1>6, <1>7, <1>8, <1>9, <1>10, <1>11 DEF Task, Proceed, Acquire

LEMMA InvStep == IInv /\ [Next]_vars => IInv'
<1> SUFFICES ASSUME IInv, [Next]_vars PROVE IInv'
  OBVIOUS
<1>1. TypeOK' /\ LifeInv'
  BY TypeStep, LifeStep DEF IInv
<1>2. CASE (Start \/ Stop) /\ UNCHANGED panic
  <2>1. ~overlap' => Trusted'
    BY <1>2, TrustedDriver
  <2>2. overlap => overlap'
    BY <1>2 DEF Start, Stop, StartAlloc, StartProbe, StartCdevsw, StartNode,
       StopNode, StopCdevsw, StopMem, StopLock, StopGShim, IInv, LifeInv
  <2>3. QED
    BY <1>1, <1>2, <2>1, <2>2 DEF IInv, PanicOnlyIfBusyUnload
<1>3. ASSUME NEW t \in Tasks, Task(t), UNCHANGED panic PROVE IInv'
  <2>1. overlap' = overlap
    BY <1>3, TaskKeepsLife
  <2>2. ~overlap => Trusted'
    BY <1>3, TrustedTask
  <2>3. QED
    BY <1>1, <1>3, <2>1, <2>2 DEF IInv, PanicOnlyIfBusyUnload
<1>4. ASSUME NEW t \in Tasks, Fault(t) PROVE IInv'
  <2>1. overlap /\ overlap' = overlap
    BY <1>4, NoFault DEF Fault, IInv, TypeOK
  <2>2. QED
    BY <1>1, <2>1 DEF IInv, PanicOnlyIfBusyUnload
<1>5. CASE UNCHANGED vars
  <2>1. ~overlap' => Trusted'
    BY <1>5 DEF vars, lifeVars, tableVars, taskVars, IInv, Trusted, FlightInv,
       LockInv, SlotInv, OwnInv, Loaded, Busy
  <2>2. QED
    BY <1>1, <1>5, <2>1 DEF vars, IInv, PanicOnlyIfBusyUnload
<1>6. QED
  BY <1>2, <1>3, <1>4, <1>5 DEF Next, Step

LEMMA Invariant == Spec => []IInv
  BY InvInit, InvStep, PTL DEF Spec

-----------------------------------------------------------------------------
(* The theorems.                                                            *)

LEMMA OwnImpliesTable == IInv => TableMatchesMemory
<1> SUFFICES ASSUME IInv, ~overlap PROVE TableMatchesMemory
  BY DEF TableMatchesMemory
<1>1. Trusted /\ TypeOK
  BY DEF IInv
<1>2. CASE ~Loaded
  BY <1>1, <1>2 DEF Trusted, OwnInv, TableMatchesMemory
<1>3. CASE Loaded
  <2>1. \A h \in Handles : h \in Claimed <=> \E t \in Tasks : pc[t] = "alloc" /\ arg[t] = h
    BY DEF Claimed
  <2>2. Claimed \subseteq Handles /\ Backed \cap Claimed = {}
    BY <1>1 DEF Claimed, Backed, Trusted, SlotInv, Holding
  <2>3. {h \in Handles : fBOs[h].in_use} = Backed \cup Claimed
    BY <1>1, <1>3, <2>1, <2>2 DEF Trusted, OwnInv, Backed
  <2>4. live = {fBOs[h].mem : h \in Backed}
    <3>1. \A m \in live : \E h \in Backed : fBOs[h].mem = m
      BY <1>1, <1>3, NullAssumption DEF Trusted, OwnInv, Backed, TypeOK
    <3>2. \A h \in Backed : fBOs[h].mem \in live
      BY <1>1, <1>3 DEF Trusted, OwnInv, Backed
    <3>3. QED
      BY <3>1, <3>2
  <2>5. \A h, k \in Backed : fBOs[h].mem = fBOs[k].mem => h = k
    BY <1>1, <1>3 DEF Trusted, OwnInv, Backed
  <2>6. QED
    BY <1>3, <2>2, <2>3, <2>4, <2>5 DEF TableMatchesMemory
<1>4. QED
  BY <1>2, <1>3

\* No sequence of creates, failed creates, closes, loads and unloads leaks a
\* buffer's memory, shares it, or leaves a handle without memory.
THEOREM TableCorrect == Spec => []TableMatchesMemory
  BY Invariant, OwnImpliesTable, PTL

\* Freed memory and the freed lock are never used unless the driver was taken
\* off the device switch under a running ioctl.
THEOREM NoUseAfterFree == Spec => []PanicOnlyIfBusyUnload
<1>1. IInv => PanicOnlyIfBusyUnload
  BY DEF IInv
<1>2. QED
  BY <1>1, Invariant, PTL

\* An ioctl can be dispatched only into a driver with its lock and table up.
THEOREM ReadyWhileRegistered == Spec => []RegisteredImpliesReady
<1>1. IInv => RegisteredImpliesReady
  BY DEF IInv, LifeInv, RegisteredImpliesReady, Loaded
<1>2. QED
  BY <1>1, Invariant, PTL

\* No path of an ioctl, also not one that fails, leaves it with the lock held: whoever has
\* the lock is at the allocation, the clearing of pages or the blit, and gives it back
\* with the next steps.  This is the safety half of IoctlReturns.
THEOREM LockHeldInSections ==
  Spec => [](~overlap => \A t \in Tasks : fLock = t => pc[t] \in Holding)
<1>1. IInv => (~overlap => \A t \in Tasks : fLock = t => pc[t] \in Holding)
  BY DEF IInv, Trusted, LockInv
<1>2. QED
  BY <1>1, Invariant, PTL

LEMMA OverlapStays == IInv /\ [Next]_vars /\ overlap => overlap'
<1> SUFFICES ASSUME IInv, [Next]_vars, overlap PROVE overlap'
  OBVIOUS
<1>1. CASE Start \/ Stop
  BY <1>1 DEF Start, Stop, StartAlloc, StartProbe, StartCdevsw, StartNode,
     StopNode, StopCdevsw, StopMem, StopLock, StopGShim, IInv, LifeInv
<1>2. ASSUME NEW t \in Tasks, Task(t) PROVE overlap'
  BY <1>2, TaskKeepsLife
<1>3. ASSUME NEW t \in Tasks, Fault(t) PROVE overlap'
  BY <1>3 DEF Fault
<1>4. QED
  BY <1>1, <1>2, <1>3 DEF Next, Step, vars

\* Nobody but the thread in the critical section changes the table.
LEMMA PinnedStep ==
  ASSUME IInv, [Next]_vars, NEW t \in Tasks,
         pc[t] \in Holding, pc'[t] = pc[t], ~overlap'
  PROVE  /\ fBOs'[arg[t]] = fBOs[arg[t]]
         /\ pc[t] \in Touching => fBOs'[arg[t]].mem \in live'
<1>1. ~overlap /\ Trusted /\ TypeOK
  BY OverlapStays DEF IInv
<1>2. fLock = t /\ life \in {"up", "stop_cdevsw"}
  BY <1>1 DEF Trusted, LockInv, FlightInv, Holding, Busy
<1>3. UNCHANGED <<fBOs, live>>
  <2>1. CASE Start \/ Stop
    BY <1>2, <2>1 DEF Start, Stop, StartAlloc, StartProbe, StartCdevsw, StartNode,
       StopNode, StopCdevsw, StopMem, StopLock, StopGShim, tableVars
  <2>2. ASSUME NEW u \in Tasks, Task(u) PROVE UNCHANGED <<fBOs, live>>
    <3>1. CASE \/ DevOpen(u) \/ DevClose(u) \/ IoctlEnter(u) \/ DispatchReject(u)
               \/ Dispatch(u) \/ Lockless(u) \/ CreateFill(u) \/ SetCrtcBlit(u)
      BY <3>1 DEF DevOpen, DevClose, IoctlEnter, DispatchReject, Dispatch,
         Lockless, CreateFill, SetCrtcBlit, tableVars
    <3>2. ~Acquire(u)
      BY <1>2, NullAssumption DEF Acquire, CreateFull, CreateClaim, MapDumb,
         SetCrtcUnknown, SetCrtcFind, GemClose, CanLock
    <3>3. CASE CreateAlloc(u) \/ CreateNoMem(u)
      <4>1. u = t
        BY <1>2, <3>3 DEF CreateAlloc, CreateNoMem, InSection
      <4>2. pc[t] = "alloc" /\ pc'[t] # "alloc"
        BY <1>1, <3>3, <4>1 DEF CreateAlloc, CreateNoMem, InSection, GoTo, Return, TypeOK
      <4>3. QED
        BY <4>2
    <3>4. QED
      BY <2>2, <3>1, <3>2, <3>3 DEF Task, Proceed
  <2>3. ASSUME NEW u \in Tasks, Fault(u) PROVE UNCHANGED <<fBOs, live>>
    BY <2>3 DEF Fault, tableVars
  <2>4. QED
    BY <2>1, <2>2, <2>3 DEF Next, Step, vars, tableVars
<1>4. pc[t] \in Touching => fBOs[arg[t]].mem \in live
  BY <1>1, <1>2 DEF Trusted, SlotInv, OwnInv, TypeOK, Loaded
<1>5. QED
  BY <1>3, <1>4

\* The slot and the memory that a thread clears or copies from stay its own for
\* as long as it holds fLock.
THEOREM Pinned == Spec => PinnedUnderLock
<1>1. IInv /\ [Next]_vars =>
        [\A t \in Tasks :
           pc[t] \in Holding /\ pc'[t] = pc[t] /\ ~overlap'
             => /\ fBOs'[arg[t]] = fBOs[arg[t]]
                /\ pc[t] \in Touching => fBOs'[arg[t]].mem \in live']_vars
  BY PinnedStep
<1>2. QED
  BY <1>1, Invariant, PTL DEF Spec, PinnedUnderLock

-----------------------------------------------------------------------------
(* Refinement: every step is a step of DumbBuffers or leaves it alone.      *)

LEMMA RefineInit == Init => Abs!BufInit
  BY DEF Init, Abs!BufInit, AbsMode, AbsBufs, AbsScanout, Abs!Closed,
     Abs!BufHandles, Handles

\* The abstract state does not see a step that leaves table and phase alone.
LEMMA RefineStutter ==
  ASSUME UNCHANGED <<overlap, fBOs, fCurrentFbId>>, AbsMode' = AbsMode
  PROVE  UNCHANGED Abs!dbvars
  BY DEF Abs!dbvars, AbsBufs, AbsScanout

\* A driver that is not up shows no buffers.
LEMMA RefineSameDown ==
  ASSUME AbsMode' = AbsMode, AbsMode # "up"
  PROVE  UNCHANGED Abs!dbvars
  BY DEF Abs!dbvars, AbsBufs, AbsScanout

\* Leaving the table behind is an unload.
LEMMA RefineDown ==
  ASSUME AbsMode = "up", AbsMode' = "down"
  PROVE  Abs!BufNext
<1>1. AbsBufs' = Abs!Closed /\ AbsScanout' = 0
  BY DEF AbsBufs, AbsScanout, Abs!Closed, Abs!BufHandles, Handles
<1>2. QED
  BY <1>1 DEF Abs!BufNext, Abs!BufUnload

LEMMA RefineDriver ==
  ASSUME IInv, Start \/ Stop
  PROVE  [Abs!BufNext]_(Abs!dbvars)
<1> USE DEF AbsMode
<1>1. CASE StartAlloc
  <2>1. AbsMode = "down" /\ AbsMode' = "down"
    BY <1>1 DEF StartAlloc
  <2>2. QED
    BY <2>1 DEF Abs!dbvars, AbsBufs, AbsScanout
<1>2. CASE StartProbe \/ StopNode
  <2>1. AbsMode' = AbsMode /\ UNCHANGED <<overlap, fBOs, fCurrentFbId>>
    BY <1>2 DEF StartProbe, StopNode, tableVars
  <2>2. QED
    BY <2>1, RefineStutter
<1>3. CASE StartCdevsw
  <2>1. ~overlap /\ ~overlap' /\ UNCHANGED tableVars
    BY <1>3 DEF StartCdevsw, IInv, LifeInv
  <2>2. \A h \in Handles : ~fBOs[h].in_use
    <3>1. Trusted /\ TypeOK
      BY <2>1 DEF IInv
    <3>2. \A t \in Tasks : pc[t] # "alloc"
      BY <1>3, <3>1 DEF StartCdevsw, Trusted, FlightInv, Busy
    <3>3. QED
      BY <1>3, <3>1, <3>2 DEF StartCdevsw, Trusted, OwnInv, Loaded
  <2>3. fCurrentFbId = 0
    BY <1>3, <2>1 DEF StartCdevsw, IInv, Trusted, FlightInv
  <2>4. CASE life' = "node"
    <3>1. AbsMode = "down" /\ AbsMode' = "up"
      BY <1>3, <2>1, <2>4 DEF StartCdevsw
    <3>2. AbsBufs' = Abs!Closed /\ AbsScanout' = 0
      BY <2>1, <2>2, <2>3, <3>1 DEF AbsBufs, AbsScanout, Abs!Closed,
         Abs!BufHandles, Handles, tableVars
    <3>3. QED
      BY <3>1, <3>2 DEF Abs!BufNext, Abs!BufLoad
  <2>5. CASE life' = "unloaded"
    <3>1. AbsMode = "down" /\ AbsMode' = "down"
      BY <1>3, <2>1, <2>5 DEF StartCdevsw
    <3>2. QED
      BY <2>1, <3>1 DEF Abs!dbvars, AbsBufs, AbsScanout
  <2>6. QED
    BY <1>3, <2>4, <2>5 DEF StartCdevsw
<1>4. CASE StartNode
  <2>1. ~overlap /\ ~overlap' /\ UNCHANGED tableVars
    BY <1>4 DEF StartNode, IInv, LifeInv
  <2>2. CASE life' = "up"
    <3>1. AbsMode = "up" /\ AbsMode' = "up"
      BY <1>4, <2>1, <2>2 DEF StartNode
    <3>2. QED
      BY <1>4, <2>1, <3>1, RefineStutter DEF StartNode, tableVars
  <2>3. CASE life' = "unloaded"
    <3>1. AbsMode = "up" /\ AbsMode' = "down"
      BY <1>4, <2>1, <2>3 DEF StartNode
    <3>2. QED
      BY <3>1, RefineDown
  <2>4. QED
    BY <1>4, <2>2, <2>3 DEF StartNode
<1>5. CASE StopCdevsw
  <2>1. AbsMode = "up"
    BY <1>5 DEF StopCdevsw, IInv, LifeInv
  <2>2. CASE ~overlap'
    <3>1. ~overlap /\ AbsMode' = "up"
      BY <1>5, <2>2 DEF StopCdevsw, IInv, LifeInv
    <3>2. QED
      BY <1>5, <2>1, <2>2, <3>1, RefineStutter DEF StopCdevsw, tableVars, IInv, TypeOK
  <2>3. CASE overlap'
    <3>1. AbsMode' = "broken"
      BY <2>3
    <3>2. AbsBufs' = Abs!Closed /\ AbsScanout' = 0
      BY <3>1 DEF AbsBufs, AbsScanout, Abs!Closed, Abs!BufHandles, Handles
    <3>3. QED
      BY <2>1, <3>1, <3>2 DEF Abs!BufNext, Abs!BufBreak
  <2>4. QED
    BY <2>2, <2>3
<1>6. CASE StopMem
  <2>1. CASE overlap
    <3>1. AbsMode = "broken" /\ AbsMode' = "broken"
      BY <1>6, <2>1 DEF StopMem
    <3>2. QED
      BY <3>1, RefineSameDown
  <2>2. CASE ~overlap
    <3>1. AbsMode = "up" /\ AbsMode' = "down"
      BY <1>6, <2>2 DEF StopMem
    <3>2. QED
      BY <3>1, RefineDown
  <2>3. QED
    BY <2>1, <2>2
<1>7. CASE StopLock \/ StopGShim
  <2>1. AbsMode' = AbsMode /\ AbsMode # "up"
    BY <1>7 DEF StopLock, StopGShim
  <2>2. QED
    BY <2>1, RefineSameDown
<1>8. QED
  BY <1>1, <1>2, <1>3, <1>4, <1>5, <1>6, <1>7 DEF Start, Stop

LEMMA RefineTask ==
  ASSUME IInv, NEW t \in Tasks, Task(t)
  PROVE  [Abs!BufNext]_(Abs!dbvars)
<1>1. AbsMode' = AbsMode /\ overlap' = overlap
  BY TaskKeepsLife DEF AbsMode, lifeVars
<1>2. CASE AbsMode # "up"
  BY <1>1, <1>2, RefineSameDown
<1>3. CASE AbsMode = "up"
  <2>1. ~overlap /\ Trusted /\ TypeOK /\ Loaded
    BY <1>3 DEF AbsMode, IInv, Loaded
  <2>2. CASE \/ DevOpen(t) \/ DevClose(t) \/ IoctlEnter(t) \/ DispatchReject(t)
             \/ Dispatch(t) \/ Lockless(t) \/ CreateFull(t) \/ CreateFill(t)
             \/ MapDumb(t) \/ SetCrtcUnknown(t) \/ SetCrtcFind(t)
    <3>1. UNCHANGED <<fBOs, fCurrentFbId>>
      BY <2>2 DEF DevOpen, DevClose, IoctlEnter, DispatchReject, Dispatch,
         Lockless, CreateFull, CreateFill, MapDumb, SetCrtcUnknown, SetCrtcFind,
         tableVars
    <3>2. QED
      BY <1>1, <3>1, RefineStutter
  <2>3. CASE CreateClaim(t)
    <3>1. allocHandle \in Handles /\ ~fBOs[allocHandle].in_use
      BY <2>1, <2>3, AllocHandleFacts DEF CreateClaim
    <3> DEFINE h == allocHandle
    <3>2. fBOs[h].mem = NoMem
      BY <2>1, <3>1 DEF Trusted, OwnInv
    <3>3. fBOs' = [fBOs EXCEPT ![h].in_use = TRUE] /\ fCurrentFbId' = fCurrentFbId
      BY <2>3 DEF CreateClaim
    <3> HIDE DEF h
    <3>4. \A k \in Handles : (IF fBOs'[k].in_use THEN fBOs'[k].mem ELSE NoMem)
                         = (IF fBOs[k].in_use THEN fBOs[k].mem ELSE NoMem)
      BY <2>1, <3>1, <3>2, <3>3 DEF TypeOK, DumbBO, h
    <3>5. AbsBufs' = AbsBufs /\ AbsScanout' = AbsScanout
      BY <1>1, <1>3, <3>3, <3>4 DEF AbsBufs, AbsScanout
    <3>6. QED
      BY <1>1, <3>5 DEF Abs!dbvars
  <2>4. CASE CreateAlloc(t)
    <3> DEFINE h == arg[t]
    <3>1. /\ h \in Handles /\ fBOs[h].in_use /\ fBOs[h].mem = NoMem
      BY <2>1, <2>4 DEF CreateAlloc, InSection, Trusted, SlotInv, Holding
    <3>2. PICK m \in Mems \ live : fBOs' = [fBOs EXCEPT ![h].mem = m]
      BY <2>4 DEF CreateAlloc
    <3>3. fCurrentFbId' = fCurrentFbId
      BY <2>4 DEF CreateAlloc
    <3> HIDE DEF h
    <3>4. AbsBufs' = [AbsBufs EXCEPT ![h] = m]
      BY <1>1, <1>3, <2>1, <3>1, <3>2 DEF AbsBufs, TypeOK, DumbBO
    <3>5. h \notin Abs!OpenBufs
      BY <3>1 DEF Abs!OpenBufs, AbsBufs
    <3>6. \A k \in Abs!OpenBufs : AbsBufs[k] # m
      BY <1>3, <2>1, <3>2 DEF Abs!OpenBufs, Abs!BufHandles, AbsBufs, Handles, Trusted, OwnInv
    <3>7. Abs!BufCreate(h, m)
      BY <1>1, <1>3, <3>3, <3>4, <3>5, <3>6 DEF Abs!BufCreate, AbsScanout
    <3>8. QED
      BY <3>1, <3>7 DEF Abs!BufNext, Abs!BufHandles, Handles
  <2>5. CASE CreateNoMem(t)
    <3> DEFINE h == arg[t]
    <3>1. h \in Handles /\ fBOs[h].mem = NoMem
      BY <2>1, <2>5 DEF CreateNoMem, InSection, Trusted, SlotInv, Holding
    <3>2. fBOs' = [fBOs EXCEPT ![h] = Unused] /\ fCurrentFbId' = fCurrentFbId
      BY <2>5 DEF CreateNoMem
    <3> HIDE DEF h
    <3>3. AbsBufs' = AbsBufs
      BY <1>1, <2>1, <3>1, <3>2 DEF AbsBufs, TypeOK, Unused
    <3>4. QED
      BY <1>1, <3>2, <3>3 DEF Abs!dbvars, AbsScanout
  <2>6. CASE SetCrtcBlit(t)
    <3> DEFINE h == arg[t]
    <3>1. h \in Handles /\ fBOs[h].in_use /\ fBOs[h].mem # NoMem
      BY <2>1, <2>6 DEF SetCrtcBlit, InSection, Trusted, SlotInv, Holding, Touching
    <3>2. fBOs' = fBOs /\ fCurrentFbId' = h
      BY <2>6 DEF SetCrtcBlit
    <3> HIDE DEF h
    <3>3. AbsBufs' = AbsBufs /\ AbsScanout' = h
      BY <1>1, <1>3, <3>2 DEF AbsBufs, AbsScanout
    <3>4. h \in Abs!OpenBufs
      BY <1>3, <3>1 DEF Abs!OpenBufs, Abs!BufHandles, AbsBufs, Handles
    <3>5. Abs!BufScan(h)
      BY <1>1, <1>3, <3>3, <3>4 DEF Abs!BufScan
    <3>6. QED
      BY <3>1, <3>5 DEF Abs!BufNext, Abs!BufHandles, Handles
  <2>7. CASE GemClose(t)
    <3>1. fCurrentFbId' = fCurrentFbId
      BY <2>7 DEF GemClose
    <3>2. CASE ~findBO(arg[t])
      <4>1. fBOs' = fBOs
        BY <2>7, <3>2 DEF GemClose
      <4>2. QED
        BY <1>1, <3>1, <4>1, RefineStutter
    <3>3. CASE findBO(arg[t])
      <4> DEFINE h == arg[t]
      <4>1. h \in Handles /\ fBOs[h].in_use /\ fBOs' = [fBOs EXCEPT ![h] = Unused]
        BY <2>7, <3>3 DEF GemClose, findBO
      <4>2. fBOs[h].mem # NoMem
        <5>1. \A u \in Tasks : pc[u] # "alloc"
          BY <2>1, <2>7, NullAssumption DEF GemClose, CanLock, Trusted, LockInv, Holding
        <5>2. QED
          BY <2>1, <4>1, <5>1 DEF Trusted, OwnInv
      <4> HIDE DEF h
      <4>3. AbsBufs' = [AbsBufs EXCEPT ![h] = NoMem]
        BY <1>1, <2>1, <4>1 DEF AbsBufs, TypeOK, Unused
      <4>4. h \in Abs!OpenBufs
        BY <1>3, <4>1, <4>2 DEF Abs!OpenBufs, Abs!BufHandles, AbsBufs, Handles
      <4>5. Abs!BufClose(h)
        BY <1>1, <1>3, <3>1, <4>3, <4>4 DEF Abs!BufClose, AbsScanout
      <4>6. QED
        BY <4>1, <4>5 DEF Abs!BufNext, Abs!BufHandles, Handles
    <3>4. QED
      BY <3>2, <3>3
  <2>8. QED
    BY <2>2, <2>3, <2>4, <2>5, <2>6, <2>7 DEF Task, Proceed, Acquire
<1>4. QED
  BY <1>2, <1>3

\* The lock, the table and the phases of start() and stop() together behave as
\* DumbBuffers says, however the ioctls of however many threads interleave.
THEOREM Refinement == Spec => ImplementsDumbBuffers
<1>1. IInv /\ [Next]_vars => [Abs!BufNext]_(Abs!dbvars)
  <2> SUFFICES ASSUME IInv, [Next]_vars PROVE [Abs!BufNext]_(Abs!dbvars)
    OBVIOUS
  <2>1. CASE Start \/ Stop
    BY <2>1, RefineDriver
  <2>2. ASSUME NEW t \in Tasks, Task(t) PROVE [Abs!BufNext]_(Abs!dbvars)
    BY <2>2, RefineTask
  <2>3. ASSUME NEW t \in Tasks, Fault(t) PROVE [Abs!BufNext]_(Abs!dbvars)
    <3>1. UNCHANGED <<life, overlap, fBOs, fCurrentFbId>>
      BY <2>3 DEF Fault, lifeVars, tableVars
    <3>2. QED
      BY <3>1, RefineStutter DEF AbsMode
  <2>4. CASE UNCHANGED vars
    <3>1. UNCHANGED <<life, overlap, fBOs, fCurrentFbId>>
      BY <2>4 DEF vars, lifeVars, tableVars
    <3>2. QED
      BY <3>1, RefineStutter DEF AbsMode
  <2>5. QED
    BY <2>1, <2>2, <2>3, <2>4 DEF Next, Step
<1>2. QED
  BY <1>1, RefineInit, Invariant, PTL DEF Spec, ImplementsDumbBuffers, Abs!BufSpec

-----------------------------------------------------------------------------
(* The arithmetic of dumb buffers.                                          *)

LEMMA ModFacts ==
  ASSUME NEW x \in Nat, NEW m \in Nat, m > 0
  PROVE  /\ x % m \in Nat /\ x % m < m /\ x % m <= x
         /\ x < m => x % m = x
OBVIOUS

\* Row y of a buffer of h rows ends within it.
LEMMA NextRow ==
  ASSUME NEW y \in Nat, NEW h \in Nat, NEW p \in Nat, y < h
  PROVE  y * p \in Nat /\ y * p + p <= h * p
<1>1. PICK d \in Nat : h = y + 1 + d
  <2>1. h - y - 1 \in Nat /\ h = y + 1 + (h - y - 1)
    OBVIOUS
  <2>2. QED
    BY <2>1
<1>2. (y + 1 + d) * p = y * p + p + d * p
  OBVIOUS
<1>3. d * p >= 0 /\ d * p \in Nat /\ y * p \in Nat
  OBVIOUS
<1>4. QED
  BY <1>1, <1>2, <1>3

\* The number of bytes of a row is so much smaller than a word that rounding it up to
\* a multiple of 64 never wraps.
LEMMA RoundUpFacts ==
  ASSUME NEW x \in Nat, x < Word
  PROVE  LET r == RoundUp(x \div 8) IN
         r \in Nat /\ r % 64 = 0 /\ 8 * r + 7 >= x
<1>1. Word \in Nat /\ Word >= 512
  BY WordAssumption
<1> DEFINE q == x \div 8
<1>2. q \in Nat /\ 8 * q <= x /\ x <= 8 * q + 7
  OBVIOUS
<1>3. q + 63 < Word
  BY <1>1, <1>2
<1>4. (q + 63) % Word = q + 63
  BY <1>1, <1>2, <1>3, ModFacts
<1>5. RoundUp(q) = (q + 63) - ((q + 63) % 64)
  BY <1>4 DEF RoundUp
<1> HIDE DEF q
<1>6. (q + 63) - ((q + 63) % 64) >= q /\ (q + 63) - ((q + 63) % 64) \in Nat
      /\ ((q + 63) - ((q + 63) % 64)) % 64 = 0
  BY <1>2
<1>7. 8 * RoundUp(q) + 7 >= x
  BY <1>2, <1>5, <1>6
<1>8. QED
  BY <1>5, <1>6, <1>7 DEF q

LEMMA RequestTypes ==
  ASSUME NEW w \in Widths, NEW bpp \in Bpps
  PROVE  /\ w * BitsOf(bpp) \in Nat
         /\ Pitch(w, bpp) \in Nat /\ Pitch(w, bpp) % 64 = 0
<1>1. Word \in Nat /\ Word >= 512 /\ w \in Nat /\ bpp \in Nat
  BY WordAssumption, RequestAssumption DEF uint32_t
<1>2. BitsOf(bpp) \in Nat
  BY <1>1 DEF BitsOf
<1>3. w * BitsOf(bpp) \in Nat
  BY <1>1, <1>2
<1> DEFINE x == (((w * BitsOf(bpp)) % Word) + 7) % Word
<1>4. (w * BitsOf(bpp)) % Word \in Nat
  BY <1>1, <1>3, ModFacts
<1>5. x \in Nat /\ x < Word
  BY <1>1, <1>4, ModFacts
<1>6. Pitch(w, bpp) = RoundUp(x \div 8)
  BY DEF Pitch
<1> HIDE DEF x
<1>7. Pitch(w, bpp) \in Nat /\ Pitch(w, bpp) % 64 = 0
  BY <1>5, <1>6, RoundUpFacts
<1>8. QED
  BY <1>3, <1>7

\* A row of a buffer holds its pixels for every request whose bits fit a word.
THEOREM RowsFitHolds == RowsFit
<1> SUFFICES ASSUME NEW w \in Widths, NEW bpp \in Bpps, w * BitsOf(bpp) + 7 < Word
             PROVE  8 * Pitch(w, bpp) >= w * BitsOf(bpp) /\ Pitch(w, bpp) % 64 = 0
  BY DEF RowsFit
<1> DEFINE n == w * BitsOf(bpp)
<1>1. n \in Nat /\ n + 7 < Word /\ Word \in Nat /\ Word >= 512
  BY RequestTypes, WordAssumption
<1>2. Pitch(w, bpp) = RoundUp((((n % Word) + 7) % Word) \div 8)
  BY DEF Pitch
<1> HIDE DEF n
<1>3. ((n % Word) + 7) % Word = n + 7
  <2>1. n < Word /\ n + 7 \in Nat
    BY <1>1
  <2>2. n % Word = n
    BY <1>1, <2>1, ModFacts
  <2>3. (n + 7) % Word = n + 7
    BY <1>1, <2>1, ModFacts
  <2>4. QED
    BY <2>2, <2>3
<1>4. 8 * Pitch(w, bpp) + 7 >= n + 7
  BY <1>1, <1>2, <1>3, RoundUpFacts
<1>5. Pitch(w, bpp) \in Nat /\ Pitch(w, bpp) % 64 = 0
  BY RequestTypes
<1>6. QED
  BY <1>1, <1>4, <1>5 DEF n

LEMMA MinimumFacts ==
  ASSUME NEW a \in Nat, NEW b \in Nat
  PROVE  Minimum(a, b) \in Nat /\ Minimum(a, b) <= a /\ Minimum(a, b) <= b
BY DEF Minimum

\* The blit stays within buffer and display whatever wraps in the request.
THEOREM BlitInBoundsHolds == BlitInBounds
<1> SUFFICES ASSUME NEW w \in Widths, NEW h \in Heights, NEW bpp \in Bpps,
                    NEW str \in Strides, NEW rows \in Rows,
                    NEW y \in 0..(CopyRows(h, rows) - 1)
             PROVE  /\ SourceOffset(y, Pitch(w, bpp)) + CopyBytes(Pitch(w, bpp), str)
                           <= Size(w, h, bpp)
                    /\ DisplayOffset(y, str) + CopyBytes(Pitch(w, bpp), str) <= rows * str
  BY DEF BlitInBounds
<1> DEFINE p == Pitch(w, bpp)
           bytes == CopyBytes(p, str)
<1>1. /\ Word \in Nat /\ Word > 0 /\ h \in Nat /\ str \in Nat /\ rows \in Nat
      /\ p \in Nat
  BY WordAssumption, RequestAssumption, DisplayAssumption, RequestTypes DEF uint32_t
<1> HIDE DEF p
<1>2. bytes \in Nat /\ bytes <= p /\ bytes <= str
  BY <1>1, MinimumFacts DEF CopyBytes
<1> HIDE DEF bytes
<1>3. y \in Nat /\ y < h /\ y < rows
  BY <1>1, MinimumFacts DEF CopyRows
<1>4. y * p \in Nat /\ y * p + p <= h * p
  BY <1>1, <1>3, NextRow
<1>5. y * str \in Nat /\ y * str + str <= rows * str
  BY <1>1, <1>3, NextRow
<1>6. (y * p) % Word \in Nat /\ (y * p) % Word <= y * p
  BY <1>1, <1>4, ModFacts
<1>7. Size(w, h, bpp) = h * p
  <2>1. p * h = h * p
    BY <1>1
  <2>2. QED
    BY <2>1 DEF Size, p
<1>8. h * p \in Int /\ rows * str \in Int
  BY <1>1
<1>9. ((y * p) % Word) + bytes <= h * p
  BY <1>1, <1>2, <1>4, <1>6, <1>8
<1>10. y * str + bytes <= rows * str
  BY <1>1, <1>2, <1>5, <1>8
<1>11. QED
  BY <1>7, <1>9, <1>10 DEF SourceOffset, DisplayOffset, p, bytes

\* The offset of a row wraps only in a buffer of more than 4 GiB, which is never
\* allocated.
THEOREM BlitReadsRowsHolds == BlitReadsRows
<1> SUFFICES ASSUME NEW w \in Widths, NEW h \in Heights, NEW bpp \in Bpps, NEW rows \in Rows,
                    Size(w, h, bpp) <= Word,
                    NEW y \in 0..(CopyRows(h, rows) - 1)
             PROVE  SourceOffset(y, Pitch(w, bpp)) = y * Pitch(w, bpp)
  BY DEF BlitReadsRows
<1> DEFINE p == Pitch(w, bpp)
<1>1. /\ Word \in Nat /\ Word > 0 /\ h \in Nat /\ rows \in Nat /\ p \in Nat
      /\ p * h <= Word
  BY WordAssumption, RequestAssumption, DisplayAssumption, RequestTypes DEF uint32_t, Size
<1> HIDE DEF p
<1>2. y \in Nat /\ y < h
  BY <1>1, MinimumFacts DEF CopyRows
<1>3. y * p \in Nat /\ y * p + p <= h * p
  BY <1>1, <1>2, NextRow
<1>4. p * h = h * p
  BY <1>1
<1>5. y * p < Word
  <2>1. CASE p = 0
    <3>1. y * p = 0
      BY <1>2, <2>1
    <3>2. QED
      BY <1>1, <3>1
  <2>2. CASE p > 0
    <3>1. h * p \in Int
      BY <1>1
    <3>2. QED
      BY <1>1, <1>3, <1>4, <2>2, <3>1
  <2>3. QED
    BY <1>1, <2>1, <2>2
<1>6. QED
  BY <1>1, <1>3, <1>5, ModFacts DEF SourceOffset, p
=============================================================================
