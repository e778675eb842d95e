----------------------------- MODULE IODRMShim -----------------------------
(***************************************************************************)
(* The kernel extension behind /dev/dri/card0: a table of dumb buffers     *)
(* guarded by one lock, the ioctls that BSD dispatches into it from many   *)
(* threads, and start() and stop(), which the I/O Kit runs on a thread of  *)
(* their own without taking that lock.                                     *)
(*                                                                         *)
(* An ioctl is split where another thread can come between: the unlocked   *)
(* test of gShim, the acquisition of fLock, the memory allocation and the  *)
(* blit, both of which may block while fLock is held.  What the code does  *)
(* from one of these points to the next is one action.                     *)
(***************************************************************************)
EXTENDS Naturals

CONSTANTS
  Tasks,    \* threads that issue ioctls
  NumBOs,   \* MAX_DUMB_BOs
  Mems,     \* memory descriptors the kernel can hand out
  NoMem,    \* a null IOBufferMemoryDescriptor pointer
  Free,     \* the state of an allocated lock that no thread holds
  NoLock    \* a null, or freed, IOLock pointer

ASSUME NumBOsAssumption == NumBOs \in Nat \ {0}
ASSUME NullAssumption   == /\ NoMem \notin Mems
                           /\ Free \notin Tasks
                           /\ NoLock \notin Tasks
                           /\ Free # NoLock

VARIABLES
  \* the driver object
  life,         \* where start() and stop() are
  gShim,        \* is the static instance pointer set?
  cdevsw,       \* fMajor >= 0: BSD dispatches ioctls to this driver
  node,         \* fDevfsToken # NULL: /dev/dri/card0 can be opened
  fLock,        \* NoLock, Free or the thread that holds it
  fBOs,         \* the buffer table
  fCurrentFbId, \* the frame buffer of the last SETCRTC
  fMobileFramebuffer, \* is there a display to blit to?
  live,         \* descriptors allocated and not yet released
  \* the threads
  fds,          \* threads that hold /dev/dri/card0 open
  pc,           \* where each thread is
  cmd,          \* the ioctl it makes
  arg,          \* the handle it asks about, or the slot it works on
  \* history
  overlap,      \* did cdevsw_remove() find an ioctl in flight?
  panic         \* has freed memory or a freed lock been used?

lifeVars  == <<life, gShim, cdevsw, node>>
tableVars == <<fBOs, fCurrentFbId, live>>
taskVars  == <<fds, pc, cmd, arg>>
vars == <<lifeVars, tableVars, taskVars, fLock, fMobileFramebuffer, overlap, panic>>

Handles == 1..NumBOs
DumbBO  == [in_use : BOOLEAN, mem : Mems \cup {NoMem}]
Unused  == [in_use |-> FALSE, mem |-> NoMem]

\* The ioctls drm_ioctl has a case for, by the way they use the lock.
LockedCmds   == {"CREATE_DUMB", "MAP_DUMB", "SETCRTC", "GEM_CLOSE"}
LocklessCmds == {"ADDFB", "GETCRTC", "GETRESOURCES"}
Dispatched   == LockedCmds \cup LocklessCmds
\* The ioctls libdrm-darwin and darwin-gbm issue.
IssuedCmds   == Dispatched \cup {"RMFB", "PRIME_HANDLE_TO_FD"}
NoCmd        == "none"

\* Arguments include 0 and a handle beyond the table.
Args == 0..(NumBOs + 1)
TakesHandle(c) == c \in {"MAP_DUMB", "SETCRTC", "GEM_CLOSE"}

LifeStates == {"unloaded", "probing", "adding", "node", "up",
               "stop_cdevsw", "stop_mem", "stop_lock", "stop_gshim"}
PCs == {"idle", "entered", "locking", "lockless", "alloc", "fill", "blit"}

\* Positions inside a critical section, and those that work on a backed slot.
Holding  == {"alloc", "fill", "blit"}
Touching == {"fill", "blit"}
Busy(t)  == pc[t] # "idle"

Init ==
  /\ life = "unloaded"
  /\ gShim = FALSE /\ cdevsw = FALSE /\ node = FALSE
  /\ fLock = NoLock
  /\ fBOs = [h \in Handles |-> Unused]
  /\ fCurrentFbId = 0
  /\ fMobileFramebuffer = FALSE
  /\ live = {}
  /\ fds = {}
  /\ pc  = [t \in Tasks |-> "idle"]
  /\ cmd = [t \in Tasks |-> NoCmd]
  /\ arg = [t \in Tasks |-> 0]
  /\ overlap = FALSE
  /\ panic = FALSE

-----------------------------------------------------------------------------
(* Table helpers.                                                           *)

\* findBO: the handle names a slot of the table that is in use.
findBO(h) == h \in Handles /\ fBOs[h].in_use

\* allocHandle: the lowest slot that is not in use, 0 when there is none.
allocHandle ==
  LET unused == {h \in Handles : ~fBOs[h].in_use}
  IN  IF unused = {} THEN 0
      ELSE CHOOSE h \in unused : \A k \in unused : h <= k

\* The ioctl of t returns to user space.
Return(t) == /\ pc'  = [pc  EXCEPT ![t] = "idle"]
             /\ cmd' = [cmd EXCEPT ![t] = NoCmd]
             /\ arg' = [arg EXCEPT ![t] = 0]
             /\ UNCHANGED fds

GoTo(t, where, h) == /\ pc'  = [pc  EXCEPT ![t] = where]
                     /\ arg' = [arg EXCEPT ![t] = h]
                     /\ UNCHANGED <<fds, cmd>>

\* Mutant of CanLock: the handler forgets IOLockLock.
CanLockForgotten(t, c) == pc[t] = "locking" /\ cmd[t] = c /\ fLock # NoLock

\* t waits for the lock to run ioctl c, and the lock is there to be taken.
CanLock(t, c) == pc[t] = "locking" /\ cmd[t] = c /\ fLock = Free

\* t is inside the critical section at position where, and holds the lock.
InSection(t, where) == pc[t] = where /\ fLock = t

-----------------------------------------------------------------------------
(* start() and stop().                                                      *)

\* A fresh object: lock allocated, table cleared, gShim published.
StartAlloc ==
  /\ life = "unloaded" /\ ~overlap
  /\ life' = "probing"
  /\ fLock' = Free
  /\ fBOs' = [h \in Handles |-> Unused]
  /\ fCurrentFbId' = 0
  /\ gShim' = TRUE
  /\ UNCHANGED <<cdevsw, node, live, fMobileFramebuffer, overlap>>
  /\ UNCHANGED taskVars

\* The provider, or the matching service, is a framebuffer or it is not.
StartProbe ==
  /\ life = "probing"
  /\ life' = "adding"
  /\ fMobileFramebuffer' \in BOOLEAN
  /\ UNCHANGED <<gShim, cdevsw, node, fLock, overlap>>
  /\ UNCHANGED tableVars /\ UNCHANGED taskVars

\* cdevsw_add; when it fails start() returns with gShim and fLock left set.
StartCdevsw ==
  /\ life = "adding"
  /\ \/ cdevsw' = TRUE  /\ life' = "node"
     \/ cdevsw' = FALSE /\ life' = "unloaded"
  /\ UNCHANGED <<gShim, node, fLock, fMobileFramebuffer, overlap>>
  /\ UNCHANGED tableVars /\ UNCHANGED taskVars

\* devfs_make_node; a failure takes the device switch entry back.
StartNode ==
  /\ life = "node"
  /\ \/ node' = TRUE  /\ cdevsw' = TRUE  /\ life' = "up"
     \/ node' = FALSE /\ cdevsw' = FALSE /\ life' = "unloaded"
  /\ UNCHANGED <<gShim, fLock, fMobileFramebuffer, overlap>>
  /\ UNCHANGED tableVars /\ UNCHANGED taskVars

\* Mutant of StopNode: the memory is released before cdevsw_remove.
StopNodeThenMem ==
  /\ life = "up"
  /\ life' = "stop_mem"
  /\ node' = FALSE
  /\ UNCHANGED <<gShim, cdevsw, fLock, fMobileFramebuffer, overlap>>
  /\ UNCHANGED tableVars /\ UNCHANGED taskVars

StopNode ==
  /\ life = "up"
  /\ life' = "stop_cdevsw"
  /\ node' = FALSE
  /\ UNCHANGED <<gShim, cdevsw, fLock, fMobileFramebuffer, overlap>>
  /\ UNCHANGED tableVars /\ UNCHANGED taskVars

\* No ioctl enters any more, but those in flight are not waited for.
StopCdevsw ==
  /\ life = "stop_cdevsw"
  /\ life' = "stop_mem"
  /\ cdevsw' = FALSE
  /\ fds' = {}
  /\ overlap' = \E t \in Tasks : Busy(t)
  /\ UNCHANGED <<gShim, node, fLock, fMobileFramebuffer, pc, cmd, arg>>
  /\ UNCHANGED tableVars

\* Every buffer's memory is released, without the lock; the table stays.
StopMem ==
  /\ life = "stop_mem"
  /\ life' = "stop_lock"
  /\ live' = live \ {fBOs[h].mem : h \in {k \in Handles : fBOs[k].in_use}}
  /\ UNCHANGED <<gShim, cdevsw, node, fLock, fBOs, fCurrentFbId>>
  /\ UNCHANGED <<fMobileFramebuffer, overlap>> /\ UNCHANGED taskVars

StopLock ==
  /\ life = "stop_lock"
  /\ life' = "stop_gshim"
  /\ fLock' = NoLock
  /\ UNCHANGED <<gShim, cdevsw, node, fMobileFramebuffer, overlap>>
  /\ UNCHANGED tableVars /\ UNCHANGED taskVars

StopGShim ==
  /\ life = "stop_gshim"
  /\ life' = "unloaded"
  /\ gShim' = FALSE
  /\ UNCHANGED <<cdevsw, node, fLock, fMobileFramebuffer, overlap>>
  /\ UNCHANGED tableVars /\ UNCHANGED taskVars

Start == StartAlloc \/ StartProbe \/ StartCdevsw \/ StartNode
Stop  == StopNode \/ StopCdevsw \/ StopMem \/ StopLock \/ StopGShim

driverSame == /\ UNCHANGED lifeVars
              /\ UNCHANGED <<fMobileFramebuffer, overlap>>

-----------------------------------------------------------------------------
(* The device and the ioctls.  drm_open and drm_close keep no state.        *)

DevOpen(t) ==
  /\ node /\ ~Busy(t) /\ t \notin fds
  /\ fds' = fds \cup {t}
  /\ UNCHANGED <<pc, cmd, arg, fLock>>
  /\ UNCHANGED tableVars /\ driverSame

DevClose(t) ==
  /\ ~Busy(t) /\ t \in fds
  /\ fds' = fds \ {t}
  /\ UNCHANGED <<pc, cmd, arg, fLock>>
  /\ UNCHANGED tableVars /\ driverSame

\* BSD finds drm_ioctl in the device switch.
IoctlEnter(t) ==
  /\ cdevsw /\ t \in fds /\ ~Busy(t)
  /\ \E c \in IssuedCmds, h \in Args :
       /\ ~TakesHandle(c) => h = 0
       /\ pc'  = [pc  EXCEPT ![t] = "entered"]
       /\ cmd' = [cmd EXCEPT ![t] = c]
       /\ arg' = [arg EXCEPT ![t] = h]
  /\ UNCHANGED <<fds, fLock>>
  /\ UNCHANGED tableVars /\ driverSame

\* Without an instance: ENXIO.  No case for the command: ENOTTY.
\* SETCRTC with fb_id 0 returns before it takes the lock.
DispatchReject(t) ==
  /\ pc[t] = "entered"
  /\ \/ ~gShim
     \/ cmd[t] \notin Dispatched
     \/ cmd[t] = "SETCRTC" /\ arg[t] = 0
  /\ Return(t)
  /\ UNCHANGED fLock
  /\ UNCHANGED tableVars /\ driverSame

\* The handlers that take the lock go and wait for it.
Dispatch(t) ==
  /\ pc[t] = "entered" /\ gShim
  /\ cmd[t] \in Dispatched
  /\ ~(cmd[t] = "SETCRTC" /\ arg[t] = 0)
  /\ GoTo(t, IF cmd[t] \in LockedCmds THEN "locking" ELSE "lockless", arg[t])
  /\ UNCHANGED fLock
  /\ UNCHANGED tableVars /\ driverSame

\* ADDFB echoes the handle, GETCRTC reads fCurrentFbId, the getters report
\* the fixed display: no lock, no change.
Lockless(t) ==
  /\ pc[t] = "lockless"
  /\ Return(t)
  /\ UNCHANGED fLock
  /\ UNCHANGED tableVars /\ driverSame

\* CREATE_DUMB, table full: ENOMEM.
CreateFull(t) ==
  /\ CanLock(t, "CREATE_DUMB") /\ allocHandle = 0
  /\ Return(t)
  /\ UNCHANGED fLock
  /\ UNCHANGED tableVars /\ driverSame

\* CREATE_DUMB claims the lowest slot; fLock stays held over the allocation.
CreateClaim(t) ==
  /\ CanLock(t, "CREATE_DUMB") /\ allocHandle # 0
  /\ fLock' = t
  /\ fBOs' = [fBOs EXCEPT ![allocHandle].in_use = TRUE]
  /\ GoTo(t, "alloc", allocHandle)
  /\ UNCHANGED <<fCurrentFbId, live>> /\ driverSame

\* inTaskWithPhysicalMask returns a descriptor nobody else has.
CreateAlloc(t) ==
  /\ InSection(t, "alloc")
  /\ \E m \in Mems \ live :
       /\ fBOs' = [fBOs EXCEPT ![arg[t]].mem = m]
       /\ live' = live \cup {m}
  /\ GoTo(t, "fill", arg[t])
  /\ UNCHANGED <<fLock, fCurrentFbId>> /\ driverSame

\* Mutants of CreateNoMem: the claim is not taken back; the lock is not released.
CreateNoMemKeepsClaim(t) ==
  /\ InSection(t, "alloc")
  /\ fLock' = Free
  /\ Return(t)
  /\ UNCHANGED tableVars /\ driverSame

CreateNoMemKeepsLock(t) ==
  /\ InSection(t, "alloc")
  /\ fBOs' = [fBOs EXCEPT ![arg[t]] = Unused]
  /\ Return(t)
  /\ UNCHANGED <<fLock, fCurrentFbId, live>> /\ driverSame

\* It returns NULL: the claim is taken back, ENOMEM.
CreateNoMem(t) ==
  /\ InSection(t, "alloc")
  /\ fBOs' = [fBOs EXCEPT ![arg[t]] = Unused]
  /\ fLock' = Free
  /\ Return(t)
  /\ UNCHANGED <<fCurrentFbId, live>> /\ driverSame

\* The pages are wired and cleared, the handle is returned.
CreateFill(t) ==
  /\ InSection(t, "fill") /\ fBOs[arg[t]].mem \in live
  /\ fLock' = Free
  /\ Return(t)
  /\ UNCHANGED tableVars /\ driverSame

\* MAP_DUMB looks the handle up and makes an offset of it, or EINVAL.
MapDumb(t) ==
  /\ CanLock(t, "MAP_DUMB")
  /\ Return(t)
  /\ UNCHANGED fLock
  /\ UNCHANGED tableVars /\ driverSame

\* Mutant of SetCrtcUnknown: fCurrentFbId is set before findBO has answered.
SetCrtcUnknownSets(t) ==
  /\ CanLock(t, "SETCRTC") /\ ~findBO(arg[t])
  /\ fCurrentFbId' = IF arg[t] \in Handles THEN arg[t] ELSE 0
  /\ Return(t)
  /\ UNCHANGED <<fLock, fBOs, live>> /\ driverSame

\* SETCRTC of an unknown buffer: EINVAL.
SetCrtcUnknown(t) ==
  /\ CanLock(t, "SETCRTC") /\ ~findBO(arg[t])
  /\ Return(t)
  /\ UNCHANGED fLock
  /\ UNCHANGED tableVars /\ driverSame

\* SETCRTC holds fLock while it copies the pixels to the display surface.
SetCrtcFind(t) ==
  /\ CanLock(t, "SETCRTC") /\ findBO(arg[t])
  /\ fLock' = t
  /\ GoTo(t, "blit", arg[t])
  /\ UNCHANGED tableVars /\ driverSame

\* fCurrentFbId is set whether the blit worked (0) or not (EIO); without a
\* framebuffer the blit does nothing and the buffer's memory is not read.
SetCrtcBlit(t) ==
  /\ InSection(t, "blit")
  /\ fMobileFramebuffer => fBOs[arg[t]].mem \in live
  /\ fCurrentFbId' = arg[t]
  /\ fLock' = Free
  /\ Return(t)
  /\ UNCHANGED <<fBOs, live>> /\ driverSame

\* Mutant of GemClose: the memory is released, in_use stays set.
GemCloseKeepsSlot(t) ==
  /\ CanLock(t, "GEM_CLOSE")
  /\ IF findBO(arg[t])
       THEN /\ fBOs[arg[t]].mem \in live \cup {NoMem}
            /\ live' = live \ {fBOs[arg[t]].mem}
       ELSE UNCHANGED live
  /\ Return(t)
  /\ UNCHANGED <<fLock, fBOs, fCurrentFbId>> /\ driverSame

\* DESTROY_DUMB and GEM_CLOSE: release the memory and free the slot.  An
\* unknown handle is not an error.  fCurrentFbId is left alone.
GemClose(t) ==
  /\ CanLock(t, "GEM_CLOSE")
  /\ IF findBO(arg[t])
       THEN /\ fBOs[arg[t]].mem \in live \cup {NoMem}
            /\ live' = live \ {fBOs[arg[t]].mem}
            /\ fBOs' = [fBOs EXCEPT ![arg[t]] = Unused]
       ELSE UNCHANGED <<live, fBOs>>
  /\ Return(t)
  /\ UNCHANGED <<fLock, fCurrentFbId>> /\ driverSame

\* The uses of a freed lock or of released memory.  The kernel panics, or
\* worse; nothing is said of what follows.
UsesFreed(t) ==
  \/ pc[t] = "locking" /\ fLock = NoLock
  \/ pc[t] \in Holding /\ fLock # t
  \/ pc[t] = "fill" /\ fBOs[arg[t]].mem \notin live
  \/ pc[t] = "blit" /\ fMobileFramebuffer /\ fBOs[arg[t]].mem \notin live
  \/ /\ CanLock(t, "GEM_CLOSE") /\ findBO(arg[t])
     /\ fBOs[arg[t]].mem \notin live \cup {NoMem}

Fault(t) ==
  /\ UsesFreed(t)
  /\ panic' = TRUE
  /\ UNCHANGED <<lifeVars, tableVars, taskVars, fLock>>
  /\ UNCHANGED <<fMobileFramebuffer, overlap>>

-----------------------------------------------------------------------------

\* The steps of t that need nobody else: not waiting for the lock.
Proceed(t) == \/ DispatchReject(t) \/ Dispatch(t) \/ Lockless(t)
              \/ CreateAlloc(t) \/ CreateNoMem(t) \/ CreateFill(t)
              \/ SetCrtcBlit(t)

\* The steps that acquire the lock.
Acquire(t) == \/ CreateFull(t) \/ CreateClaim(t) \/ MapDumb(t)
              \/ SetCrtcUnknown(t) \/ SetCrtcFind(t) \/ GemClose(t)

Task(t) == DevOpen(t) \/ DevClose(t) \/ IoctlEnter(t) \/ Proceed(t) \/ Acquire(t)

Step == \/ Start
        \/ Stop
        \/ \E t \in Tasks : Task(t)

Next == /\ ~panic
        /\ \/ Step /\ UNCHANGED panic
           \/ \E t \in Tasks : Fault(t)

Spec == Init /\ [][Next]_vars

(***************************************************************************)
(* A thread inside an ioctl runs on, and a thread that waits for fLock     *)
(* gets it if it is free again and again (the XNU mutex wakes its waiters, *)
(* it does not queue them in order).  A stop() that began goes on.  Nobody *)
(* has to open the device, make an ioctl, or start or stop the driver.     *)
(***************************************************************************)
Fairness ==
  /\ \A t \in Tasks : /\ WF_vars(~panic /\ Proceed(t) /\ UNCHANGED panic)
                      /\ SF_vars(~panic /\ Acquire(t) /\ UNCHANGED panic)
  /\ WF_vars(~panic /\ life # "up" /\ Stop /\ UNCHANGED panic)

FairSpec == Spec /\ Fairness
-----------------------------------------------------------------------------
(* Properties.                                                              *)

TypeOK ==
  /\ life \in LifeStates
  /\ gShim \in BOOLEAN /\ cdevsw \in BOOLEAN /\ node \in BOOLEAN
  /\ fLock \in Tasks \cup {Free, NoLock}
  /\ fBOs \in [Handles -> DumbBO]
  /\ fCurrentFbId \in 0..NumBOs
  /\ fMobileFramebuffer \in BOOLEAN
  /\ live \subseteq Mems
  /\ fds \subseteq Tasks
  /\ pc \in [Tasks -> PCs]
  /\ cmd \in [Tasks -> IssuedCmds \cup {NoCmd}]
  /\ arg \in [Tasks -> Args]
  /\ \A t \in Tasks : pc[t] \in Holding => arg[t] \in Handles
  /\ overlap \in BOOLEAN
  /\ panic \in BOOLEAN

\* The driver has a table whose buffers own their memory.
Loaded == life \in {"probing", "adding", "node", "up", "stop_cdevsw", "stop_mem"}

\* Slots that hold memory, and the slots a CREATE_DUMB has claimed so far.
Backed  == {h \in Handles : fBOs[h].mem # NoMem}
Claimed == {arg[t] : t \in {u \in Tasks : pc[u] = "alloc"}}

\* The table and the memory agree: outside the window of a running CREATE_DUMB
\* exactly the slots in use have memory, no two slots share it, and nothing is
\* allocated that no slot owns.  A failed allocation, a close that races with a
\* create and an unload all have to keep this.
TableMatchesMemory ==
  ~overlap =>
    IF Loaded
      THEN /\ {h \in Handles : fBOs[h].in_use} = Backed \cup Claimed
           /\ Backed \cap Claimed = {}
           /\ live = {fBOs[h].mem : h \in Backed}
           /\ \A h, k \in Backed : fBOs[h].mem = fBOs[k].mem => h = k
      ELSE live = {}

\* stop() does not wait for ioctls in flight.  That is the only way to a use of
\* freed memory or of a freed lock: when the device switch entry is removed
\* with no ioctl in flight, nothing freed is ever used, whatever the threads do
\* before, and in whatever order they close, create and scan out buffers.
PanicOnlyIfBusyUnload == panic => overlap

\* While BSD can dispatch into the driver, it is ready to be dispatched into:
\* start() registers the device after it made the lock and published gShim,
\* stop() takes the device away before it frees anything.
RegisteredImpliesReady == cdevsw => gShim /\ fLock # NoLock /\ Loaded

\* While a thread works on a slot under fLock (clears new pages, copies pixels
\* to the display), no other thread closes the slot, reuses it or gives its
\* memory away.
PinnedUnderLock ==
  [][\A t \in Tasks :
       pc[t] \in Holding /\ pc'[t] = pc[t] /\ ~overlap'
         => /\ fBOs'[arg[t]] = fBOs[arg[t]]
            /\ pc[t] \in Touching => fBOs'[arg[t]].mem \in live']_vars

\* Every ioctl returns: no path leaves the handler with fLock held, and nobody
\* starves at the lock.
IoctlReturns == \A t \in Tasks : Busy(t) ~> (~Busy(t) \/ overlap)

(***************************************************************************)
(* The table, its lock and the life of the driver implement DumbBuffers:   *)
(* a buffer opens when its memory is assigned and closes when it is freed. *)
(***************************************************************************)
AbsMode == IF overlap THEN "broken"
           ELSE IF life \in {"node", "up", "stop_cdevsw", "stop_mem"} THEN "up"
           ELSE "down"
AbsBufs == [h \in Handles |->
              IF AbsMode = "up" /\ fBOs[h].in_use THEN fBOs[h].mem ELSE NoMem]
AbsScanout == IF AbsMode = "up" THEN fCurrentFbId ELSE 0

Abs == INSTANCE DumbBuffers
         WITH mode <- AbsMode, bufs <- AbsBufs, scanout <- AbsScanout

\* Each ioctl takes effect in one step: a create names a handle nobody holds and
\* memory no open buffer has, a close frees one handle, SETCRTC shows an open
\* buffer, and a failing ioctl changes no buffer.
ImplementsDumbBuffers == Abs!BufSpec
=============================================================================
