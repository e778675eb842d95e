----------------------------- MODULE DarwinGBM -----------------------------
(***************************************************************************)
(* darwin-gbm: the user space library that the compositor's renderer and   *)
(* the applications allocate their buffers with.  Each client is a thread  *)
(* of some process; all of them reach the same /dev/dri/card0, whose       *)
(* handles are shared by everybody (the kernel keeps nothing per           *)
(* descriptor).                                                            *)
(*                                                                         *)
(* A library call is split at its ioctls.  One ioctl is one step, a step   *)
(* of DumbBuffers, which IODRMShim is shown to implement.  The device      *)
(* stays loaded.                                                           *)
(***************************************************************************)
EXTENDS DumbBuffers, Integers

CONSTANTS
  Clients,  \* threads that call the library
  Bos,      \* gbm_bo structures
  Surfs,    \* gbm_surface structures
  NoBo,     \* a null gbm_bo pointer
  NoSurf    \* a null gbm_surface pointer

ASSUME GbmNullAssumption == NumBOs \in Nat /\ NoBo \notin Bos /\ NoSurf \notin Surfs /\ NoMem \notin Mems

VARIABLES
  bo,       \* the gbm_bo structures
  surf,     \* the gbm_surface structures
  call,     \* the library call each client is in
  \* history
  holder,   \* the structure each handle was last created for
  exposed,  \* structures created on a handle another structure still named
  held      \* the buffers lock_front_buffer gave out and nobody released

libvars == <<bo, surf, call, holder, exposed, held>>
gbmvars == <<dbvars, libvars>>

\* gem_handle 0 and map_offset 0 are what calloc leaves.  "closed": DESTROY_DUMB
\* was made, GEM_CLOSE was not.  surf is the surface it was allocated for.
BoStates == {"free", "new", "ready", "destroying", "closed"}
gbm_bo   == [state : BoStates, owner : Clients, gem_handle : 0..NumBOs,
             map_offset : 0..NumBOs, map : BOOLEAN, surf : Surfs \cup {NoSurf}]

SurfStates  == {"free", "making", "ready", "destroying"}
gbm_surface == [state : SurfStates, owner : Clients, nbo : 0..2,
                bos : [0..1 -> Bos \cup {NoBo}], front : {-1, 0, 1}, locked : BOOLEAN]

Ops    == {"none", "bo_create", "bo_destroy", "bo_map", "surface_create", "surface_destroy"}
Places == {"idle", "alloc", "map_dumb", "mmap", "destroy_dumb", "gem_close"}
Calls  == [op : Ops, at : Places, bo : Bos \cup {NoBo}, surf : Surfs \cup {NoSurf}]
NoCall == [op |-> "none", at |-> "idle", bo |-> NoBo, surf |-> NoSurf]

Idle(c)   == call[c].at = "idle"
FreeBos   == {b \in Bos : bo[b].state = "free"}
FreeBo(c)   == [state |-> "free", owner |-> c, gem_handle |-> 0,
                map_offset |-> 0, map |-> FALSE, surf |-> NoSurf]
FreeSurf(c) == [state |-> "free", owner |-> c, nbo |-> 0,
                bos |-> [i \in 0..1 |-> NoBo], front |-> -1, locked |-> FALSE]

GbmInit ==
  /\ mode = "up" /\ bufs = Closed /\ scanout = 0
  /\ \E c \in Clients : /\ bo = [b \in Bos |-> FreeBo(c)]
                        /\ surf = [s \in Surfs |-> FreeSurf(c)]
  /\ call = [c \in Clients |-> NoCall]
  /\ holder = [h \in BufHandles |-> NoBo]
  /\ exposed = {}
  /\ held = {}

\* The client enters a library call, goes on in it, or returns.
Goto(c, at, b)   == call' = [call EXCEPT ![c].at = at, ![c].bo = b]
Enter(c, op, at, b, s) ==
  call' = [call EXCEPT ![c] = [op |-> op, at |-> at, bo |-> b, surf |-> s]]
Done(c) == call' = [call EXCEPT ![c] = NoCall]

\* DESTROY_DUMB and GEM_CLOSE: an unknown handle is not an error.
CloseHandle(h) == IF h \in OpenBufs THEN BufClose(h) ELSE UNCHANGED dbvars

-----------------------------------------------------------------------------
(* Allocation: alloc_bo, for a buffer on its own or for a surface.          *)

gbm_bo_create(c) ==
  /\ Idle(c)
  /\ Enter(c, "bo_create", "alloc", NoBo, NoSurf)
  /\ UNCHANGED <<dbvars, bo, surf, holder, exposed, held>>

gbm_surface_create(c, s) ==
  /\ Idle(c) /\ surf[s].state = "free"
  /\ surf' = [surf EXCEPT ![s] = [FreeSurf(c) EXCEPT !.state = "making"]]
  /\ Enter(c, "surface_create", "alloc", NoBo, s)
  /\ UNCHANGED <<dbvars, bo, holder, exposed, held>>

\* Mutant of AllocCreate: gem_handle is not copied from the reply.
AllocCreateNoHandle(c) ==
  /\ call[c].at = "alloc"
  /\ \E b \in FreeBos, h \in BufHandles, m \in Mems :
       /\ BufCreate(h, m)
       /\ bo' = [bo EXCEPT ![b] = [FreeBo(c) EXCEPT !.state = "new", !.surf = call[c].surf]]
       /\ holder' = [holder EXCEPT ![h] = b]
       /\ Goto(c, "map_dumb", b)
  /\ UNCHANGED <<surf, exposed, held>>

\* CREATE_DUMB gives handle h.
AllocCreate(c) ==
  /\ call[c].at = "alloc"
  /\ \E b \in FreeBos, h \in BufHandles, m \in Mems :
       /\ BufCreate(h, m)
       /\ bo' = [bo EXCEPT ![b] = [FreeBo(c) EXCEPT !.state = "new",
                                     !.gem_handle = h, !.surf = call[c].surf]]
       /\ holder' = [holder EXCEPT ![h] = b]
       /\ exposed' = exposed \cup
            {x \in {b} : \E d \in Bos : bo[d].state # "free" /\ bo[d].gem_handle = h}
       /\ Goto(c, "map_dumb", b)
  /\ UNCHANGED <<surf, held>>

\* Mutant of AllocFails: the surface forgets the buffer it already has.
AllocFailsForgets(c) ==
  /\ call[c].at = "alloc"
  /\ LET s == call[c].surf IN
       surf' = IF s = NoSurf THEN surf ELSE [surf EXCEPT ![s] = FreeSurf(c)]
  /\ Done(c)
  /\ UNCHANGED <<dbvars, bo, holder, exposed, held>>

\* calloc or CREATE_DUMB fails.  A surface destroys the buffer it already has.
AllocFails(c) ==
  /\ call[c].at = "alloc"
  /\ LET s == call[c].surf IN
       \/ s = NoSurf /\ Done(c) /\ UNCHANGED <<bo, surf>>
       \/ /\ s # NoSurf /\ surf[s].nbo = 0
          /\ surf' = [surf EXCEPT ![s] = FreeSurf(c)]
          /\ Done(c) /\ UNCHANGED bo
       \/ /\ s # NoSurf /\ surf[s].nbo = 1
          /\ bo' = [bo EXCEPT ![surf[s].bos[0]].state = "destroying"]
          /\ Goto(c, "destroy_dumb", surf[s].bos[0]) /\ UNCHANGED surf
  /\ UNCHANGED <<dbvars, holder, exposed, held>>

\* Mutant of AllocMap: the test of the ioctl's result is inverted.
AllocMapInverted(c) ==
  /\ call[c].at = "map_dumb" /\ call[c].surf = NoSurf
  /\ LET b == call[c].bo
         h == bo[b].gem_handle
     IN  bo' = [bo EXCEPT ![b].state = "ready",
                          ![b].map_offset = IF h \in OpenBufs THEN 0 ELSE h]
  /\ Done(c)
  /\ UNCHANGED <<dbvars, surf, holder, exposed, held>>

\* MAP_DUMB answers with the offset of an open handle; a failure is ignored and
\* leaves map_offset 0.
AllocMap(c) ==
  /\ call[c].at = "map_dumb"
  /\ LET b == call[c].bo
         s == call[c].surf
         h == bo[b].gem_handle
     IN  /\ bo' = [bo EXCEPT ![b].state = "ready",
                             ![b].map_offset = IF h \in OpenBufs THEN h ELSE 0]
         /\ \/ s = NoSurf /\ Done(c) /\ UNCHANGED surf
            \/ /\ s # NoSurf
               /\ surf' = [surf EXCEPT
                             ![s].bos[surf[s].nbo] = b,
                             ![s].nbo = surf[s].nbo + 1,
                             ![s].state = IF surf[s].nbo = 1 THEN "ready" ELSE "making"]
               /\ IF surf[s].nbo = 1 THEN Done(c) ELSE Goto(c, "alloc", NoBo)
  /\ UNCHANGED <<dbvars, holder, exposed, held>>

-----------------------------------------------------------------------------
(* Destruction: munmap, DESTROY_DUMB, GEM_CLOSE, free.                      *)

gbm_bo_destroy(c, b) ==
  /\ Idle(c) /\ bo[b].state = "ready" /\ bo[b].owner = c /\ bo[b].surf = NoSurf
  /\ bo' = [bo EXCEPT ![b].state = "destroying", ![b].map = FALSE]
  /\ Enter(c, "bo_destroy", "destroy_dumb", b, NoSurf)
  /\ UNCHANGED <<dbvars, surf, holder, exposed, held>>

gbm_surface_destroy(c, s) ==
  /\ Idle(c) /\ surf[s].state = "ready" /\ surf[s].owner = c
  /\ LET b == surf[s].bos[0] IN
       /\ bo' = [bo EXCEPT ![b].state = "destroying", ![b].map = FALSE]
       /\ Enter(c, "surface_destroy", "destroy_dumb", b, s)
       /\ held' = held \ {surf[s].bos[i] : i \in 0..1}
  /\ surf' = [surf EXCEPT ![s].state = "destroying"]
  /\ UNCHANGED <<dbvars, holder, exposed>>

DestroyDumb(c) ==
  /\ call[c].at = "destroy_dumb"
  /\ CloseHandle(bo[call[c].bo].gem_handle)
  /\ bo' = [bo EXCEPT ![call[c].bo].state = "closed"]
  /\ Goto(c, "gem_close", call[c].bo)
  /\ UNCHANGED <<surf, holder, exposed, held>>

\* Mutant of GemCloseFree: the structure is not freed.
GemCloseKeeps(c) ==
  /\ call[c].at = "gem_close" /\ call[c].surf = NoSurf
  /\ CloseHandle(bo[call[c].bo].gem_handle)
  /\ Done(c)
  /\ UNCHANGED <<bo, surf, holder, exposed, held>>

\* GEM_CLOSE of the same handle, and free().  A surface goes on with its second
\* buffer, or is freed itself.
GemCloseFree(c) ==
  /\ call[c].at = "gem_close"
  /\ LET b    == call[c].bo
         s    == call[c].surf
         next == surf[s].bos[1]
         more == call[c].op = "surface_destroy" /\ b = surf[s].bos[0]
     IN  /\ CloseHandle(bo[b].gem_handle)
         /\ exposed' = exposed \ {b}
         /\ \/ /\ s # NoSurf /\ more
               /\ bo' = [bo EXCEPT ![b] = FreeBo(c), ![next].state = "destroying",
                                   ![next].map = FALSE]
               /\ Goto(c, "destroy_dumb", next)
               /\ UNCHANGED surf
            \/ /\ s # NoSurf /\ ~more
               /\ bo' = [bo EXCEPT ![b] = FreeBo(c)]
               /\ surf' = [surf EXCEPT ![s] = FreeSurf(c)]
               /\ Done(c)
            \/ /\ s = NoSurf
               /\ bo' = [bo EXCEPT ![b] = FreeBo(c)]
               /\ Done(c)
               /\ UNCHANGED surf
  /\ UNCHANGED <<holder, held>>

-----------------------------------------------------------------------------
(* Use.                                                                     *)

\* gbm_bo_map maps the buffer once and keeps the mapping.
gbm_bo_map(c, b) ==
  /\ Idle(c) /\ bo[b].state = "ready" /\ bo[b].owner = c /\ ~bo[b].map
  /\ Enter(c, "bo_map", "mmap", b, NoSurf)
  /\ UNCHANGED <<dbvars, bo, surf, holder, exposed, held>>

\* The kernel's answer to an mmap of /dev/dri/card0 is ENOTSUP.
drm_mmap == FALSE

MmapReturns(c) ==
  /\ call[c].at = "mmap"
  /\ bo' = [bo EXCEPT ![call[c].bo].map = drm_mmap]
  /\ Done(c)
  /\ UNCHANGED <<dbvars, surf, holder, exposed, held>>

\* SETCRTC of a buffer the client owns: EINVAL, and no change, if it is closed.
drmModeSetCrtc(c, b) ==
  /\ Idle(c) /\ bo[b].state = "ready" /\ bo[b].owner = c
  /\ BufScan(bo[b].gem_handle)
  /\ UNCHANGED libvars

gbm_surface_has_free_buffers(s) == ~surf[s].locked

\* Mutant of gbm_surface_lock_front_buffer: locked is not set.
LockForgets(c, s) ==
  /\ Idle(c) /\ surf[s].state = "ready" /\ surf[s].owner = c
  /\ gbm_surface_has_free_buffers(s)
  /\ LET back == IF surf[s].front = -1 THEN 0 ELSE 1 - surf[s].front IN
       /\ surf' = [surf EXCEPT ![s].front = back]
       /\ held' = held \cup {surf[s].bos[back]}
  /\ UNCHANGED <<dbvars, bo, call, holder, exposed>>

\* The other buffer becomes the front buffer.  The function does not look at
\* locked: that is for the caller to ask.
gbm_surface_lock_front_buffer(c, s) ==
  /\ Idle(c) /\ surf[s].state = "ready" /\ surf[s].owner = c
  /\ gbm_surface_has_free_buffers(s)
  /\ LET back == IF surf[s].front = -1 THEN 0 ELSE 1 - surf[s].front IN
       /\ surf' = [surf EXCEPT ![s].front = back, ![s].locked = TRUE]
       /\ held' = held \cup {surf[s].bos[back]}
  /\ UNCHANGED <<dbvars, bo, call, holder, exposed>>

gbm_surface_release_buffer(c, s, b) ==
  /\ Idle(c) /\ surf[s].state = "ready" /\ surf[s].owner = c
  /\ b \in held /\ bo[b].surf = s
  /\ surf' = [surf EXCEPT ![s].locked = FALSE]
  /\ held' = held \ {b}
  /\ UNCHANGED <<dbvars, bo, call, holder, exposed>>

-----------------------------------------------------------------------------
\* A call that has begun goes on.
Continue(c) == \/ AllocCreate(c) \/ AllocFails(c) \/ AllocMap(c)
               \/ DestroyDumb(c) \/ GemCloseFree(c) \/ MmapReturns(c)

Begin(c) == \/ gbm_bo_create(c)
            \/ \E s \in Surfs : \/ gbm_surface_create(c, s) \/ gbm_surface_destroy(c, s)
                                \/ gbm_surface_lock_front_buffer(c, s)
            \/ \E b \in Bos : \/ gbm_bo_destroy(c, b) \/ gbm_bo_map(c, b)
                              \/ drmModeSetCrtc(c, b)
            \/ \E s \in Surfs, b \in Bos : gbm_surface_release_buffer(c, s, b)

GbmNext == \E c \in Clients : Begin(c) \/ Continue(c)
GbmSpec == GbmInit /\ [][GbmNext]_gbmvars
-----------------------------------------------------------------------------
(* Properties.                                                              *)

GbmTypeOK ==
  /\ mode = "up"
  /\ bufs \in [BufHandles -> Mems \cup {NoMem}]
  /\ scanout \in 0..NumBOs
  /\ bo \in [Bos -> gbm_bo]
  /\ surf \in [Surfs -> gbm_surface]
  /\ call \in [Clients -> Calls]
  /\ holder \in [BufHandles -> Bos \cup {NoBo}]
  /\ exposed \subseteq Bos
  /\ held \subseteq Bos
  /\ \A b \in Bos : bo[b].state # "free" => bo[b].gem_handle \in BufHandles

Alive == {"new", "ready", "destroying"}
Keeps(b) == LET h == bo[b].gem_handle IN h \in OpenBufs /\ holder[h] = b

\* gbm_bo_destroy closes its handle twice, with DESTROY_DUMB and with GEM_CLOSE,
\* and handles are reused at once.  Yet a buffer is lost to another client (its
\* memory released, its handle given to somebody else, its map_offset left 0) only
\* if it was created on a handle that an older structure still named.
KeptUnlessExposed ==
  \A b \in Bos \ exposed :
    /\ bo[b].state \in Alive => Keeps(b)
    /\ bo[b].state = "ready" => bo[b].map_offset = bo[b].gem_handle

\* The first such structure appears when a client creates a buffer while another
\* client stands between the two closes of one; never in any other way, so a
\* process whose calls are serialised is safe.
ExposureNeedsWindow ==
  [][exposed = {} /\ exposed' # {} =>
       \E c, d \in Clients : c # d /\ call[c].at = "alloc" /\ call[d].at = "gem_close"]_gbmvars

\* No buffer leaks: every open handle belongs to the structure it was created for,
\* that structure is still allocated, and one that was made for a surface (also one
\* whose creation failed half way) is in that surface or in the hands of a call.
NoLeak ==
  /\ \A h \in OpenBufs : /\ holder[h] # NoBo
                         /\ bo[holder[h]].state # "free"
                         /\ bo[holder[h]].gem_handle = h
  /\ \A b \in Bos : LET s == bo[b].surf IN
       bo[b].state # "free" /\ s # NoSurf =>
         /\ surf[s].state # "free"
         /\ \/ \E i \in 0..1 : surf[s].bos[i] = b
            \/ \E c \in Clients : call[c].bo = b

\* What lock_front_buffer hands out is a live buffer of that surface, and a caller
\* that asks has_free_buffers first never gets a buffer it has not released.
SurfaceBuffers ==
  \A s \in Surfs : surf[s].state = "ready" =>
    /\ surf[s].bos[0] # surf[s].bos[1]
    /\ \A i \in 0..1 : bo[surf[s].bos[i]].state = "ready" /\ bo[surf[s].bos[i]].surf = s
    /\ {b \in held : bo[b].surf = s} =
         IF surf[s].locked THEN {surf[s].bos[surf[s].front]} ELSE {}

=============================================================================
