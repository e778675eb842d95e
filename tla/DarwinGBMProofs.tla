-------------------------- MODULE DarwinGBMProofs --------------------------
(* What holds of the buffer library for any number of clients, handles and  *)
(* structures.                                                              *)
EXTENDS DarwinGBM, TLAPS

-----------------------------------------------------------------------------
(* The invariant.                                                           *)

\* The call of client c works on a buffer, or a surface, of its own in state st.
WorksOn(c, st) == /\ call[c].bo \in Bos
                  /\ bo[call[c].bo].owner = c /\ bo[call[c].bo].state = st
WorksFor(c, st) == /\ call[c].surf \in Surfs
                   /\ surf[call[c].surf].owner = c /\ surf[call[c].surf].state = st

\* What a client that is in a call may rely on.
CallOK(c) ==
  /\ call[c].at = "idle" => call[c] = NoCall
  /\ call[c].at = "alloc" => call[c].bo = NoBo /\ call[c].op \in {"bo_create", "surface_create"}
  /\ call[c].at = "map_dumb" => /\ WorksOn(c, "new") /\ bo[call[c].bo].surf = call[c].surf
                                /\ call[c].op \in {"bo_create", "surface_create"}
  /\ call[c].at = "mmap" => WorksOn(c, "ready") /\ call[c].op = "bo_map"
  /\ call[c].at = "destroy_dumb" => WorksOn(c, "destroying")
  /\ call[c].at = "gem_close" => WorksOn(c, "closed")
  /\ call[c].at \in {"destroy_dumb", "gem_close"} =>
       /\ bo[call[c].bo].surf = call[c].surf
       /\ call[c].op \in {"bo_destroy", "surface_destroy", "surface_create"}
       /\ call[c].surf # NoSurf =>
            call[c].bo \in {surf[call[c].surf].bos[0], surf[call[c].surf].bos[1]}
  /\ call[c].op \in {"none", "bo_create", "bo_destroy", "bo_map"} => call[c].surf = NoSurf
  /\ call[c].op = "surface_create" => WorksFor(c, "making")
  /\ call[c].op = "surface_destroy" => WorksFor(c, "destroying")

\* A buffer that is being made or destroyed is so by its owner's call.  One that was made
\* for a surface is in it, until it was destroyed with it.
BoOK(b) ==
  /\ bo[b].state \in {"new", "destroying", "closed"} => call[bo[b].owner].bo = b
  /\ bo[b].state # "free" /\ bo[b].surf # NoSurf =>
       /\ surf[bo[b].surf].state # "free" /\ surf[bo[b].surf].owner = bo[b].owner
       /\ \/ bo[b].state = "new"
          \/ b = surf[bo[b].surf].bos[1]
          \/ /\ b = surf[bo[b].surf].bos[0]
             /\ surf[bo[b].surf].state = "destroying" =>
                  call[bo[b].owner].bo # surf[bo[b].surf].bos[1]

\* A surface has the buffers it should have, and they are its own.
SurfOK(s) ==
  /\ surf[s].state \in {"making", "destroying"} => call[surf[s].owner].surf = s
  /\ surf[s].state = "making" => surf[s].nbo \in {0, 1} /\ surf[s].front = -1 /\ ~surf[s].locked
  /\ surf[s].state \in {"ready", "destroying"} => surf[s].nbo = 2
  /\ surf[s].state # "free" =>
       /\ IF surf[s].nbo = 0 THEN surf[s].bos[0] = NoBo ELSE surf[s].bos[0] \in Bos
       /\ IF surf[s].nbo = 2 THEN surf[s].bos[1] \in Bos ELSE surf[s].bos[1] = NoBo
       /\ surf[s].nbo = 2 => surf[s].bos[0] # surf[s].bos[1]
  /\ surf[s].state = "making" /\ surf[s].nbo = 1 =>
       bo[surf[s].bos[0]].surf = s /\ bo[surf[s].bos[0]].state \in {"ready", "destroying", "closed"}
  /\ surf[s].state = "ready" =>
       \A i \in 0..1 : bo[surf[s].bos[i]].surf = s /\ bo[surf[s].bos[i]].state = "ready"
  /\ surf[s].state = "destroying" =>
       bo[surf[s].bos[1]].surf = s /\ bo[surf[s].bos[1]].state \in {"ready", "destroying", "closed"}

\* The same of all clients, structures and surfaces.
CallInv == \A c \in Clients : CallOK(c)
BoInv   == \A b \in Bos : BoOK(b)
SurfInv == \A s \in Surfs : SurfOK(s)

\* The buffer that is out is the front buffer of a surface that is locked.
HeldInv ==
  /\ \A b \in held : /\ bo[b].state = "ready" /\ bo[b].surf \in Surfs
                     /\ surf[bo[b].surf].state = "ready" /\ surf[bo[b].surf].locked
                     /\ b = surf[bo[b].surf].bos[surf[bo[b].surf].front]
  /\ \A s \in Surfs : surf[s].state = "ready" /\ surf[s].locked =>
       surf[s].front \in 0..1 /\ surf[s].bos[surf[s].front] \in held

\* Nobody else names the handle of a buffer that was not exposed.
AloneOn(b) == \A d \in Bos \ {b} : bo[d].state # "free" => bo[d].gem_handle # bo[b].gem_handle
KeptInv == \A b \in Bos \ exposed :
             /\ bo[b].state \in Alive => Keeps(b) /\ AloneOn(b)
             /\ bo[b].state = "ready" => bo[b].map_offset = bo[b].gem_handle

\* An open handle has the structure it was created for.
HolderInv == \A h \in OpenBufs : /\ holder[h] \in Bos /\ bo[holder[h]].state # "free"
                                 /\ bo[holder[h]].gem_handle = h

\* The inductive invariant.
Inv == GbmTypeOK /\ CallInv /\ BoInv /\ SurfInv /\ HeldInv /\ KeptInv /\ HolderInv

-----------------------------------------------------------------------------
(* What one client's step leaves alone.                                     *)

\* Client c changes only what is its own, or was free and now is.
Local(c) ==
  /\ \A d \in Clients \ {c} : call'[d] = call[d]
  /\ \A b \in Bos : bo[b].state # "free" /\ bo[b].owner # c => bo'[b] = bo[b]
  /\ \A b \in Bos : bo'[b] = bo[b] \/ bo'[b].owner = c
  /\ \A s \in Surfs : surf[s].state # "free" /\ surf[s].owner # c => surf'[s] = surf[s]
  /\ \A s \in Surfs : surf'[s] = surf[s] \/ surf'[s].owner = c

\* Then only what is c's own is left to show.
LEMMA OthersKept ==
  ASSUME Inv, GbmTypeOK', NEW c \in Clients, Local(c), CallOK(c)',
         \A b \in Bos : bo'[b].owner = c => BoOK(b)',
         \A s \in Surfs : surf'[s].owner = c => SurfOK(s)'
  PROVE  CallInv' /\ BoInv' /\ SurfInv'
<1>1. ASSUME NEW d \in Clients, d # c PROVE CallOK(d)'
  <2>1. CallOK(d) /\ call'[d] = call[d]
    BY <1>1 DEF Inv, CallInv, Local
  <2>2. ASSUME NEW st, WorksOn(d, st), st # "free" PROVE bo'[call[d].bo] = bo[call[d].bo]
    BY <1>1, <2>2 DEF Local, WorksOn
  <2>3. ASSUME NEW st, WorksFor(d, st), st # "free" PROVE surf'[call[d].surf] = surf[call[d].surf]
    BY <1>1, <2>3 DEF Local, WorksFor
  <2>4. call[d].at \in {"map_dumb", "mmap", "destroy_dumb", "gem_close"} =>
          bo'[call[d].bo] = bo[call[d].bo]
    BY <2>1, <2>2 DEF CallOK
  <2>5. call[d].op \in {"surface_create", "surface_destroy"} =>
          surf'[call[d].surf] = surf[call[d].surf]
    BY <2>1, <2>3 DEF CallOK
  <2>6. QED
    BY <2>1, <2>4, <2>5, SMTT(20) DEF CallOK, WorksOn, WorksFor
<1>2. ASSUME NEW b \in Bos, bo'[b].owner # c PROVE BoOK(b)'
  <2>1. bo'[b] = bo[b] /\ BoOK(b) /\ bo[b].owner \in Clients
    BY <1>2 DEF Local, Inv, BoInv, GbmTypeOK, gbm_bo
  <2>2. call'[bo[b].owner] = call[bo[b].owner]
    BY <1>2, <2>1 DEF Local
  <2>3. bo[b].state # "free" /\ bo[b].surf # NoSurf => surf'[bo[b].surf] = surf[bo[b].surf]
    BY <1>2, <2>1 DEF Local, BoOK, Inv, GbmTypeOK, gbm_bo
  <2>4. QED
    BY <2>1, <2>2, <2>3 DEF BoOK
<1>3. ASSUME NEW s \in Surfs, surf'[s].owner # c PROVE SurfOK(s)'
  <2>1. surf'[s] = surf[s] /\ SurfOK(s) /\ surf[s].owner \in Clients
    BY <1>3 DEF Local, Inv, SurfInv, GbmTypeOK, gbm_surface
  <2>2. call'[surf[s].owner] = call[surf[s].owner]
    BY <1>3, <2>1 DEF Local
  <2>3. ASSUME NEW b \in Bos, bo[b].state # "free", bo[b].surf = s PROVE bo'[b] = bo[b]
    BY <1>3, <2>1, <2>3, GbmNullAssumption DEF Local, Inv, BoInv, BoOK
  <2>4. QED
    BY <2>1, <2>2, <2>3 DEF SurfOK
<1>4. QED
  BY <1>1, <1>2, <1>3 DEF CallInv, BoInv, SurfInv

\* A client outside all calls leaves nothing half done.
LEMMA IdleFacts ==
  ASSUME Inv, NEW c \in Clients, Idle(c)
  PROVE  /\ call[c] = NoCall
         /\ \A b \in Bos : bo[b].owner = c => bo[b].state \in {"free", "ready"}
         /\ \A s \in Surfs : surf[s].owner = c => surf[s].state \in {"free", "ready"}
<1>1. call[c] = NoCall
  BY DEF Inv, CallInv, CallOK, Idle
<1>2. ASSUME NEW b \in Bos, bo[b].owner = c PROVE bo[b].state \in {"free", "ready"}
  BY <1>1, <1>2, GbmNullAssumption DEF Inv, BoInv, BoOK, GbmTypeOK, gbm_bo, BoStates, NoCall
<1>3. ASSUME NEW s \in Surfs, surf[s].owner = c PROVE surf[s].state \in {"free", "ready"}
  BY <1>1, <1>3, GbmNullAssumption DEF Inv, SurfInv, SurfOK, GbmTypeOK, gbm_surface, SurfStates, NoCall
<1>4. QED
  BY <1>1, <1>2, <1>3

\* A step that creates and closes no handle.
LEMMA HandlesKept ==
  ASSUME Inv, UNCHANGED <<bufs, holder, exposed>>,
         \A b \in Bos : /\ bo'[b].gem_handle = bo[b].gem_handle
                        /\ bo'[b].state = "free" <=> bo[b].state = "free"
                        /\ bo'[b].state \in Alive => bo[b].state \in Alive
                        /\ bo'[b].state = "ready" =>
                             bo[b].state = "ready" /\ bo'[b].map_offset = bo[b].map_offset
  PROVE  KeptInv' /\ HolderInv'
<1>1. OpenBufs' = OpenBufs
  BY DEF OpenBufs
<1>2. KeptInv'
  BY <1>1 DEF Inv, KeptInv, Keeps, AloneOn
<1>3. HolderInv'
  BY <1>1 DEF Inv, HolderInv
<1>4. QED
  BY <1>2, <1>3

-----------------------------------------------------------------------------
(* A call begins.                                                           *)

\* A call goes on elsewhere.
LEMMA GotoFacts ==
  ASSUME call \in [Clients -> Calls], NEW c \in Clients, NEW at \in Places,
         NEW b \in Bos \cup {NoBo}, Goto(c, at, b)
  PROVE  /\ call' \in [Clients -> Calls] /\ \A d \in Clients \ {c} : call'[d] = call[d]
         /\ call'[c].at = at /\ call'[c].bo = b
         /\ call'[c].op = call[c].op /\ call'[c].surf = call[c].surf
  BY DEF Goto, Calls

\* A buffer goes to its destruction.
LEMMA DestroyingBo ==
  ASSUME bo \in [Bos -> gbm_bo], NEW b \in Bos,
         bo' = [bo EXCEPT ![b].state = "destroying", ![b].map = FALSE]
  PROVE  /\ bo' \in [Bos -> gbm_bo]
         /\ bo'[b].state = "destroying" /\ bo'[b].owner = bo[b].owner /\ bo'[b].surf = bo[b].surf
         /\ bo'[b].gem_handle = bo[b].gem_handle /\ bo'[b].map_offset = bo[b].map_offset
         /\ \A d \in Bos \ {b} : bo'[d] = bo[d]
  BY DEF gbm_bo, BoStates

\* A structure that is freed.
LEMMA FreeStructure ==
  ASSUME NEW c \in Clients
  PROVE  FreeBo(c) \in gbm_bo /\ FreeBo(c).state = "free" /\ FreeBo(c).owner = c
  BY GbmNullAssumption DEF FreeBo, gbm_bo, BoStates

\* A structure that was allocated.
NewBo(c, h, s) == [FreeBo(c) EXCEPT !.state = "new", !.gem_handle = h, !.surf = s]

\* It is c's, and names its handle.
LEMMA NewStructure ==
  ASSUME NEW c \in Clients, NEW h \in BufHandles, NEW s \in Surfs \cup {NoSurf}, NEW n,
         n = NewBo(c, h, s)
  PROVE  /\ n \in gbm_bo /\ n.state = "new" /\ n.owner = c /\ n.gem_handle = h /\ n.surf = s
<1>1. h \in 0..NumBOs
  BY GbmNullAssumption DEF BufHandles
<1>2. PICK f \in gbm_bo : f = [FreeBo(c) EXCEPT !.state = "new"]
  <2>1. PICK z \in gbm_bo : z = FreeBo(c)
    BY FreeStructure
  <2>2. [z EXCEPT !.state = "new"] \in gbm_bo
    BY DEF gbm_bo, BoStates
  <2>3. QED
    BY <2>1, <2>2
<1>3. PICK g \in gbm_bo : g = [f EXCEPT !.gem_handle = h]
  BY <1>1 DEF gbm_bo
<1>4. n = [g EXCEPT !.surf = s]
  BY <1>2, <1>3 DEF NewBo
<1>5. f.state = "new" /\ f.owner = c
  BY <1>2, FreeStructure DEF gbm_bo
<1>6. g.state = "new" /\ g.owner = c /\ g.gem_handle = h
  BY <1>3, <1>5 DEF gbm_bo
<1>7. n \in gbm_bo /\ n.state = g.state /\ n.owner = g.owner /\ n.gem_handle = g.gem_handle
      /\ n.surf = s
  BY <1>4 DEF gbm_bo
<1>8. QED
  BY <1>6, <1>7

\* A surface that is freed.
LEMMA FreeSurface ==
  ASSUME NEW c \in Clients
  PROVE  /\ FreeSurf(c) \in gbm_surface
         /\ FreeSurf(c).state = "free" /\ FreeSurf(c).owner = c /\ FreeSurf(c).nbo = 0
         /\ FreeSurf(c).bos[0] = NoBo /\ FreeSurf(c).bos[1] = NoBo
         /\ FreeSurf(c).front = -1 /\ FreeSurf(c).locked = FALSE
<1>1. [i \in 0..1 |-> NoBo] \in [0..1 -> Bos \cup {NoBo}]
  OBVIOUS
<1>2. /\ FreeSurf(c).state = "free" /\ FreeSurf(c).owner = c /\ FreeSurf(c).nbo = 0
      /\ FreeSurf(c).bos[0] = NoBo /\ FreeSurf(c).bos[1] = NoBo
      /\ FreeSurf(c).front = -1 /\ FreeSurf(c).locked = FALSE
  BY DEF FreeSurf
<1>3. FreeSurf(c) \in gbm_surface
  BY <1>1 DEF FreeSurf, gbm_surface, SurfStates
<1>4. QED
  BY <1>2, <1>3

\* A surface that is being made has nothing yet.
LEMMA NewSurface ==
  ASSUME NEW c \in Clients, NEW n, n = [FreeSurf(c) EXCEPT !.state = "making"]
  PROVE  /\ n \in gbm_surface
         /\ n.state = "making" /\ n.owner = c /\ n.nbo = 0 /\ n.bos[0] = NoBo /\ n.bos[1] = NoBo
         /\ n.front = -1 /\ ~n.locked
<1>1. n \in gbm_surface /\ n.state = "making"
  BY FreeSurface, ZenonT(30) DEF gbm_surface, SurfStates
<1>2. /\ n.owner = FreeSurf(c).owner /\ n.nbo = FreeSurf(c).nbo /\ n.bos = FreeSurf(c).bos
      /\ n.front = FreeSurf(c).front /\ n.locked = FreeSurf(c).locked
  BY FreeSurface DEF gbm_surface
<1>3. QED
  BY <1>1, <1>2, FreeSurface

\* gbm_bo_create has done nothing yet.
LEMMA BoCreateInv ==
  ASSUME Inv, NEW c \in Clients, gbm_bo_create(c)
  PROVE  Inv'
<1>1. /\ UNCHANGED <<mode, bufs, scanout, bo, surf, holder, exposed, held>>
      /\ call'[c] = [op |-> "bo_create", at |-> "alloc", bo |-> NoBo, surf |-> NoSurf]
      /\ \A d \in Clients \ {c} : call'[d] = call[d]
      /\ Idle(c)
  BY DEF gbm_bo_create, Enter, dbvars, Inv, GbmTypeOK
<1>2. GbmTypeOK'
  BY <1>1 DEF gbm_bo_create, Enter, Inv, GbmTypeOK, Calls, Ops, Places
<1>3. Local(c) /\ CallOK(c)'
  BY <1>1 DEF Local, CallOK
<1>4. ASSUME NEW b \in Bos, bo'[b].owner = c PROVE BoOK(b)'
  BY <1>1, <1>4, IdleFacts, GbmNullAssumption DEF Inv, BoInv, BoOK, GbmTypeOK, gbm_bo
<1>5. ASSUME NEW s \in Surfs, surf'[s].owner = c PROVE SurfOK(s)'
  BY <1>1, <1>5, IdleFacts, SMTT(20) DEF Inv, SurfInv, SurfOK
<1>6. HeldInv' /\ KeptInv' /\ HolderInv'
  BY <1>1, HandlesKept DEF Inv, HeldInv
<1>7. QED
  BY <1>2, <1>3, <1>4, <1>5, <1>6, OthersKept DEF Inv

\* gbm_surface_create has an empty surface.
LEMMA SurfaceCreateInv ==
  ASSUME Inv, NEW c \in Clients, NEW s \in Surfs, gbm_surface_create(c, s)
  PROVE  Inv'
<1>1. PICK n : n = [FreeSurf(c) EXCEPT !.state = "making"]
  OBVIOUS
<1>2. /\ n \in gbm_surface
      /\ n.state = "making" /\ n.owner = c /\ n.nbo = 0 /\ n.bos[0] = NoBo /\ n.bos[1] = NoBo
      /\ n.front = -1 /\ ~n.locked
  BY <1>1, NewSurface
<1>3. surf' = [surf EXCEPT ![s] = n]
  BY <1>1 DEF gbm_surface_create
<1>4. /\ UNCHANGED <<mode, bufs, scanout, bo, holder, exposed, held>>
      /\ call'[c] = [op |-> "surface_create", at |-> "alloc", bo |-> NoBo, surf |-> s]
      /\ \A d \in Clients \ {c} : call'[d] = call[d]
      /\ Idle(c) /\ surf[s].state = "free"
      /\ surf'[s] = n
      /\ \A t \in Surfs \ {s} : surf'[t] = surf[t]
  BY <1>3 DEF gbm_surface_create, Enter, dbvars, Inv, GbmTypeOK
<1>5. GbmTypeOK'
  <2>1. call' \in [Clients -> Calls]
    BY DEF gbm_surface_create, Enter, Inv, GbmTypeOK, Calls, Ops, Places
  <2>2. surf' \in [Surfs -> gbm_surface]
    BY <1>2, <1>3 DEF Inv, GbmTypeOK
  <2>3. QED
    BY <1>4, <2>1, <2>2 DEF Inv, GbmTypeOK
<1>6. Local(c) /\ CallOK(c)'
  BY <1>4, <1>2, GbmNullAssumption DEF Local, CallOK, WorksFor
<1>7. ASSUME NEW b \in Bos, bo'[b].owner = c PROVE BoOK(b)'
  <2>1. BoOK(b) /\ bo'[b] = bo[b] /\ bo[b].state \in {"free", "ready"}
    BY <1>4, <1>7, IdleFacts DEF Inv, BoInv
  <2>2. bo[b].state # "free" /\ bo[b].surf # NoSurf =>
          surf'[bo[b].surf] = surf[bo[b].surf] /\ surf[bo[b].surf].state = "ready"
    BY <1>4, <1>7, <2>1, IdleFacts DEF Inv, BoOK, GbmTypeOK, gbm_bo
  <2>3. QED
    BY <2>1, <2>2 DEF BoOK
<1>8. ASSUME NEW t \in Surfs, surf'[t].owner = c PROVE SurfOK(t)'
  <2>1. CASE t = s
    BY <1>4, <1>2, <2>1 DEF SurfOK
  <2>2. CASE t # s
    BY <1>4, <1>8, <2>2, IdleFacts, SMTT(20) DEF Inv, SurfInv, SurfOK
  <2>3. QED
    BY <2>1, <2>2
<1>9. HeldInv'
  BY <1>4, <1>2 DEF Inv, HeldInv
<1>10. KeptInv' /\ HolderInv'
  BY <1>4, HandlesKept
<1>11. QED
  BY <1>5, <1>6, <1>7, <1>8, <1>9, <1>10, OthersKept DEF Inv

\* gbm_bo_map looks for a mapping first.
LEMMA BoMapInv ==
  ASSUME Inv, NEW c \in Clients, NEW b \in Bos, gbm_bo_map(c, b)
  PROVE  Inv'
<1>1. /\ UNCHANGED <<mode, bufs, scanout, bo, surf, holder, exposed, held>>
      /\ call'[c] = [op |-> "bo_map", at |-> "mmap", bo |-> b, surf |-> NoSurf]
      /\ \A d \in Clients \ {c} : call'[d] = call[d]
      /\ Idle(c) /\ bo[b].state = "ready" /\ bo[b].owner = c
  BY DEF gbm_bo_map, Enter, dbvars, Inv, GbmTypeOK
<1>2. GbmTypeOK'
  BY <1>1 DEF gbm_bo_map, Enter, Inv, GbmTypeOK, Calls, Ops, Places
<1>3. Local(c) /\ CallOK(c)'
  BY <1>1, GbmNullAssumption DEF Local, CallOK, WorksOn
<1>4. ASSUME NEW d \in Bos, bo'[d].owner = c PROVE BoOK(d)'
  BY <1>1, <1>4, IdleFacts, GbmNullAssumption DEF Inv, BoInv, BoOK, GbmTypeOK, gbm_bo
<1>5. ASSUME NEW s \in Surfs, surf'[s].owner = c PROVE SurfOK(s)'
  BY <1>1, <1>5, IdleFacts, SMTT(20) DEF Inv, SurfInv, SurfOK
<1>6. HeldInv' /\ KeptInv' /\ HolderInv'
  BY <1>1, HandlesKept DEF Inv, HeldInv
<1>7. QED
  BY <1>2, <1>3, <1>4, <1>5, <1>6, OthersKept DEF Inv

\* The buffer is given to this call.
LEMMA BoDestroyInv ==
  ASSUME Inv, NEW c \in Clients, NEW b \in Bos, gbm_bo_destroy(c, b)
  PROVE  Inv'
<1>1. /\ UNCHANGED <<mode, bufs, scanout, surf, holder, exposed, held>>
      /\ call'[c] = [op |-> "bo_destroy", at |-> "destroy_dumb", bo |-> b, surf |-> NoSurf]
      /\ \A d \in Clients \ {c} : call'[d] = call[d]
      /\ Idle(c) /\ bo[b].state = "ready" /\ bo[b].owner = c /\ bo[b].surf = NoSurf
  BY DEF gbm_bo_destroy, Enter, dbvars, Inv, GbmTypeOK
<1>2. /\ bo' \in [Bos -> gbm_bo] /\ \A d \in Bos \ {b} : bo'[d] = bo[d]
      /\ bo'[b].state = "destroying" /\ bo'[b].owner = c /\ bo'[b].surf = NoSurf
      /\ bo'[b].gem_handle = bo[b].gem_handle /\ bo'[b].map_offset = bo[b].map_offset
  BY <1>1, DestroyingBo DEF Inv, GbmTypeOK, gbm_bo_destroy
<1>3. GbmTypeOK'
  <2>1. call' \in [Clients -> Calls]
    BY DEF gbm_bo_destroy, Enter, Inv, GbmTypeOK, Calls, Ops, Places
  <2>2. QED
    BY <1>1, <1>2, <2>1 DEF Inv, GbmTypeOK
<1>4. Local(c) /\ CallOK(c)'
  BY <1>1, <1>2, GbmNullAssumption DEF Local, CallOK, WorksOn
<1>5. ASSUME NEW d \in Bos, bo'[d].owner = c PROVE BoOK(d)'
  <2>1. CASE d = b
    BY <1>1, <1>2, <2>1 DEF BoOK
  <2>2. CASE d # b
    <3>1. BoOK(d) /\ bo'[d] = bo[d] /\ bo[d].state \in {"free", "ready"}
      BY <1>1, <1>2, <1>5, <2>2, IdleFacts DEF Inv, BoInv
    <3>2. bo[d].state # "free" /\ bo[d].surf # NoSurf => surf[bo[d].surf].state = "ready"
      BY <1>1, <1>2, <1>5, <2>2, <3>1, IdleFacts, SMTT(30) DEF Inv, BoOK, GbmTypeOK, gbm_bo
    <3>3. QED
      BY <1>1, <3>1, <3>2 DEF BoOK
  <2>3. QED
    BY <2>1, <2>2
<1>6. ASSUME NEW s \in Surfs, surf'[s].owner = c PROVE SurfOK(s)'
  BY <1>1, <1>2, <1>6, IdleFacts, GbmNullAssumption, SMTT(20) DEF Inv, SurfInv, SurfOK
<1>7. HeldInv'
  <2>1. b \notin held
    BY <1>1, GbmNullAssumption DEF Inv, HeldInv
  <2>2. held \subseteq Bos
    BY DEF Inv, GbmTypeOK
  <2>3. QED
    BY <1>1, <1>2, <2>1, <2>2 DEF Inv, HeldInv
<1>8. KeptInv' /\ HolderInv'
  BY <1>1, <1>2, HandlesKept DEF Alive
<1>9. QED
  BY <1>3, <1>4, <1>5, <1>6, <1>7, <1>8, OthersKept DEF Inv

\* The surface is given to this call, and its first buffer with it.
LEMMA SurfaceDestroyInv ==
  ASSUME Inv, NEW c \in Clients, NEW s \in Surfs, gbm_surface_destroy(c, s)
  PROVE  Inv'
<1>1. PICK b0, b1 \in Bos :
        /\ surf[s].bos[0] = b0 /\ surf[s].bos[1] = b1 /\ b0 # b1
        /\ bo[b0].state = "ready" /\ bo[b0].surf = s /\ bo[b0].owner = c
        /\ bo[b1].state = "ready" /\ bo[b1].surf = s /\ bo[b1].owner = c
  BY GbmNullAssumption, SMTT(20) DEF gbm_surface_destroy, Inv, SurfInv, SurfOK, BoInv, BoOK
<1>2. /\ UNCHANGED <<mode, bufs, scanout, holder, exposed>>
      /\ call'[c] = [op |-> "surface_destroy", at |-> "destroy_dumb", bo |-> b0, surf |-> s]
      /\ \A d \in Clients \ {c} : call'[d] = call[d]
      /\ Idle(c) /\ surf[s].state = "ready" /\ surf[s].owner = c
      /\ \A t \in Surfs \ {s} : surf'[t] = surf[t]
  BY <1>1 DEF gbm_surface_destroy, Enter, dbvars, Inv, GbmTypeOK
<1>3. held' = held \ {b0, b1}
  BY <1>1 DEF gbm_surface_destroy
<1>4. /\ bo' \in [Bos -> gbm_bo] /\ \A d \in Bos \ {b0} : bo'[d] = bo[d]
      /\ bo'[b0].state = "destroying" /\ bo'[b0].owner = c /\ bo'[b0].surf = s
      /\ bo'[b0].gem_handle = bo[b0].gem_handle /\ bo'[b0].map_offset = bo[b0].map_offset
  BY <1>1, DestroyingBo, ZenonT(30) DEF Inv, GbmTypeOK, gbm_surface_destroy
<1>5. /\ surf'[s].state = "destroying" /\ surf'[s].owner = c /\ surf'[s].nbo = 2
      /\ surf'[s].bos = surf[s].bos
  BY <1>2 DEF gbm_surface_destroy, Inv, GbmTypeOK, gbm_surface, SurfInv, SurfOK
<1>6. GbmTypeOK'
  <2>1. call' \in [Clients -> Calls]
    BY <1>1 DEF gbm_surface_destroy, Enter, Inv, GbmTypeOK, Calls, Ops, Places
  <2>2. surf' \in [Surfs -> gbm_surface]
    BY ZenonT(30) DEF gbm_surface_destroy, Inv, GbmTypeOK, gbm_surface, SurfStates
  <2>3. QED
    BY <1>1, <1>2, <1>3, <1>4, <2>1, <2>2 DEF Inv, GbmTypeOK
<1>7. Local(c) /\ CallOK(c)'
  BY <1>1, <1>2, <1>4, <1>5, GbmNullAssumption DEF Local, CallOK, WorksOn, WorksFor
<1>8. ASSUME NEW d \in Bos, bo'[d].owner = c PROVE BoOK(d)'
  <2>1. CASE d = b0
    BY <1>1, <1>2, <1>4, <1>5, <2>1 DEF BoOK
  <2>2. CASE d # b0
    <3>1. bo'[d] = bo[d] /\ BoOK(d) /\ bo[d].state \in {"free", "ready"}
      BY <1>2, <1>4, <1>8, <2>2, IdleFacts DEF Inv, BoInv
    <3>2. bo[d].surf # s => surf'[bo[d].surf] = surf[bo[d].surf] \/ bo[d].surf = NoSurf
      BY <1>2 DEF Inv, GbmTypeOK, gbm_bo
    <3>3. bo[d].state = "ready" /\ bo[d].surf \in Surfs => surf[bo[d].surf].state = "ready"
      BY <1>8, <3>1, IdleFacts, <1>2, GbmNullAssumption DEF BoOK
    <3>4. QED
      <4>1. CASE bo[d].state = "ready" /\ bo[d].surf = s
        <5>1. d = b1
          BY <1>1, <2>2, <3>1, <4>1, GbmNullAssumption DEF BoOK
        <5>2. QED
          BY <1>1, <1>5, <3>1, <4>1, <5>1 DEF BoOK
      <4>2. CASE bo[d].state = "free" \/ bo[d].surf = NoSurf
        BY <3>1, <4>2 DEF BoOK
      <4>3. CASE bo[d].state = "ready" /\ bo[d].surf \in Surfs /\ bo[d].surf # s
        BY <3>1, <3>2, <3>3, <4>3, GbmNullAssumption DEF BoOK
      <4>4. QED
        BY <3>1, <4>1, <4>2, <4>3 DEF Inv, GbmTypeOK, gbm_bo
  <2>3. QED
    BY <2>1, <2>2
<1>9. ASSUME NEW t \in Surfs, surf'[t].owner = c PROVE SurfOK(t)'
  <2>1. CASE t = s
    BY <1>1, <1>2, <1>4, <1>5, <2>1, SMTT(30) DEF SurfOK
  <2>2. CASE t # s
    BY <1>1, <1>2, <1>4, <1>9, <2>2, IdleFacts, SMTT(20) DEF Inv, SurfInv, SurfOK
  <2>3. QED
    BY <2>1, <2>2
<1>10. HeldInv'
  <2>1. ASSUME NEW d \in held, d \notin {b0, b1} PROVE bo[d].surf # s
    BY <1>1, <2>1 DEF Inv, HeldInv, GbmTypeOK, gbm_surface
  <2>2. ASSUME NEW t \in Surfs, t # s, surf[t].state = "ready", surf[t].locked
        PROVE  surf[t].bos[surf[t].front] \notin {b0, b1}
    BY <1>1, <2>2 DEF Inv, HeldInv, SurfInv, SurfOK
  <2>3. ASSUME NEW d \in held'
        PROVE  /\ bo'[d].state = "ready" /\ bo'[d].surf \in Surfs
               /\ surf'[bo'[d].surf].state = "ready" /\ surf'[bo'[d].surf].locked
               /\ d = surf'[bo'[d].surf].bos[surf'[bo'[d].surf].front]
    <3>1. d \in held /\ d \notin {b0, b1} /\ d \in Bos
      BY <1>3, <2>3 DEF Inv, GbmTypeOK
    <3>2. bo'[d] = bo[d] /\ surf'[bo[d].surf] = surf[bo[d].surf]
      BY <1>2, <1>4, <2>1, <3>1 DEF Inv, HeldInv
    <3>3. QED
      BY <3>1, <3>2 DEF Inv, HeldInv
  <2>4. ASSUME NEW t \in Surfs, surf'[t].state = "ready", surf'[t].locked
        PROVE  surf'[t].front \in 0..1 /\ surf'[t].bos[surf'[t].front] \in held'
    <3>1. t # s /\ surf'[t] = surf[t]
      BY <1>2, <1>5, <2>4
    <3>2. QED
      BY <1>3, <2>2, <2>4, <3>1 DEF Inv, HeldInv
  <2>5. QED
    BY <2>3, <2>4 DEF HeldInv
<1>11. KeptInv' /\ HolderInv'
  BY <1>1, <1>2, <1>4, HandlesKept, SMTT(30) DEF Alive
<1>12. QED
  BY <1>6, <1>7, <1>8, <1>9, <1>10, <1>11, OthersKept, SMTT(30) DEF Inv

-----------------------------------------------------------------------------
(* Calls that neither create nor close a handle.                            *)

\* SETCRTC changes only what is on the display.
LEMMA SetCrtcInv ==
  ASSUME Inv, NEW c \in Clients, NEW b \in Bos, drmModeSetCrtc(c, b)
  PROVE  Inv'
<1>1. UNCHANGED <<mode, bufs, libvars>> /\ scanout' \in BufHandles
  BY DEF drmModeSetCrtc, BufScan, OpenBufs
<1>2. GbmTypeOK'
  BY <1>1, GbmNullAssumption DEF libvars, Inv, GbmTypeOK, BufHandles
<1>3. KeptInv' /\ HolderInv'
  BY <1>1, HandlesKept DEF libvars
<1>4. QED
  BY <1>1, <1>2, <1>3, SMTT(20) DEF libvars, Inv, CallInv, CallOK, WorksOn, WorksFor, BoInv, BoOK,
     SurfInv, SurfOK, HeldInv

\* mmap fails, and a call of gbm_bo_map has changed nothing.
LEMMA MmapInv ==
  ASSUME Inv, NEW c \in Clients, MmapReturns(c)
  PROVE  Inv'
<1>1. PICK b \in Bos : b = call[c].bo /\ bo[b].state = "ready" /\ bo[b].owner = c
  BY DEF MmapReturns, Inv, CallInv, CallOK, WorksOn
<1>2. /\ UNCHANGED <<mode, bufs, scanout, surf, holder, exposed, held>>
      /\ call' = [call EXCEPT ![c] = NoCall] /\ call[c].at = "mmap"
      /\ bo' = [bo EXCEPT ![b].map = FALSE]
  BY <1>1 DEF MmapReturns, Done, dbvars, drm_mmap
<1>3. /\ call'[c] = NoCall /\ \A d \in Clients \ {c} : call'[d] = call[d]
      /\ call' \in [Clients -> Calls]
  BY <1>2 DEF Inv, GbmTypeOK, NoCall, Calls, Ops, Places
<1>4. /\ bo' \in [Bos -> gbm_bo] /\ \A d \in Bos \ {b} : bo'[d] = bo[d]
      /\ bo'[b].state = bo[b].state /\ bo'[b].owner = c /\ bo'[b].surf = bo[b].surf
      /\ bo'[b].gem_handle = bo[b].gem_handle /\ bo'[b].map_offset = bo[b].map_offset
  BY <1>1, <1>2, ZenonT(30) DEF Inv, GbmTypeOK, gbm_bo
<1>5. GbmTypeOK'
  BY <1>1, <1>2, <1>3, <1>4 DEF Inv, GbmTypeOK
<1>6. Local(c) /\ CallOK(c)'
  BY <1>1, <1>2, <1>3, <1>4 DEF Local, CallOK, NoCall
<1>7. call[c].surf = NoSurf
  BY <1>2 DEF Inv, CallInv, CallOK
<1>8. ASSUME NEW s \in Surfs, surf[s].owner = c PROVE surf[s].state \in {"free", "ready"}
  BY <1>7, <1>8, GbmNullAssumption DEF Inv, SurfInv, SurfOK, GbmTypeOK, gbm_surface, SurfStates
<1>9. ASSUME NEW d \in Bos, bo[d].owner = c PROVE bo[d].state \in {"free", "ready"}
  BY <1>1, <1>9 DEF Inv, BoInv, BoOK, GbmTypeOK, gbm_bo, BoStates
<1>10. ASSUME NEW d \in Bos, bo'[d].owner = c PROVE BoOK(d)'
  <2>1. BoOK(d) /\ bo[d].owner = c /\ bo[d].state \in {"free", "ready"}
    BY <1>1, <1>4, <1>9, <1>10 DEF Inv, BoInv
  <2>2. bo[d].state # "free" /\ bo[d].surf # NoSurf => surf[bo[d].surf].state = "ready"
    BY <1>8, <2>1 DEF Inv, BoOK, GbmTypeOK, gbm_bo
  <2>3. bo'[d].state = bo[d].state /\ bo'[d].surf = bo[d].surf /\ bo'[d].owner = bo[d].owner
    BY <1>1, <1>4
  <2>4. QED
    BY <1>2, <2>1, <2>2, <2>3 DEF BoOK
<1>11. ASSUME NEW s \in Surfs, surf'[s].owner = c PROVE SurfOK(s)'
  BY <1>1, <1>2, <1>4, <1>8, <1>11, SMTT(20) DEF Inv, SurfInv, SurfOK
<1>12. HeldInv'
  <2>1. \A d \in held : bo'[d].state = bo[d].state /\ bo'[d].surf = bo[d].surf
    BY <1>1, <1>4 DEF Inv, GbmTypeOK
  <2>2. QED
    BY <1>2, <2>1 DEF Inv, HeldInv
<1>13. KeptInv' /\ HolderInv'
  BY <1>1, <1>2, <1>4, HandlesKept
<1>14. QED
  BY <1>5, <1>6, <1>10, <1>11, <1>12, <1>13, OthersKept DEF Inv

\* A front buffer is given out, and the surface is locked.
LEMMA LockInv ==
  ASSUME Inv, NEW c \in Clients, NEW s \in Surfs, gbm_surface_lock_front_buffer(c, s)
  PROVE  Inv'
<1>1. PICK i \in 0..1 : i = IF surf[s].front = -1 THEN 0 ELSE 1 - surf[s].front
  BY DEF Inv, GbmTypeOK, gbm_surface
<1>2. /\ UNCHANGED <<mode, bufs, scanout, bo, call, holder, exposed>>
      /\ surf' = [surf EXCEPT ![s].front = i, ![s].locked = TRUE]
      /\ held' = held \cup {surf[s].bos[i]}
      /\ surf[s].state = "ready" /\ surf[s].owner = c /\ ~surf[s].locked
  BY <1>1 DEF gbm_surface_lock_front_buffer, gbm_surface_has_free_buffers, dbvars
<1>3. /\ surf' \in [Surfs -> gbm_surface]
      /\ surf'[s].state = "ready" /\ surf'[s].owner = c /\ surf'[s].nbo = surf[s].nbo
      /\ surf'[s].bos = surf[s].bos /\ surf'[s].front = i /\ surf'[s].locked
      /\ \A t \in Surfs \ {s} : surf'[t] = surf[t]
  BY <1>2 DEF Inv, GbmTypeOK, gbm_surface
<1>4. /\ surf[s].bos[i] \in Bos /\ bo[surf[s].bos[i]].state = "ready"
      /\ bo[surf[s].bos[i]].surf = s
  BY <1>2 DEF Inv, SurfInv, SurfOK
<1>5. GbmTypeOK'
  BY <1>2, <1>3, <1>4 DEF Inv, GbmTypeOK
<1>6. Local(c)
  BY <1>2, <1>3, SMTT(30) DEF Local
<1>7. CallOK(c)'
  BY <1>2, <1>3 DEF Inv, CallInv, CallOK, WorksOn, WorksFor
<1>8. ASSUME NEW b \in Bos, bo'[b].owner = c PROVE BoOK(b)'
  <2>1. BoOK(b) /\ bo'[b] = bo[b] /\ call' = call
    BY <1>2 DEF Inv, BoInv
  <2>2. bo[b].surf # NoSurf => /\ surf'[bo[b].surf].state = surf[bo[b].surf].state
                              /\ surf'[bo[b].surf].owner = surf[bo[b].surf].owner
                              /\ surf'[bo[b].surf].bos = surf[bo[b].surf].bos
    BY <1>2, <1>3 DEF Inv, GbmTypeOK, gbm_bo
  <2>3. QED
    BY <2>1, <2>2 DEF BoOK
<1>9. ASSUME NEW t \in Surfs, surf'[t].owner = c PROVE SurfOK(t)'
  <2>1. SurfOK(t) /\ bo' = bo /\ call' = call
    BY <1>2 DEF Inv, SurfInv
  <2>2. CASE t = s
    BY <1>2, <1>3, <2>1, <2>2 DEF SurfOK
  <2>3. CASE t # s
    <3>1. surf'[t] = surf[t]
      BY <1>3, <2>3
    <3>2. QED
      BY <2>1, <3>1 DEF SurfOK
  <2>4. QED
    BY <2>2, <2>3
<1>10. HeldInv'
  <2>1. ASSUME NEW b \in held PROVE bo[b].surf # s
    BY <1>2, <2>1 DEF Inv, HeldInv
  <2>2. ASSUME NEW b \in held'
        PROVE  /\ bo[b].state = "ready" /\ bo[b].surf \in Surfs
               /\ surf'[bo[b].surf].state = "ready" /\ surf'[bo[b].surf].locked
               /\ b = surf'[bo[b].surf].bos[surf'[bo[b].surf].front]
    <3>1. CASE b \in held
      BY <1>3, <2>1, <3>1, SMTT(30) DEF Inv, HeldInv
    <3>2. CASE b = surf[s].bos[i]
      BY <1>3, <1>4, <3>2
    <3>3. QED
      BY <1>2, <2>2, <3>1, <3>2
  <2>3. ASSUME NEW t \in Surfs, surf'[t].state = "ready", surf'[t].locked
        PROVE  surf'[t].front \in 0..1 /\ surf'[t].bos[surf'[t].front] \in held'
    <3>1. CASE t = s
      BY <1>2, <1>3, <3>1
    <3>2. CASE t # s
      BY <1>2, <1>3, <2>3, <3>2 DEF Inv, HeldInv
    <3>3. QED
      BY <3>1, <3>2
  <2>4. bo' = bo
    BY <1>2
  <2>5. QED
    BY <2>2, <2>3, <2>4 DEF HeldInv
<1>11. KeptInv' /\ HolderInv'
  BY <1>2, HandlesKept
<1>12. QED
  BY <1>5, <1>6, <1>7, <1>8, <1>9, <1>10, <1>11, OthersKept DEF Inv

\* The buffer that was out comes back.
LEMMA ReleaseInv ==
  ASSUME Inv, NEW c \in Clients, NEW s \in Surfs, NEW b \in Bos, gbm_surface_release_buffer(c, s, b)
  PROVE  Inv'
<1>1. /\ UNCHANGED <<mode, bufs, scanout, bo, call, holder, exposed>>
      /\ surf' = [surf EXCEPT ![s].locked = FALSE]
      /\ held' = held \ {b} /\ b \in held /\ bo[b].surf = s
      /\ surf[s].state = "ready" /\ surf[s].owner = c
  BY DEF gbm_surface_release_buffer, dbvars
<1>2. /\ surf' \in [Surfs -> gbm_surface]
      /\ surf'[s].state = "ready" /\ surf'[s].owner = c /\ surf'[s].nbo = surf[s].nbo
      /\ surf'[s].bos = surf[s].bos /\ ~surf'[s].locked
      /\ \A t \in Surfs \ {s} : surf'[t] = surf[t]
  BY <1>1, ZenonT(30) DEF Inv, GbmTypeOK, gbm_surface
<1>3. GbmTypeOK'
  BY <1>1, <1>2 DEF Inv, GbmTypeOK
<1>4. Local(c)
  BY <1>1, <1>2 DEF Local
<1>5. CallOK(c)'
  BY <1>1, <1>2 DEF Inv, CallInv, CallOK, WorksOn, WorksFor
<1>6. ASSUME NEW d \in Bos, bo'[d].owner = c PROVE BoOK(d)'
  <2>1. BoOK(d) /\ bo'[d] = bo[d] /\ call' = call
    BY <1>1 DEF Inv, BoInv
  <2>2. bo[d].surf # NoSurf => /\ surf'[bo[d].surf].state = surf[bo[d].surf].state
                              /\ surf'[bo[d].surf].owner = surf[bo[d].surf].owner
                              /\ surf'[bo[d].surf].bos = surf[bo[d].surf].bos
    BY <1>1, <1>2 DEF Inv, GbmTypeOK, gbm_bo
  <2>3. QED
    BY <2>1, <2>2 DEF BoOK
<1>7. ASSUME NEW t \in Surfs, surf'[t].owner = c PROVE SurfOK(t)'
  BY <1>1, <1>2, <1>7, SMTT(20) DEF Inv, SurfInv, SurfOK
<1>8. HeldInv'
  <2>1. ASSUME NEW d \in held, d # b PROVE bo[d].surf # s
    BY <1>1, <2>1 DEF Inv, HeldInv
  <2>2. ASSUME NEW t \in Surfs, t # s, surf[t].state = "ready" PROVE surf[t].bos[surf[t].front] # b
          \/ ~surf[t].locked
    BY <1>1, <2>2 DEF Inv, HeldInv, SurfInv, SurfOK
  <2>3. QED
    BY <1>1, <1>2, <2>1, <2>2 DEF Inv, HeldInv
<1>9. KeptInv' /\ HolderInv'
  BY <1>1, HandlesKept
<1>10. QED
  BY <1>3, <1>4, <1>5, <1>6, <1>7, <1>8, <1>9, OthersKept DEF Inv

-----------------------------------------------------------------------------
(* Allocation.                                                              *)

\* A client that allocates has nothing half done but the surface it allocates for.
LEMMA AllocFacts ==
  ASSUME Inv, NEW c \in Clients, call[c].at = "alloc"
  PROVE  /\ call[c].bo = NoBo /\ call[c].op \in {"bo_create", "surface_create"}
         /\ \A b \in Bos : bo[b].owner = c => bo[b].state \in {"free", "ready"}
         /\ \A s \in Surfs : surf[s].owner = c =>
              \/ surf[s].state \in {"free", "ready"}
              \/ s = call[c].surf /\ surf[s].state = "making" /\ call[c].op = "surface_create"
<1>1. call[c].bo = NoBo /\ call[c].op \in {"bo_create", "surface_create"}
  BY DEF Inv, CallInv, CallOK
<1>2. ASSUME NEW b \in Bos, bo[b].owner = c PROVE bo[b].state \in {"free", "ready"}
  BY <1>1, <1>2, GbmNullAssumption DEF Inv, BoInv, BoOK, GbmTypeOK, gbm_bo, BoStates
<1>3. ASSUME NEW s \in Surfs, surf[s].owner = c
      PROVE  \/ surf[s].state \in {"free", "ready"}
             \/ s = call[c].surf /\ surf[s].state = "making" /\ call[c].op = "surface_create"
  <2>1. CASE surf[s].state \in {"making", "destroying"}
    <3>1. call[c].surf = s /\ s # NoSurf
      BY <1>3, <2>1, GbmNullAssumption DEF Inv, SurfInv, SurfOK
    <3>2. call[c].op = "surface_create" /\ surf[s].state = "making"
      BY <1>1, <3>1 DEF Inv, CallInv, CallOK, WorksFor
    <3>3. QED
      BY <3>1, <3>2
  <2>2. QED
    BY <2>1 DEF Inv, GbmTypeOK, gbm_surface, SurfStates
<1>4. QED
  BY <1>1, <1>2, <1>3

\* What a client owns while it allocates: the surface it allocates for, and buffers that are ready.
LEMMA AllocKeeps ==
  ASSUME Inv, NEW c \in Clients, call[c].at = "alloc", NEW b \in Bos, bo[b].owner = c, bo'[b] = bo[b],
         \A s \in Surfs : surf'[s].state # "destroying" \/ surf'[s] = surf[s],
         \A s \in Surfs : surf[s].state # "free" /\ bo[b].state # "free" /\ bo[b].surf = s =>
           /\ surf'[s].state # "free" /\ surf'[s].owner = surf[s].owner /\ surf'[s].bos = surf[s].bos
  PROVE  BoOK(b)'
<1>1. BoOK(b) /\ bo[b].state \in {"free", "ready"} /\ bo[b].surf \in Surfs \cup {NoSurf}
  BY AllocFacts DEF Inv, BoInv, GbmTypeOK, gbm_bo
<1>2. CASE bo[b].state = "free" \/ bo[b].surf = NoSurf
  BY <1>1, <1>2 DEF BoOK
<1>3. CASE bo[b].state = "ready" /\ bo[b].surf \in Surfs
  <2>1. PICK s \in Surfs : s = bo[b].surf
    BY <1>3
  <2>2. surf[s].state # "free" /\ surf[s].owner = c /\ (b = surf[s].bos[1] \/ b = surf[s].bos[0])
    BY <1>1, <1>3, <2>1, GbmNullAssumption DEF BoOK
  <2>3. surf[s].state # "destroying"
    BY <2>2, AllocFacts
  <2>4. surf'[s].state \notin {"free", "destroying"} /\ surf'[s].owner = c /\ surf'[s].bos = surf[s].bos
    BY <1>3, <2>1, <2>2, <2>3
  <2>5. QED
    BY <1>3, <2>1, <2>2, <2>4 DEF BoOK
<1>4. QED
  BY <1>1, <1>2, <1>3

\* A failed allocation ends the call, or turns to the surface's other buffer.
LEMMA AllocFailsInv ==
  ASSUME Inv, NEW c \in Clients, AllocFails(c)
  PROVE  Inv'
<1>1. /\ call[c].at = "alloc" /\ UNCHANGED <<mode, bufs, scanout, holder, exposed, held>>
      /\ NoCall \in Calls /\ NoCall.at = "idle" /\ NoCall.op = "none"
      /\ NoCall.bo = NoBo /\ NoCall.surf = NoSurf
  BY DEF AllocFails, dbvars, NoCall, Calls, Ops, Places
<1>2. CASE call[c].surf = NoSurf
  <2>1. UNCHANGED <<bo, surf>> /\ call' = [call EXCEPT ![c] = NoCall]
    BY <1>2 DEF AllocFails, Done
  <2>2. GbmTypeOK' /\ call'[c] = NoCall /\ \A d \in Clients \ {c} : call'[d] = call[d]
    BY <1>1, <2>1 DEF Inv, GbmTypeOK
  <2>3. Local(c) /\ CallOK(c)'
    BY <1>1, <2>1, <2>2 DEF Local, CallOK
  <2>4. ASSUME NEW b \in Bos, bo'[b].owner = c PROVE BoOK(b)'
    BY <1>1, <2>1, <2>4, AllocKeeps DEF Inv, BoInv, BoOK
  <2>5. ASSUME NEW s \in Surfs, surf'[s].owner = c PROVE SurfOK(s)'
    BY <1>1, <1>2, <2>1, <2>5, AllocFacts, GbmNullAssumption, SMTT(20) DEF Inv, SurfInv, SurfOK
  <2>6. HeldInv' /\ KeptInv' /\ HolderInv'
    BY <1>1, <2>1, HandlesKept DEF Inv, HeldInv
  <2>7. QED
    BY <2>2, <2>3, <2>4, <2>5, <2>6, OthersKept DEF Inv
<1>3. CASE call[c].surf # NoSurf
  <2>1. PICK s \in Surfs : /\ call[c].surf = s /\ surf[s].owner = c /\ surf[s].state = "making"
                           /\ call[c].op = "surface_create" /\ surf[s].nbo \in {0, 1}
                           /\ surf[s].bos[1] = NoBo /\ (surf[s].nbo = 0 => surf[s].bos[0] = NoBo)
    BY <1>1, <1>3, AllocFacts, SMTT(20) DEF Inv, CallInv, CallOK, WorksFor, SurfInv, SurfOK
  <2>2. CASE surf[s].nbo = 0
    <3>1. /\ UNCHANGED bo /\ call' = [call EXCEPT ![c] = NoCall]
          /\ surf' = [surf EXCEPT ![s] = FreeSurf(c)]
      BY <1>3, <2>1, <2>2 DEF AllocFails, Done
    <3>2. FreeSurf(c).state = "free" /\ FreeSurf(c).owner = c /\ FreeSurf(c) \in gbm_surface
      BY FreeSurface
    <3>3. GbmTypeOK' /\ call'[c] = NoCall /\ \A d \in Clients \ {c} : call'[d] = call[d]
      BY <1>1, <3>1, <3>2 DEF Inv, GbmTypeOK
    <3>4. /\ surf'[s].state = "free" /\ surf'[s].owner = c
          /\ \A t \in Surfs \ {s} : surf'[t] = surf[t]
      BY <3>1, <3>2 DEF Inv, GbmTypeOK
    <3>5. Local(c) /\ CallOK(c)'
      BY <1>1, <2>1, <3>1, <3>3, <3>4 DEF Local, CallOK
    <3>6. \A b \in Bos : bo[b].surf # s \/ bo[b].owner # c \/ bo[b].state = "free"
      BY <1>1, <2>1, <2>2, AllocFacts, GbmNullAssumption DEF Inv, BoInv, BoOK
    <3>7. ASSUME NEW b \in Bos, bo'[b].owner = c PROVE BoOK(b)'
      BY <1>1, <3>1, <3>4, <3>6, <3>7, AllocKeeps
    <3>8. ASSUME NEW t \in Surfs, surf'[t].owner = c PROVE SurfOK(t)'
      <4>1. CASE t = s
        BY <3>4, <4>1 DEF SurfOK
      <4>2. CASE t # s
        BY <1>1, <2>1, <3>1, <3>4, <3>8, <4>2, AllocFacts, SMTT(20) DEF Inv, SurfInv, SurfOK
      <4>3. QED
        BY <4>1, <4>2
    <3>9. HeldInv'
      BY <1>1, <2>1, <3>1, <3>4 DEF Inv, HeldInv
    <3>10. KeptInv' /\ HolderInv'
      BY <1>1, <3>1, HandlesKept
    <3>11. QED
      BY <3>3, <3>5, <3>7, <3>8, <3>9, <3>10, OthersKept DEF Inv
  <2>3. CASE surf[s].nbo = 1
    <3>1. PICK b \in Bos : b = surf[s].bos[0] /\ bo[b].state = "ready" /\ bo[b].surf = s /\ bo[b].owner = c
      <4>1. surf[s].bos[0] \in Bos /\ bo[surf[s].bos[0]].surf = s /\ bo[surf[s].bos[0]].state # "free"
        BY <2>1, <2>3 DEF Inv, SurfInv, SurfOK
      <4>2. bo[surf[s].bos[0]].owner = c
        BY <2>1, <4>1, GbmNullAssumption DEF Inv, BoInv, BoOK
      <4>3. QED
        BY <1>1, <4>1, <4>2, AllocFacts
    <3>2. /\ UNCHANGED surf /\ call' = [call EXCEPT ![c].at = "destroy_dumb", ![c].bo = b]
          /\ bo' = [bo EXCEPT ![b].state = "destroying"]
      BY <1>3, <2>1, <2>3, <3>1 DEF AllocFails, Goto
    <3>3. /\ call' \in [Clients -> Calls] /\ \A d \in Clients \ {c} : call'[d] = call[d]
          /\ call'[c].at = "destroy_dumb" /\ call'[c].bo = b /\ call'[c].op = call[c].op
          /\ call'[c].surf = s
      <4>1. Goto(c, "destroy_dumb", b) /\ "destroy_dumb" \in Places
        BY <3>2 DEF Goto, Places
      <4>2. QED
        BY <2>1, <4>1, GotoFacts DEF Inv, GbmTypeOK
    <3>4. /\ bo' \in [Bos -> gbm_bo] /\ \A d \in Bos \ {b} : bo'[d] = bo[d]
          /\ bo'[b].state = "destroying" /\ bo'[b].owner = c /\ bo'[b].surf = s
          /\ bo'[b].gem_handle = bo[b].gem_handle /\ bo'[b].map_offset = bo[b].map_offset
      BY <3>1, <3>2 DEF Inv, GbmTypeOK, gbm_bo, BoStates
    <3>5. GbmTypeOK'
      BY <1>1, <3>1, <3>2, <3>3, <3>4, SMTT(30) DEF Inv, GbmTypeOK
    <3>6. Local(c) /\ CallOK(c)'
      BY <2>1, <3>1, <3>2, <3>3, <3>4, GbmNullAssumption, ZenonT(30) DEF Local, CallOK, WorksOn, WorksFor
    <3>7. ASSUME NEW d \in Bos, bo'[d].owner = c PROVE BoOK(d)'
      <4>1. CASE d = b
        BY <2>1, <3>1, <3>2, <3>3, <3>4, <4>1 DEF BoOK
      <4>2. CASE d # b
        BY <1>1, <3>2, <3>4, <3>7, <4>2, AllocKeeps
      <4>3. QED
        BY <4>1, <4>2
    <3>8. ASSUME NEW t \in Surfs, surf'[t].owner = c PROVE SurfOK(t)'
      <4>1. CASE t = s
        BY <2>1, <2>3, <3>1, <3>2, <3>3, <3>4, <4>1, ZenonT(30) DEF Inv, SurfInv, SurfOK
      <4>2. CASE t # s
        <5>1. surf'[t] = surf[t] /\ SurfOK(t) /\ surf[t].state \in {"free", "ready"}
          BY <1>1, <2>1, <3>2, <3>8, <4>2, AllocFacts DEF Inv, SurfInv
        <5>2. surf[t].state = "ready" =>
                \A i \in 0..1 : surf[t].bos[i] \in Bos /\ surf[t].bos[i] # b
          BY <3>1, <4>2, <5>1 DEF SurfOK
        <5>3. QED
          BY <3>4, <5>1, <5>2 DEF SurfOK
      <4>3. QED
        BY <4>1, <4>2
    <3>9. HeldInv'
      <4>1. b \notin held
        BY <2>1, <3>1 DEF Inv, HeldInv
      <4>2. \A d \in held : bo'[d] = bo[d]
        BY <3>4, <4>1 DEF Inv, GbmTypeOK
      <4>3. held' = held /\ surf' = surf
        BY <1>1, <3>2
      <4>4. QED
        BY <4>2, <4>3 DEF Inv, HeldInv
    <3>10. KeptInv' /\ HolderInv'
      BY <1>1, <3>1, <3>4, HandlesKept DEF Alive
    <3>11. QED
      BY <3>5, <3>6, <3>7, <3>8, <3>9, <3>10, OthersKept DEF Inv
  <2>4. QED
    BY <2>1, <2>2, <2>3
<1>4. QED
  BY <1>2, <1>3

\* What MAP_DUMB leaves in the structure.
LEMMA MappedBo ==
  ASSUME bo \in [Bos -> gbm_bo], NEW b \in Bos, NEW m \in 0..NumBOs,
         bo' = [bo EXCEPT ![b].state = "ready", ![b].map_offset = m]
  PROVE  /\ bo' \in [Bos -> gbm_bo] /\ \A d \in Bos \ {b} : bo'[d] = bo[d]
         /\ bo'[b].state = "ready" /\ bo'[b].owner = bo[b].owner /\ bo'[b].surf = bo[b].surf
         /\ bo'[b].gem_handle = bo[b].gem_handle /\ bo'[b].map_offset = m
  BY DEF gbm_bo, BoStates

\* A buffer that was not exposed is mapped by its own handle.
LEMMA MappedKept ==
  ASSUME Inv, NEW b \in Bos, bo[b].state = "new", NEW m, UNCHANGED <<bufs, holder, exposed>>,
         m = IF bo[b].gem_handle \in OpenBufs THEN bo[b].gem_handle ELSE 0,
         \A d \in Bos \ {b} : bo'[d] = bo[d],
         bo'[b].state = "ready" /\ bo'[b].gem_handle = bo[b].gem_handle /\ bo'[b].map_offset = m
  PROVE  KeptInv' /\ HolderInv'
<1>1. OpenBufs' = OpenBufs
  BY DEF OpenBufs
<1>2. \A d \in Bos : /\ bo'[d].gem_handle = bo[d].gem_handle
                     /\ (bo'[d].state = "free") <=> (bo[d].state = "free")
                     /\ bo'[d].state \in Alive => bo[d].state \in Alive
  BY DEF Alive
<1>3. ASSUME NEW d \in Bos \ exposed, bo'[d].state \in Alive PROVE Keeps(d)' /\ AloneOn(d)'
  BY <1>1, <1>2, <1>3 DEF Inv, KeptInv, Keeps, AloneOn
<1>4. ASSUME NEW d \in Bos \ exposed, bo'[d].state = "ready" PROVE bo'[d].map_offset = bo'[d].gem_handle
  <2>1. CASE d = b
    BY <2>1 DEF Inv, KeptInv, Keeps, Alive
  <2>2. CASE d # b
    BY <1>4, <2>2 DEF Inv, KeptInv
  <2>3. QED
    BY <2>1, <2>2
<1>5. KeptInv'
  BY <1>3, <1>4 DEF KeptInv
<1>6. HolderInv'
  BY <1>1, <1>2 DEF Inv, HolderInv
<1>7. QED
  BY <1>5, <1>6

\* The surface gets its next buffer.
Adds(s, b, n, k, st) == surf' = [surf EXCEPT ![s].bos[n] = b, ![s].nbo = k, ![s].state = st]

\* It keeps the one it has.
LEMMA AddedBo ==
  ASSUME surf \in [Surfs -> gbm_surface], NEW s \in Surfs, NEW b \in Bos, NEW n \in {0, 1},
         NEW k \in 0..2, NEW st \in SurfStates,
         Adds(s, b, n, k, st)
  PROVE  /\ surf' \in [Surfs -> gbm_surface] /\ \A t \in Surfs \ {s} : surf'[t] = surf[t]
         /\ surf'[s].state = st /\ surf'[s].nbo = k
         /\ surf'[s].owner = surf[s].owner /\ surf'[s].front = surf[s].front
         /\ surf'[s].locked = surf[s].locked
         /\ surf'[s].bos[n] = b /\ surf'[s].bos[1 - n] = surf[s].bos[1 - n]
<1>1. surf[s].bos \in [0..1 -> Bos \cup {NoBo}]
  BY DEF gbm_surface
<1>2. PICK z \in [0..1 -> Bos \cup {NoBo}] : z = [surf[s].bos EXCEPT ![n] = b]
  BY <1>1
<1>3. surf' = [surf EXCEPT ![s].bos = z, ![s].nbo = k, ![s].state = st]
  BY <1>2 DEF Adds
<1>4. /\ surf'[s].state = st /\ surf'[s].nbo = k /\ surf'[s].bos = z
      /\ surf'[s].owner = surf[s].owner /\ surf'[s].front = surf[s].front
      /\ surf'[s].locked = surf[s].locked /\ \A t \in Surfs \ {s} : surf'[t] = surf[t]
  BY <1>3 DEF gbm_surface
<1>5. surf' \in [Surfs -> gbm_surface]
  <2>1. PICK f \in [Surfs -> gbm_surface] : f = [surf EXCEPT ![s].bos = z]
    BY DEF gbm_surface
  <2>2. PICK g \in [Surfs -> gbm_surface] : g = [f EXCEPT ![s].nbo = k]
    BY DEF gbm_surface
  <2>3. [g EXCEPT ![s].state = st] \in [Surfs -> gbm_surface]
    BY ZenonT(30) DEF gbm_surface
  <2>4. surf' = [g EXCEPT ![s].state = st]
    BY <1>3, <2>1, <2>2
  <2>5. QED
    BY <2>3, <2>4
<1>6. QED
  BY <1>2, <1>4, <1>5

\* The buffer is ready, and so is a surface with its second one.
LEMMA AllocMapInv ==
  ASSUME Inv, NEW c \in Clients, AllocMap(c)
  PROVE  Inv'
<1>1. PICK b \in Bos : /\ b = call[c].bo /\ bo[b].state = "new" /\ bo[b].owner = c
                       /\ bo[b].surf = call[c].surf /\ call[c].op \in {"bo_create", "surface_create"}
  BY DEF AllocMap, Inv, CallInv, CallOK, WorksOn
<1>2. PICK m \in 0..NumBOs : m = IF bo[b].gem_handle \in OpenBufs THEN bo[b].gem_handle ELSE 0
  BY GbmNullAssumption DEF Inv, GbmTypeOK, gbm_bo
<1>3. /\ call[c].at = "map_dumb" /\ UNCHANGED <<mode, bufs, scanout, holder, exposed, held>>
      /\ bo' = [bo EXCEPT ![b].state = "ready", ![b].map_offset = m]
      /\ NoCall \in Calls /\ NoCall.at = "idle" /\ NoCall.op = "none"
      /\ NoCall.bo = NoBo /\ NoCall.surf = NoSurf
  BY <1>1, <1>2 DEF AllocMap, dbvars, NoCall, Calls, Ops, Places
<1>4. /\ bo' \in [Bos -> gbm_bo] /\ \A d \in Bos \ {b} : bo'[d] = bo[d]
      /\ bo'[b].state = "ready" /\ bo'[b].owner = c /\ bo'[b].surf = bo[b].surf
      /\ bo'[b].gem_handle = bo[b].gem_handle /\ bo'[b].map_offset = m
  <2>1. bo \in [Bos -> gbm_bo] /\ bo' = [bo EXCEPT ![b].state = "ready", ![b].map_offset = m]
    BY <1>3 DEF Inv, GbmTypeOK
  <2>2. /\ bo' \in [Bos -> gbm_bo] /\ \A d \in Bos \ {b} : bo'[d] = bo[d]
        /\ bo'[b].state = "ready" /\ bo'[b].owner = bo[b].owner /\ bo'[b].surf = bo[b].surf
        /\ bo'[b].gem_handle = bo[b].gem_handle /\ bo'[b].map_offset = m
    BY <2>1, MappedBo
  <2>3. QED
    BY <1>1, <2>2
<1>5. KeptInv' /\ HolderInv'
  <2>1. UNCHANGED <<bufs, holder, exposed>>
    BY <1>3
  <2>2. QED
    BY <1>1, <1>2, <1>4, <2>1, MappedKept
<1>6. \A d \in Bos \ {b} : bo[d].owner = c => bo[d].state \in {"free", "ready"}
  BY <1>1 DEF Inv, BoInv, BoOK, GbmTypeOK, gbm_bo, BoStates
<1>7. b \notin held
  BY <1>1 DEF Inv, HeldInv
<1>8. \A d \in held : bo'[d] = bo[d] /\ d \in Bos
  BY <1>4, <1>7 DEF Inv, GbmTypeOK
<1>9. CASE call[c].surf = NoSurf
  <2>1. UNCHANGED surf /\ call' = [call EXCEPT ![c] = NoCall]
    BY <1>9 DEF AllocMap, Done
  <2>2. GbmTypeOK' /\ call'[c] = NoCall /\ \A d \in Clients \ {c} : call'[d] = call[d]
    BY <1>1, <1>3, <1>4, <2>1, SMTT(30) DEF Inv, GbmTypeOK
  <2>3. Local(c) /\ CallOK(c)'
    BY <1>1, <1>3, <1>4, <2>1, <2>2 DEF Local, CallOK
  <2>4. \A s \in Surfs : surf[s].owner = c => surf[s].state \in {"free", "ready"}
    BY <1>9, GbmNullAssumption DEF Inv, SurfInv, SurfOK, GbmTypeOK, gbm_surface, SurfStates
  <2>5. ASSUME NEW d \in Bos, bo'[d].owner = c PROVE BoOK(d)'
    <3>1. CASE d = b
      BY <1>1, <1>4, <1>9, <3>1 DEF BoOK
    <3>2. CASE d # b
      <4>1. BoOK(d) /\ bo'[d] = bo[d] /\ bo[d].state \in {"free", "ready"}
        BY <1>4, <1>6, <2>5, <3>2 DEF Inv, BoInv
      <4>2. bo[d].state # "free" /\ bo[d].surf # NoSurf => surf[bo[d].surf].state = "ready"
        BY <2>4, <2>5, <4>1 DEF Inv, BoOK, GbmTypeOK, gbm_bo
      <4>3. QED
        BY <2>1, <4>1, <4>2 DEF BoOK
    <3>3. QED
      BY <3>1, <3>2
  <2>6. ASSUME NEW s \in Surfs, surf'[s].owner = c PROVE SurfOK(s)'
    <3>1. surf'[s] = surf[s] /\ SurfOK(s) /\ surf[s].state \in {"free", "ready"}
      BY <2>1, <2>4, <2>6 DEF Inv, SurfInv
    <3>2. surf[s].state = "ready" => \A i \in 0..1 : surf[s].bos[i] \in Bos /\ surf[s].bos[i] # b
      BY <1>1, <3>1 DEF SurfOK
    <3>3. QED
      BY <1>4, <3>1, <3>2 DEF SurfOK
  <2>7. HeldInv'
    <3>1. held' = held /\ surf' = surf
      BY <1>3, <2>1
    <3>2. QED
      BY <1>8, <3>1 DEF Inv, HeldInv
  <2>8. QED
    BY <1>5, <2>2, <2>3, <2>5, <2>6, <2>7, OthersKept DEF Inv
<1>10. CASE call[c].surf # NoSurf
  <2>1. PICK s \in Surfs, n \in {0, 1} :
          /\ call[c].surf = s /\ surf[s].owner = c /\ surf[s].state = "making" /\ surf[s].nbo = n
          /\ call[c].op = "surface_create" /\ surf[s].front = -1 /\ ~surf[s].locked
          /\ surf[s].bos[1] = NoBo
          /\ IF n = 0 THEN surf[s].bos[0] = NoBo
             ELSE /\ surf[s].bos[0] \in Bos /\ bo[surf[s].bos[0]].surf = s
                  /\ bo[surf[s].bos[0]].state \in {"ready", "destroying", "closed"}
    BY <1>1, <1>10 DEF Inv, CallInv, CallOK, WorksFor, SurfInv, SurfOK
  <2>2. n = 1 => surf[s].bos[0] # b /\ bo[surf[s].bos[0]].state = "ready"
    <3>1. n = 1 => bo[surf[s].bos[0]].owner = c /\ surf[s].bos[0] # b
      BY <1>1, <2>1, GbmNullAssumption DEF Inv, BoInv, BoOK
    <3>2. QED
      BY <1>6, <2>1, <3>1
  <2>3. /\ surf' = [surf EXCEPT ![s].bos[n] = b, ![s].nbo = n + 1,
                                ![s].state = IF n = 1 THEN "ready" ELSE "making"]
        /\ IF n = 1 THEN Done(c) ELSE Goto(c, "alloc", NoBo)
    BY <1>1, <1>10, <2>1 DEF AllocMap
  <2>4. /\ surf' \in [Surfs -> gbm_surface] /\ \A t \in Surfs \ {s} : surf'[t] = surf[t]
        /\ surf'[s].state = (IF n = 1 THEN "ready" ELSE "making") /\ surf'[s].nbo = n + 1
        /\ surf'[s].owner = c /\ surf'[s].front = -1 /\ ~surf'[s].locked
        /\ surf'[s].bos[n] = b /\ surf'[s].bos[1 - n] = surf[s].bos[1 - n]
    <3>1. PICK k \in 0..2, st \in SurfStates : k = n + 1 /\ st = IF n = 1 THEN "ready" ELSE "making"
      BY DEF SurfStates
    <3>2. /\ surf \in [Surfs -> gbm_surface]
          /\ Adds(s, b, n, k, st)
      BY <2>3, <3>1 DEF Inv, GbmTypeOK, Adds
    <3>3. /\ surf' \in [Surfs -> gbm_surface] /\ \A t \in Surfs \ {s} : surf'[t] = surf[t]
          /\ surf'[s].state = st /\ surf'[s].nbo = k
          /\ surf'[s].owner = surf[s].owner /\ surf'[s].front = surf[s].front
          /\ surf'[s].locked = surf[s].locked
          /\ surf'[s].bos[n] = b /\ surf'[s].bos[1 - n] = surf[s].bos[1 - n]
      BY <3>2, AddedBo
    <3>4. QED
      BY <2>1, <3>1, <3>3
  <2>5. /\ call' \in [Clients -> Calls] /\ \A d \in Clients \ {c} : call'[d] = call[d]
        /\ IF n = 1 THEN call'[c] = NoCall
           ELSE /\ call'[c].at = "alloc" /\ call'[c].bo = NoBo /\ call'[c].op = "surface_create"
                /\ call'[c].surf = s
    <3>1. CASE n = 1
      BY <1>3, <2>3, <3>1 DEF Done, Inv, GbmTypeOK
    <3>2. CASE n = 0
      <4>1. Goto(c, "alloc", NoBo) /\ "alloc" \in Places
        BY <2>3, <3>2 DEF Places
      <4>2. QED
        BY <2>1, <3>2, <4>1, GotoFacts DEF Inv, GbmTypeOK
    <3>3. QED
      BY <3>1, <3>2
  <2>6. GbmTypeOK'
    BY <1>1, <1>3, <1>4, <2>4, <2>5 DEF Inv, GbmTypeOK
  <2>7. Local(c) /\ CallOK(c)'
    BY <1>1, <1>3, <1>4, <2>1, <2>4, <2>5, GbmNullAssumption, ZenonT(30) DEF Local, CallOK, WorksFor
  <2>8. \A t \in Surfs \ {s} : surf[t].owner = c => surf[t].state \in {"free", "ready"}
    BY <2>1 DEF Inv, SurfInv, SurfOK, GbmTypeOK, gbm_surface, SurfStates
  <2>9. ASSUME NEW d \in Bos, bo'[d].owner = c PROVE BoOK(d)'
    <3>1. CASE d = b
      <4>1. bo'[b].surf = s /\ surf'[s].state \in {"ready", "making"}
            /\ (b = surf'[s].bos[0] \/ b = surf'[s].bos[1])
        BY <1>1, <1>4, <2>1, <2>4
      <4>2. QED
        BY <1>4, <2>4, <3>1, <4>1 DEF BoOK
    <3>2. CASE d # b
      <4>1. BoOK(d) /\ bo'[d] = bo[d] /\ bo[d].state \in {"free", "ready"} /\ bo[d].owner = c
        BY <1>4, <1>6, <2>9, <3>2 DEF Inv, BoInv
      <4>2. CASE bo[d].state = "ready" /\ bo[d].surf = s
        <5>1. n = 1 /\ d = surf[s].bos[0]
          BY <2>1, <4>1, <4>2, GbmNullAssumption DEF BoOK
        <5>2. d = surf'[s].bos[0] /\ surf'[s].state = "ready"
          BY <2>4, <5>1
        <5>3. QED
          BY <2>4, <4>1, <4>2, <5>2 DEF BoOK
      <4>3. CASE bo[d].state = "ready" /\ bo[d].surf \in Surfs \ {s}
        <5>1. surf'[bo[d].surf] = surf[bo[d].surf] /\ surf[bo[d].surf].state = "ready"
          BY <2>4, <2>8, <4>1, <4>3, GbmNullAssumption DEF BoOK
        <5>2. QED
          BY <4>1, <4>3, <5>1 DEF BoOK
      <4>4. CASE bo[d].state = "free" \/ bo[d].surf = NoSurf
        BY <4>1, <4>4 DEF BoOK
      <4>5. QED
        BY <4>1, <4>2, <4>3, <4>4 DEF Inv, GbmTypeOK, gbm_bo
    <3>3. QED
      BY <3>1, <3>2
  <2>10. ASSUME NEW t \in Surfs, surf'[t].owner = c PROVE SurfOK(t)'
    <3>1. CASE t = s /\ n = 0
      BY <1>1, <1>4, <2>1, <2>4, <2>5, <3>1 DEF SurfOK
    <3>2. CASE t = s /\ n = 1
      <4>1. PICK a \in Bos : a = surf[s].bos[0] /\ a # b /\ bo[a].state = "ready" /\ bo[a].surf = s
        BY <2>1, <2>2, <3>2
      <4>2. /\ surf'[s].bos[0] = a /\ surf'[s].bos[1] = b /\ surf'[s].nbo = 2
            /\ surf'[s].state = "ready"
        BY <2>4, <3>2, <4>1
      <4>3. bo'[a].state = "ready" /\ bo'[a].surf = s /\ bo'[b].state = "ready" /\ bo'[b].surf = s
        BY <1>1, <1>4, <2>1, <4>1
      <4>4. QED
        BY <3>2, <4>1, <4>2, <4>3 DEF SurfOK
    <3>3. CASE t # s
      <4>1. surf'[t] = surf[t] /\ SurfOK(t) /\ surf[t].state \in {"free", "ready"}
        BY <2>4, <2>8, <2>10, <3>3 DEF Inv, SurfInv
      <4>2. surf[t].state = "ready" => \A i \in 0..1 : surf[t].bos[i] \in Bos /\ surf[t].bos[i] # b
        BY <1>1, <4>1 DEF SurfOK
      <4>3. QED
        BY <1>4, <4>1, <4>2 DEF SurfOK
    <3>4. QED
      BY <3>1, <3>2, <3>3
  <2>11. HeldInv'
    <3>1. \A d \in held : bo[d].surf # s
      BY <2>1 DEF Inv, HeldInv
    <3>2. held' = held
      BY <1>3
    <3>3. QED
      BY <1>8, <2>4, <3>1, <3>2 DEF Inv, HeldInv
  <2>12. QED
    BY <1>5, <2>6, <2>7, <2>9, <2>10, <2>11, OthersKept DEF Inv
<1>11. QED
  BY <1>9, <1>10

\* CREATE_DUMB gives a handle that no buffer has which was not exposed.
LEMMA AllocCreateInv ==
  ASSUME Inv, NEW c \in Clients, AllocCreate(c)
  PROVE  Inv'
<1>1. PICK b \in Bos, h \in BufHandles, m \in Mems :
        /\ bo[b].state = "free" /\ BufCreate(h, m)
        /\ bo' = [bo EXCEPT ![b] = NewBo(c, h, call[c].surf)]
        /\ holder' = [holder EXCEPT ![h] = b]
        /\ exposed' = exposed \cup
             {x \in {b} : \E d \in Bos : bo[d].state # "free" /\ bo[d].gem_handle = h}
        /\ Goto(c, "map_dumb", b)
  BY DEF AllocCreate, FreeBos, NewBo
<1>2. PICK n : /\ bo[b].state = "free" /\ BufCreate(h, m)
               /\ n = NewBo(c, h, call[c].surf)
               /\ bo' = [bo EXCEPT ![b] = n] /\ holder' = [holder EXCEPT ![h] = b]
               /\ exposed' = exposed \cup
                    {x \in {b} : \E d \in Bos : bo[d].state # "free" /\ bo[d].gem_handle = h}
               /\ Goto(c, "map_dumb", b)
  BY <1>1
<1>3. call[c].at = "alloc" /\ UNCHANGED <<surf, held>>
  BY DEF AllocCreate
<1>4. /\ n \in gbm_bo /\ n.state = "new" /\ n.owner = c /\ n.gem_handle = h
      /\ n.surf = call[c].surf
  <2>1. call[c].surf \in Surfs \cup {NoSurf}
    BY DEF Inv, GbmTypeOK, Calls
  <2>2. QED
    BY <1>2, <2>1, NewStructure
<1>5. /\ UNCHANGED <<mode, scanout>> /\ bufs' \in [BufHandles -> Mems \cup {NoMem}]
      /\ OpenBufs' = OpenBufs \cup {h} /\ h \notin OpenBufs
  BY <1>2, GbmNullAssumption DEF BufCreate, OpenBufs, Inv, GbmTypeOK
<1>6. bo' \in [Bos -> gbm_bo] /\ bo'[b] = n /\ \A d \in Bos \ {b} : bo'[d] = bo[d]
  BY <1>2, <1>4 DEF Inv, GbmTypeOK
<1>7. /\ holder' \in [BufHandles -> Bos \cup {NoBo}] /\ holder'[h] = b
      /\ \A k \in BufHandles \ {h} : holder'[k] = holder[k]
  BY <1>2 DEF Inv, GbmTypeOK
<1>8. /\ call' \in [Clients -> Calls] /\ \A d \in Clients \ {c} : call'[d] = call[d]
      /\ call'[c].at = "map_dumb" /\ call'[c].bo = b
      /\ call'[c].op = call[c].op /\ call'[c].surf = call[c].surf
  BY <1>2, GotoFacts DEF Inv, GbmTypeOK, Places
<1>9. /\ call[c].op \in {"bo_create", "surface_create"}
      /\ \A d \in Bos : bo[d].owner = c => bo[d].state \in {"free", "ready"}
      /\ \A s \in Surfs : surf[s].owner = c =>
           \/ surf[s].state \in {"free", "ready"}
           \/ s = call[c].surf /\ surf[s].state = "making" /\ call[c].op = "surface_create"
  BY <1>3, AllocFacts
<1>10. GbmTypeOK'
  <2>1. \A d \in Bos : bo'[d].state # "free" => bo'[d].gem_handle \in BufHandles
    BY <1>2, <1>4, <1>6 DEF Inv, GbmTypeOK
  <2>2. surf' = surf /\ held' = held /\ exposed' \subseteq Bos
    BY <1>2, <1>3 DEF Inv, GbmTypeOK
  <2>3. QED
    BY <1>5, <1>6, <1>7, <1>8, <2>1, <2>2 DEF Inv, GbmTypeOK
<1>11. Local(c)
  <2>1. surf' = surf
    BY <1>3
  <2>2. QED
    BY <1>2, <1>4, <1>6, <1>8, <2>1 DEF Local
<1>12. CallOK(c)'
  <2>1. CallOK(c) /\ surf' = surf
    BY <1>3 DEF Inv, CallInv
  <2>2. QED
    BY <1>4, <1>6, <1>8, <1>9, <2>1 DEF CallOK, WorksOn, WorksFor
<1>13. ASSUME NEW d \in Bos, bo'[d].owner = c PROVE BoOK(d)'
  <2>1. CASE d = b
    <3>1. n.surf # NoSurf => surf[n.surf].state = "making" /\ surf[n.surf].owner = c
      BY <1>4, <1>9 DEF Inv, CallInv, CallOK, WorksFor
    <3>2. surf' = surf
      BY <1>3
    <3>3. QED
      BY <1>4, <1>6, <1>8, <2>1, <3>1, <3>2 DEF BoOK
  <2>2. CASE d # b
    <3>1. surf' = surf /\ bo'[d] = bo[d] /\ bo[d].owner = c
      BY <1>3, <1>6, <1>13, <2>2
    <3>2. QED
      BY <1>3, <3>1, AllocKeeps
  <2>3. QED
    BY <2>1, <2>2
<1>14. ASSUME NEW t \in Surfs, surf'[t].owner = c PROVE SurfOK(t)'
  <2>1. SurfOK(t) /\ surf'[t] = surf[t] /\ surf[t].state # "destroying"
    BY <1>3, <1>9, <1>14 DEF Inv, SurfInv
  <2>2. surf[t].state = "making" => call[c].surf = t
    BY <1>9, <1>14, <2>1
  <2>3. surf[t].state = "ready" => \A i \in 0..1 : surf[t].bos[i] \in Bos /\ surf[t].bos[i] # b
    BY <1>2, <2>1 DEF SurfOK
  <2>4. surf[t].state = "making" /\ surf[t].nbo = 1 => surf[t].bos[0] \in Bos /\ surf[t].bos[0] # b
    BY <1>2, <2>1 DEF SurfOK
  <2>5. QED
    BY <1>6, <1>8, <1>14, <2>1, <2>2, <2>3, <2>4 DEF SurfOK
<1>15. HeldInv'
  <2>1. b \notin held
    BY <1>2 DEF Inv, HeldInv
  <2>2. \A d \in held : bo'[d] = bo[d]
    BY <1>6, <2>1 DEF Inv, GbmTypeOK
  <2>3. held' = held /\ surf' = surf
    BY <1>3
  <2>4. QED
    BY <2>2, <2>3 DEF Inv, HeldInv
<1>16. KeptInv'
  <2>1. b \notin exposed' => AloneOn(b)'
    BY <1>2, <1>4, <1>6 DEF AloneOn
  <2>2. Keeps(b)'
    BY <1>4, <1>5, <1>6, <1>7 DEF Keeps
  <2>3. ASSUME NEW d \in Bos \ exposed', d # b, bo'[d].state \in Alive PROVE Keeps(d)' /\ AloneOn(d)'
    <3>1. d \notin exposed /\ bo'[d] = bo[d] /\ Keeps(d) /\ AloneOn(d)
      BY <1>2, <1>6, <2>3 DEF Inv, KeptInv
    <3>2. bo[d].gem_handle # h /\ bo[d].gem_handle \in OpenBufs
      BY <1>5, <3>1 DEF Keeps
    <3>3. Keeps(d)'
      BY <1>5, <1>7, <3>1, <3>2 DEF Keeps, OpenBufs
    <3>4. AloneOn(d)'
      BY <1>4, <1>6, <3>1, <3>2 DEF AloneOn
    <3>5. QED
      BY <3>3, <3>4
  <2>4. ASSUME NEW d \in Bos \ exposed', bo'[d].state = "ready"
        PROVE  bo'[d].map_offset = bo'[d].gem_handle
    BY <1>2, <1>4, <1>6, <2>4 DEF Inv, KeptInv
  <2>5. QED
    BY <2>1, <2>2, <2>3, <2>4 DEF KeptInv
<1>17. HolderInv'
  <2>1. ASSUME NEW k \in OpenBufs, k # h PROVE holder[k] # b
    BY <1>2, <2>1 DEF Inv, HolderInv
  <2>2. \A k \in OpenBufs : k \in BufHandles
    BY DEF OpenBufs
  <2>3. QED
    BY <1>4, <1>5, <1>6, <1>7, <2>1, <2>2 DEF Inv, HolderInv
<1>18. QED
  BY <1>10, <1>11, <1>12, <1>13, <1>14, <1>15, <1>16, <1>17, OthersKept DEF Inv

-----------------------------------------------------------------------------
(* Destruction.                                                             *)

\* Closing a handle, open or not.
LEMMA CloseFacts ==
  ASSUME GbmTypeOK, NEW h \in BufHandles, CloseHandle(h)
  PROVE  /\ UNCHANGED <<mode, scanout>> /\ bufs' \in [BufHandles -> Mems \cup {NoMem}]
         /\ OpenBufs' = OpenBufs \ {h}
<1>1. CASE h \in OpenBufs
  <2>1. bufs' = [bufs EXCEPT ![h] = NoMem] /\ UNCHANGED <<mode, scanout>>
    BY <1>1 DEF CloseHandle, BufClose
  <2>2. QED
    BY <2>1 DEF GbmTypeOK, OpenBufs
<1>2. CASE h \notin OpenBufs
  BY <1>2 DEF CloseHandle, dbvars, GbmTypeOK, OpenBufs
<1>3. QED
  BY <1>1, <1>2

\* It takes no buffer from anybody that was not exposed.
LEMMA ClosedKept ==
  ASSUME Inv, NEW b \in Bos, bo[b].state \in {"destroying", "closed"},
         OpenBufs' = OpenBufs \ {bo[b].gem_handle}, holder' = holder, exposed \ {b} \subseteq exposed',
         bo'[b].state \in {"closed", "free"},
         bo'[b].state = "closed" => bo'[b].gem_handle = bo[b].gem_handle,
         \A d \in Bos \ {b} : /\ bo'[d].gem_handle = bo[d].gem_handle
                              /\ (bo'[d].state = "free") <=> (bo[d].state = "free")
                              /\ bo'[d].state \in Alive => bo[d].state \in Alive
                              /\ bo'[d].state = "ready" =>
                                   bo[d].state = "ready" /\ bo'[d].map_offset = bo[d].map_offset
  PROVE  KeptInv' /\ HolderInv'
<1>1. ASSUME NEW d \in Bos \ exposed', bo'[d].state \in Alive PROVE Keeps(d)' /\ AloneOn(d)'
  <2>1. d # b /\ d \notin exposed /\ bo[d].state \in Alive /\ Keeps(d) /\ AloneOn(d)
    BY <1>1 DEF Inv, KeptInv, Alive
  <2>2. bo[b].gem_handle # bo[d].gem_handle
    BY <2>1 DEF AloneOn
  <2>3. Keeps(d)'
    BY <2>1, <2>2 DEF Keeps
  <2>4. AloneOn(d)'
    BY <2>1, <2>2 DEF AloneOn
  <2>5. QED
    BY <2>3, <2>4
<1>2. ASSUME NEW d \in Bos \ exposed', bo'[d].state = "ready" PROVE bo'[d].map_offset = bo'[d].gem_handle
  BY <1>2 DEF Inv, KeptInv
<1>3. HolderInv'
  BY DEF Inv, HolderInv
<1>4. QED
  BY <1>1, <1>2, <1>3 DEF KeptInv

\* What a client that destroys a buffer may rely on.
LEMMA ClosingFacts ==
  ASSUME Inv, NEW c \in Clients, call[c].at \in {"destroy_dumb", "gem_close"}
  PROVE  /\ call[c].bo \in Bos /\ bo[call[c].bo].owner = c /\ bo[call[c].bo].gem_handle \in BufHandles
         /\ bo[call[c].bo].state = IF call[c].at = "destroy_dumb" THEN "destroying" ELSE "closed"
         /\ bo[call[c].bo].surf = call[c].surf
         /\ \A d \in Bos \ {call[c].bo} : bo[d].owner = c => bo[d].state \in {"free", "ready"}
         /\ \A t \in Surfs \ {call[c].surf} : surf[t].owner = c => surf[t].state \in {"free", "ready"}
<1>1. /\ call[c].bo \in Bos /\ bo[call[c].bo].owner = c /\ bo[call[c].bo].surf = call[c].surf
      /\ bo[call[c].bo].state = IF call[c].at = "destroy_dumb" THEN "destroying" ELSE "closed"
  BY DEF Inv, CallInv, CallOK, WorksOn
<1>2. bo[call[c].bo].gem_handle \in BufHandles
  BY <1>1 DEF Inv, GbmTypeOK
<1>3. ASSUME NEW d \in Bos \ {call[c].bo}, bo[d].owner = c PROVE bo[d].state \in {"free", "ready"}
  BY <1>3 DEF Inv, BoInv, BoOK, GbmTypeOK, gbm_bo, BoStates
<1>4. ASSUME NEW t \in Surfs \ {call[c].surf}, surf[t].owner = c PROVE surf[t].state \in {"free", "ready"}
  BY <1>4 DEF Inv, SurfInv, SurfOK, GbmTypeOK, gbm_surface, SurfStates
<1>5. QED
  BY <1>1, <1>2, <1>3, <1>4

\* DESTROY_DUMB closes the handle; the structure goes on to GEM_CLOSE.
LEMMA DestroyDumbInv ==
  ASSUME Inv, NEW c \in Clients, DestroyDumb(c)
  PROVE  Inv'
<1>1. PICK b \in Bos : /\ b = call[c].bo /\ bo[b].owner = c /\ bo[b].state = "destroying"
                       /\ bo[b].gem_handle \in BufHandles /\ call[c].at = "destroy_dumb"
                       /\ bo[b].surf = call[c].surf
  BY ClosingFacts DEF DestroyDumb
<1>2. /\ CloseHandle(bo[b].gem_handle) /\ UNCHANGED <<surf, holder, exposed, held>>
      /\ bo' = [bo EXCEPT ![b].state = "closed"] /\ Goto(c, "gem_close", b)
  BY <1>1 DEF DestroyDumb
<1>3. /\ UNCHANGED <<mode, scanout>> /\ bufs' \in [BufHandles -> Mems \cup {NoMem}]
      /\ OpenBufs' = OpenBufs \ {bo[b].gem_handle}
  BY <1>1, <1>2, CloseFacts DEF Inv
<1>4. /\ bo' \in [Bos -> gbm_bo] /\ \A d \in Bos \ {b} : bo'[d] = bo[d]
      /\ bo'[b].state = "closed" /\ bo'[b].owner = c /\ bo'[b].surf = bo[b].surf
      /\ bo'[b].gem_handle = bo[b].gem_handle /\ bo'[b].map_offset = bo[b].map_offset
  BY <1>1, <1>2 DEF Inv, GbmTypeOK, gbm_bo, BoStates
<1>5. /\ call' \in [Clients -> Calls] /\ \A d \in Clients \ {c} : call'[d] = call[d]
      /\ call'[c].at = "gem_close" /\ call'[c].bo = b
      /\ call'[c].op = call[c].op /\ call'[c].surf = call[c].surf
  BY <1>2, GotoFacts DEF Inv, GbmTypeOK, Places
<1>6. GbmTypeOK'
  BY <1>1, <1>2, <1>3, <1>4, <1>5 DEF Inv, GbmTypeOK
<1>7. Local(c)
  BY <1>1, <1>2, <1>4, <1>5 DEF Local
<1>8. CallOK(c)'
  <2>1. CallOK(c) /\ surf' = surf /\ call[c].at = "destroy_dumb" /\ call[c].bo = b
    BY <1>1, <1>2 DEF Inv, CallInv
  <2>2. WorksOn(c, "closed")'
    BY <1>4, <1>5 DEF WorksOn
  <2>3. bo'[b].surf = bo[b].surf /\ bo[b].surf = call[c].surf
    BY <1>1, <1>4
  <2>4. QED
    BY <1>5, <2>1, <2>2, <2>3 DEF CallOK, WorksFor
<1>9. ASSUME NEW d \in Bos, bo'[d].owner = c PROVE BoOK(d)'
  <2>1. CASE d = b
    <3>1. BoOK(b) /\ surf' = surf /\ bo[b].state = "destroying" /\ bo[b].owner = c
      BY <1>1, <1>2 DEF Inv, BoInv
    <3>2. bo'[b].state = "closed" /\ bo'[b].owner = c /\ bo'[b].surf = bo[b].surf
      BY <1>4
    <3>3. call'[c].bo = b /\ call[c].bo = b
      BY <1>1, <1>5
    <3>4. QED
      BY <2>1, <3>1, <3>2, <3>3 DEF BoOK
  <2>2. CASE d # b
    BY <1>1, <1>2, <1>4, <1>5, <1>9, <2>2 DEF Inv, BoInv, BoOK
  <2>3. QED
    BY <2>1, <2>2
<1>10. ASSUME NEW t \in Surfs, surf'[t].owner = c PROVE SurfOK(t)'
  <2>1. SurfOK(t) /\ surf'[t] = surf[t] /\ call'[c].surf = call[c].surf
    BY <1>2, <1>5 DEF Inv, SurfInv
  <2>2. surf[t].state = "ready" => \A i \in 0..1 : surf[t].bos[i] \in Bos /\ surf[t].bos[i] # b
    BY <1>1, <2>1 DEF SurfOK
  <2>3. \A d \in Bos : /\ bo'[d].surf = bo[d].surf
                       /\ bo'[d].state = IF d = b THEN "closed" ELSE bo[d].state
    BY <1>4
  <2>4. surf[t].state = "making" /\ surf[t].nbo = 1 => surf[t].bos[0] \in Bos
    BY <2>1 DEF SurfOK
  <2>5. surf[t].state = "destroying" => surf[t].bos[1] \in Bos
    BY <2>1 DEF SurfOK
  <2>6. QED
    BY <1>10, <2>1, <2>2, <2>3, <2>4, <2>5 DEF SurfOK
<1>11. HeldInv'
  <2>1. b \notin held
    BY <1>1 DEF Inv, HeldInv
  <2>2. \A d \in held : bo'[d] = bo[d]
    BY <1>4, <2>1 DEF Inv, GbmTypeOK
  <2>3. held' = held /\ surf' = surf
    BY <1>2
  <2>4. QED
    BY <2>2, <2>3 DEF Inv, HeldInv
<1>12. KeptInv' /\ HolderInv'
  BY <1>1, <1>2, <1>3, <1>4, ClosedKept DEF Alive
<1>13. QED
  BY <1>6, <1>7, <1>8, <1>9, <1>10, <1>11, <1>12, OthersKept DEF Inv

\* A structure on its own is freed.
LEMMA FreeAloneInv ==
  ASSUME Inv, NEW c \in Clients, GemCloseFree(c), call[c].surf = NoSurf
  PROVE  Inv'
<1>1. PICK b \in Bos : /\ b = call[c].bo /\ bo[b].owner = c /\ bo[b].state = "closed"
                       /\ bo[b].gem_handle \in BufHandles
  BY ClosingFacts DEF GemCloseFree
<1>2. /\ CloseHandle(bo[b].gem_handle) /\ UNCHANGED <<surf, holder, held>>
      /\ exposed' = exposed \ {b} /\ call[c].at = "gem_close"
      /\ bo' = [bo EXCEPT ![b] = FreeBo(c)] /\ call' = [call EXCEPT ![c] = NoCall]
      /\ NoCall \in Calls /\ NoCall.at = "idle" /\ NoCall.op = "none"
      /\ NoCall.bo = NoBo /\ NoCall.surf = NoSurf
  BY <1>1 DEF GemCloseFree, Done, NoCall, Calls, Ops, Places
<1>3. /\ UNCHANGED <<mode, scanout>> /\ bufs' \in [BufHandles -> Mems \cup {NoMem}]
      /\ OpenBufs' = OpenBufs \ {bo[b].gem_handle}
  BY <1>1, <1>2, CloseFacts DEF Inv
<1>4. /\ bo' \in [Bos -> gbm_bo] /\ \A d \in Bos \ {b} : bo'[d] = bo[d]
      /\ bo'[b].state = "free" /\ bo'[b].owner = c
  BY <1>2, FreeStructure DEF Inv, GbmTypeOK
<1>5. /\ call' \in [Clients -> Calls] /\ \A d \in Clients \ {c} : call'[d] = call[d]
      /\ call'[c] = NoCall
  BY <1>2 DEF Inv, GbmTypeOK
<1>6. GbmTypeOK'
  BY <1>1, <1>2, <1>3, <1>4, <1>5 DEF Inv, GbmTypeOK
<1>7. Local(c) /\ CallOK(c)'
  BY <1>1, <1>2, <1>4, <1>5 DEF Local, CallOK
<1>8. /\ \A d \in Bos \ {b} : bo[d].owner = c => bo[d].state \in {"free", "ready"}
      /\ \A t \in Surfs : surf[t].owner = c => surf[t].state \in {"free", "ready"}
  BY <1>1, <1>2, ClosingFacts, GbmNullAssumption
<1>9. ASSUME NEW d \in Bos, bo'[d].owner = c PROVE BoOK(d)'
  <2>1. CASE d = b
    BY <1>4, <2>1 DEF BoOK
  <2>2. CASE d # b
    <3>1. BoOK(d) /\ bo'[d] = bo[d] /\ bo[d].owner = c /\ bo[d].state \in {"free", "ready"}
      BY <1>4, <1>8, <1>9, <2>2 DEF Inv, BoInv
    <3>2. bo[d].state # "free" /\ bo[d].surf # NoSurf => surf[bo[d].surf].state = "ready"
      BY <1>8, <3>1 DEF Inv, BoOK, GbmTypeOK, gbm_bo
    <3>3. QED
      BY <1>2, <3>1, <3>2 DEF BoOK
  <2>3. QED
    BY <2>1, <2>2
<1>10. ASSUME NEW t \in Surfs, surf'[t].owner = c PROVE SurfOK(t)'
  <2>1. SurfOK(t) /\ surf'[t] = surf[t] /\ surf[t].state \in {"free", "ready"}
    BY <1>2, <1>8, <1>10 DEF Inv, SurfInv
  <2>2. surf[t].state = "ready" => \A i \in 0..1 : surf[t].bos[i] \in Bos /\ surf[t].bos[i] # b
    BY <1>1, <2>1 DEF SurfOK
  <2>3. QED
    BY <1>4, <2>1, <2>2 DEF SurfOK
<1>11. HeldInv'
  <2>1. b \notin held
    BY <1>1 DEF Inv, HeldInv
  <2>2. \A d \in held : bo'[d] = bo[d]
    BY <1>4, <2>1 DEF Inv, GbmTypeOK
  <2>3. held' = held /\ surf' = surf
    BY <1>2
  <2>4. QED
    BY <2>2, <2>3 DEF Inv, HeldInv
<1>12. KeptInv' /\ HolderInv'
  BY <1>1, <1>2, <1>3, <1>4, ClosedKept DEF Alive
<1>13. QED
  BY <1>6, <1>7, <1>9, <1>10, <1>11, <1>12, OthersKept DEF Inv

\* The surface's first buffer is freed, and its second one follows.
LEMMA FreeFirstInv ==
  ASSUME Inv, NEW c \in Clients, GemCloseFree(c), NEW s \in Surfs, call[c].surf = s,
         call[c].op = "surface_destroy", call[c].bo = surf[s].bos[0]
  PROVE  Inv'
<1>1. call[c].at = "gem_close"
  BY DEF GemCloseFree
<1>2. PICK b \in Bos : /\ b = call[c].bo /\ bo[b].owner = c /\ bo[b].state = "closed"
                       /\ bo[b].gem_handle \in BufHandles /\ bo[b].surf = s
  BY <1>1, ClosingFacts
<1>3. PICK a \in Bos : /\ a = surf[s].bos[1] /\ a # b /\ bo[a].surf = s /\ bo[a].owner = c
                       /\ bo[a].state = "ready"
  <2>1. /\ surf[s].state = "destroying" /\ surf[s].owner = c /\ surf[s].bos[1] \in Bos
        /\ surf[s].bos[1] # b /\ bo[surf[s].bos[1]].surf = s /\ bo[surf[s].bos[1]].state # "free"
    BY <1>2 DEF Inv, CallInv, CallOK, WorksFor, SurfInv, SurfOK
  <2>2. bo[surf[s].bos[1]].owner = c
    BY <2>1, GbmNullAssumption DEF Inv, BoInv, BoOK
  <2>3. bo[surf[s].bos[1]].state = "ready"
    BY <1>1, <1>2, <2>1, <2>2, ClosingFacts
  <2>4. QED
    BY <2>1, <2>2, <2>3
<1>4. /\ CloseHandle(bo[b].gem_handle) /\ UNCHANGED <<surf, holder, held>>
      /\ exposed' = exposed \ {b} /\ call[c].at = "gem_close"
      /\ bo' = [bo EXCEPT ![b] = FreeBo(c), ![a].state = "destroying", ![a].map = FALSE]
      /\ Goto(c, "destroy_dumb", a)
  BY <1>2, <1>3, GbmNullAssumption, ZenonT(30) DEF GemCloseFree
<1>5. /\ UNCHANGED <<mode, scanout>> /\ bufs' \in [BufHandles -> Mems \cup {NoMem}]
      /\ OpenBufs' = OpenBufs \ {bo[b].gem_handle}
  BY <1>2, <1>4, CloseFacts DEF Inv
<1>6. /\ bo' \in [Bos -> gbm_bo] /\ \A d \in Bos \ {a, b} : bo'[d] = bo[d]
      /\ bo'[b].state = "free" /\ bo'[b].owner = c
      /\ bo'[a].state = "destroying" /\ bo'[a].owner = c /\ bo'[a].surf = s
      /\ bo'[a].gem_handle = bo[a].gem_handle /\ bo'[a].map_offset = bo[a].map_offset
  <2>1. PICK f \in [Bos -> gbm_bo] : f = [bo EXCEPT ![b] = FreeBo(c)]
    BY FreeStructure DEF Inv, GbmTypeOK
  <2>2. /\ f[b].state = "free" /\ f[b].owner = c /\ \A d \in Bos \ {b} : f[d] = bo[d]
    BY <2>1, FreeStructure DEF Inv, GbmTypeOK
  <2>3. bo' = [f EXCEPT ![a].state = "destroying", ![a].map = FALSE]
    BY <1>4, <2>1
  <2>4. /\ bo' \in [Bos -> gbm_bo]
        /\ bo'[a].state = "destroying" /\ bo'[a].owner = f[a].owner /\ bo'[a].surf = f[a].surf
        /\ bo'[a].gem_handle = f[a].gem_handle /\ bo'[a].map_offset = f[a].map_offset
        /\ \A d \in Bos \ {a} : bo'[d] = f[d]
    BY <2>3 DEF gbm_bo, BoStates
  <2>5. QED
    BY <1>2, <1>3, <2>2, <2>4
<1>7. /\ call' \in [Clients -> Calls] /\ \A d \in Clients \ {c} : call'[d] = call[d]
      /\ call'[c].at = "destroy_dumb" /\ call'[c].bo = a
      /\ call'[c].op = "surface_destroy" /\ call'[c].surf = s
  BY <1>4, GotoFacts DEF Inv, GbmTypeOK, Places
<1>8. /\ surf[s].state = "destroying" /\ surf[s].owner = c
      /\ \A d \in Bos \ {b} : bo[d].owner = c => bo[d].state \in {"free", "ready"}
      /\ \A t \in Surfs \ {s} : surf[t].owner = c => surf[t].state \in {"free", "ready"}
  <2>1. surf[s].state = "destroying" /\ surf[s].owner = c
    BY DEF Inv, CallInv, CallOK, WorksFor
  <2>2. QED
    BY <1>1, <1>2, <2>1, ClosingFacts
<1>9. GbmTypeOK'
  <2>1. \A d \in Bos : bo'[d].state # "free" => bo'[d].gem_handle \in BufHandles
    BY <1>3, <1>6 DEF Inv, GbmTypeOK
  <2>2. surf' = surf /\ holder' = holder /\ held' = held /\ exposed' \subseteq exposed
    BY <1>4
  <2>3. QED
    BY <1>5, <1>6, <1>7, <2>1, <2>2 DEF Inv, GbmTypeOK
<1>10. Local(c)
  <2>1. surf' = surf
    BY <1>4
  <2>2. QED
    BY <1>2, <1>3, <1>6, <1>7, <2>1 DEF Local
<1>11. CallOK(c)'
  <2>1. WorksOn(c, "destroying")'
    BY <1>6, <1>7 DEF WorksOn
  <2>2. WorksFor(c, "destroying")'
    <3>1. surf' = surf /\ surf[s].state = "destroying" /\ surf[s].owner = c
      BY <1>4, <1>8
    <3>2. QED
      BY <1>7, <3>1 DEF WorksFor
  <2>3. a \in {surf'[s].bos[0], surf'[s].bos[1]}
    BY <1>3, <1>4
  <2>4. bo'[a].surf = s
    BY <1>6
  <2>5. QED
    BY <1>7, <2>1, <2>2, <2>3, <2>4 DEF CallOK
<1>12. ASSUME NEW d \in Bos, bo'[d].owner = c PROVE BoOK(d)'
  <2>1. CASE d = b
    BY <1>6, <2>1 DEF BoOK
  <2>2. CASE d = a
    <3>1. surf' = surf /\ surf[s].state = "destroying" /\ surf[s].owner = c /\ a = surf[s].bos[1]
      BY <1>3, <1>4, <1>8
    <3>2. call'[c].bo = a
      BY <1>7
    <3>3. bo'[a].state = "destroying" /\ bo'[a].owner = c /\ bo'[a].surf = s
      BY <1>6
    <3>4. QED
      BY <2>2, <3>1, <3>2, <3>3 DEF BoOK
  <2>3. CASE d \notin {a, b}
    <3>1. BoOK(d) /\ bo'[d] = bo[d] /\ bo[d].owner = c /\ bo[d].state \in {"free", "ready"}
      BY <1>6, <1>8, <1>12, <2>3 DEF Inv, BoInv
    <3>2. bo[d].state = "free" \/ bo[d].surf # s
      BY <1>2, <1>3, <2>3, <3>1, GbmNullAssumption DEF BoOK
    <3>3. bo[d].state # "free" /\ bo[d].surf # NoSurf => surf[bo[d].surf].state = "ready"
      BY <1>8, <3>1, <3>2 DEF Inv, BoOK, GbmTypeOK, gbm_bo
    <3>4. QED
      BY <1>4, <3>1, <3>3 DEF BoOK
  <2>4. QED
    BY <2>1, <2>2, <2>3
<1>13. ASSUME NEW t \in Surfs, surf'[t].owner = c PROVE SurfOK(t)'
  <2>1. CASE t = s
    <3>1. surf' = surf /\ surf[s].state = "destroying" /\ surf[s].owner = c
      BY <1>4, <1>8
    <3>2. call'[c].surf = s /\ SurfOK(s)
      BY <1>7 DEF Inv, SurfInv
    <3>3. bo'[surf[s].bos[1]].surf = s /\ bo'[surf[s].bos[1]].state = "destroying"
      BY <1>3, <1>6
    <3>4. QED
      BY <2>1, <3>1, <3>2, <3>3 DEF SurfOK
  <2>2. CASE t # s
    <3>1. SurfOK(t) /\ surf'[t] = surf[t] /\ surf[t].state \in {"free", "ready"}
      BY <1>4, <1>8, <1>13, <2>2 DEF Inv, SurfInv
    <3>2. surf[t].state = "ready" =>
            \A i \in 0..1 : surf[t].bos[i] \in Bos /\ surf[t].bos[i] \notin {a, b}
      BY <1>2, <1>3, <2>2, <3>1 DEF SurfOK
    <3>3. QED
      BY <1>6, <3>1, <3>2 DEF SurfOK
  <2>3. QED
    BY <2>1, <2>2
<1>14. HeldInv'
  <2>1. a \notin held /\ b \notin held
    BY <1>2, <1>3, <1>8 DEF Inv, HeldInv
  <2>2. \A d \in held : bo'[d] = bo[d]
    BY <1>6, <2>1 DEF Inv, GbmTypeOK
  <2>3. held' = held /\ surf' = surf
    BY <1>4
  <2>4. QED
    BY <2>2, <2>3 DEF Inv, HeldInv
<1>15. KeptInv' /\ HolderInv'
  <2>1. \A d \in Bos \ {b} : /\ bo'[d].gem_handle = bo[d].gem_handle
                             /\ (bo'[d].state = "free") <=> (bo[d].state = "free")
                             /\ bo'[d].state \in Alive => bo[d].state \in Alive
                             /\ bo'[d].state = "ready" =>
                                   bo[d].state = "ready" /\ bo'[d].map_offset = bo[d].map_offset
    BY <1>3, <1>6 DEF Alive
  <2>2. /\ holder' = holder /\ exposed \ {b} \subseteq exposed'
        /\ OpenBufs' = OpenBufs \ {bo[b].gem_handle}
        /\ bo[b].state \in {"destroying", "closed"} /\ bo'[b].state \in {"closed", "free"}
        /\ bo'[b].state # "closed"
    BY <1>2, <1>4, <1>5, <1>6
  <2>3. QED
    BY <2>1, <2>2, ClosedKept
<1>16. QED
  BY <1>9, <1>10, <1>11, <1>12, <1>13, <1>14, <1>15, OthersKept, SMTT(30) DEF Inv

\* The last buffer of the surface is freed, and the surface with it.
LEMMA FreeLastInv ==
  ASSUME Inv, NEW c \in Clients, GemCloseFree(c), NEW s \in Surfs, call[c].surf = s,
         ~(call[c].op = "surface_destroy" /\ call[c].bo = surf[s].bos[0])
  PROVE  Inv'
<1>1. call[c].at = "gem_close"
  BY DEF GemCloseFree
<1>2. PICK b \in Bos : /\ b = call[c].bo /\ bo[b].owner = c /\ bo[b].state = "closed"
                       /\ bo[b].gem_handle \in BufHandles /\ bo[b].surf = s
  BY <1>1, ClosingFacts, SMTT(30)
<1>3. /\ CloseHandle(bo[b].gem_handle) /\ UNCHANGED <<holder, held>>
      /\ exposed' = exposed \ {b} /\ call[c].at = "gem_close"
      /\ bo' = [bo EXCEPT ![b] = FreeBo(c)] /\ call' = [call EXCEPT ![c] = NoCall]
      /\ surf' = [surf EXCEPT ![s] = FreeSurf(c)]
      /\ NoCall \in Calls /\ NoCall.at = "idle" /\ NoCall.op = "none"
      /\ NoCall.bo = NoBo /\ NoCall.surf = NoSurf
  BY <1>2, GbmNullAssumption DEF GemCloseFree, Done, NoCall, Calls, Ops, Places
<1>4. /\ UNCHANGED <<mode, scanout>> /\ bufs' \in [BufHandles -> Mems \cup {NoMem}]
      /\ OpenBufs' = OpenBufs \ {bo[b].gem_handle}
  BY <1>2, <1>3, CloseFacts DEF Inv
<1>5. /\ bo' \in [Bos -> gbm_bo] /\ \A d \in Bos \ {b} : bo'[d] = bo[d]
      /\ bo'[b].state = "free" /\ bo'[b].owner = c
  BY <1>3, FreeStructure DEF Inv, GbmTypeOK
<1>6. /\ call' \in [Clients -> Calls] /\ \A d \in Clients \ {c} : call'[d] = call[d]
      /\ call'[c] = NoCall
  BY <1>3 DEF Inv, GbmTypeOK
<1>7. /\ surf' \in [Surfs -> gbm_surface] /\ \A t \in Surfs \ {s} : surf'[t] = surf[t]
      /\ surf'[s].state = "free" /\ surf'[s].owner = c
  BY <1>3, FreeSurface DEF Inv, GbmTypeOK
<1>8. /\ surf[s].state \in {"making", "destroying"} /\ surf[s].owner = c
      /\ b = surf[s].bos[1] \/ (b = surf[s].bos[0] /\ surf[s].bos[1] = NoBo)
  <2>1. /\ call[c].op \in {"surface_destroy", "surface_create"}
        /\ b = surf[s].bos[1] \/ b = surf[s].bos[0]
    BY <1>2, <1>3, GbmNullAssumption DEF Inv, CallInv, CallOK
  <2>2. CASE call[c].op = "surface_destroy"
    BY <1>2, <2>1, <2>2 DEF Inv, CallInv, CallOK, WorksFor
  <2>3. CASE call[c].op = "surface_create"
    <3>1. surf[s].state = "making" /\ surf[s].owner = c
      BY <2>3 DEF Inv, CallInv, CallOK, WorksFor
    <3>2. surf[s].bos[1] = NoBo
      BY <3>1 DEF Inv, SurfInv, SurfOK
    <3>3. QED
      BY <2>1, <3>1, <3>2
  <2>4. QED
    BY <2>1, <2>2, <2>3
<1>9. /\ \A d \in Bos \ {b} : bo[d].owner = c => bo[d].state \in {"free", "ready"}
      /\ \A t \in Surfs \ {s} : surf[t].owner = c => surf[t].state \in {"free", "ready"}
  BY <1>2, <1>3, ClosingFacts
<1>10. ASSUME NEW d \in Bos \ {b}, bo[d].surf = s PROVE bo[d].state = "free"
  <2>1. SUFFICES ASSUME bo[d].state # "free" PROVE FALSE
    OBVIOUS
  <2>2. BoOK(d) /\ bo[d].owner = c /\ bo[d].state # "new"
    BY <1>8, <1>9, <1>10, <2>1, GbmNullAssumption DEF Inv, BoInv, BoOK
  <2>3. d = surf[s].bos[0] /\ b = surf[s].bos[1]
    BY <1>8, <1>10, <2>1, <2>2, GbmNullAssumption DEF BoOK
  <2>4. surf[s].state = "destroying"
    BY <1>8, <2>3, GbmNullAssumption DEF Inv, SurfInv, SurfOK
  <2>5. QED
    BY <1>2, <1>8, <1>10, <2>1, <2>2, <2>3, <2>4, GbmNullAssumption DEF BoOK
<1>11. GbmTypeOK'
  BY <1>2, <1>3, <1>4, <1>5, <1>6, <1>7 DEF Inv, GbmTypeOK
<1>12. Local(c)
  BY <1>2, <1>5, <1>6, <1>7, <1>8 DEF Local
<1>13. CallOK(c)'
  BY <1>3, <1>6 DEF CallOK
<1>14. ASSUME NEW d \in Bos, bo'[d].owner = c PROVE BoOK(d)'
  <2>1. CASE d = b
    BY <1>5, <2>1 DEF BoOK
  <2>2. CASE d # b
    <3>1. BoOK(d) /\ bo'[d] = bo[d] /\ bo[d].owner = c /\ bo[d].state \in {"free", "ready"}
      BY <1>5, <1>9, <1>14, <2>2 DEF Inv, BoInv
    <3>2. bo[d].state # "free" /\ bo[d].surf # NoSurf =>
            surf[bo[d].surf].state = "ready" /\ surf'[bo[d].surf] = surf[bo[d].surf]
      BY <1>7, <1>9, <1>10, <2>2, <3>1 DEF Inv, BoOK, GbmTypeOK, gbm_bo
    <3>3. QED
      BY <3>1, <3>2 DEF BoOK
  <2>3. QED
    BY <2>1, <2>2
<1>15. ASSUME NEW t \in Surfs, surf'[t].owner = c PROVE SurfOK(t)'
  <2>1. CASE t = s
    BY <1>7, <2>1 DEF SurfOK
  <2>2. CASE t # s
    <3>1. SurfOK(t) /\ surf'[t] = surf[t] /\ surf[t].state \in {"free", "ready"}
      BY <1>7, <1>9, <1>15, <2>2 DEF Inv, SurfInv
    <3>2. surf[t].state = "ready" => \A i \in 0..1 : surf[t].bos[i] \in Bos /\ surf[t].bos[i] # b
      BY <1>2, <2>2, <3>1 DEF SurfOK
    <3>3. QED
      BY <1>5, <3>1, <3>2 DEF SurfOK
  <2>3. QED
    BY <2>1, <2>2
<1>16. HeldInv'
  <2>1. \A d \in held : bo'[d] = bo[d] /\ bo[d].surf # s
    BY <1>2, <1>5, <1>8 DEF Inv, HeldInv, GbmTypeOK
  <2>2. held' = held
    BY <1>3
  <2>3. QED
    BY <1>7, <2>1, <2>2 DEF Inv, HeldInv
<1>17. KeptInv' /\ HolderInv'
  BY <1>2, <1>3, <1>4, <1>5, ClosedKept DEF Alive
<1>18. QED
  BY <1>11, <1>12, <1>13, <1>14, <1>15, <1>16, <1>17, OthersKept DEF Inv

\* GEM_CLOSE, and what it is followed by.
LEMMA GemCloseInv ==
  ASSUME Inv, NEW c \in Clients, GemCloseFree(c)
  PROVE  Inv'
<1>1. call[c].surf \in Surfs \cup {NoSurf}
  BY DEF Inv, GbmTypeOK, Calls
<1>2. QED
  BY <1>1, FreeAloneInv, FreeFirstInv, FreeLastInv

-----------------------------------------------------------------------------
(* The properties.                                                          *)

\* No structure, no surface and no call at first.
LEMMA InitInv == GbmInit => Inv
<1> SUFFICES ASSUME GbmInit PROVE Inv
  OBVIOUS
<1>1. PICK c \in Clients : bo = [b \in Bos |-> FreeBo(c)] /\ surf = [s \in Surfs |-> FreeSurf(c)]
  BY DEF GbmInit
<1>2. \A b \in Bos : bo[b] \in gbm_bo /\ bo[b].state = "free"
  BY <1>1, FreeStructure
<1>3. \A s \in Surfs : surf[s] \in gbm_surface /\ surf[s].state = "free"
  BY <1>1, FreeSurface
<1>4. /\ NoCall \in Calls /\ NoCall.at = "idle" /\ NoCall.op = "none"
      /\ NoCall.bo = NoBo /\ NoCall.surf = NoSurf
  BY DEF NoCall, Calls, Ops, Places
<1>5. GbmTypeOK
  <2>1. bo \in [Bos -> gbm_bo] /\ surf \in [Surfs -> gbm_surface]
    BY <1>1, <1>2, <1>3
  <2>2. call \in [Clients -> Calls] /\ bufs \in [BufHandles -> Mems \cup {NoMem}]
    BY <1>4 DEF GbmInit, Closed
  <2>3. /\ mode = "up" /\ scanout \in 0..NumBOs /\ holder \in [BufHandles -> Bos \cup {NoBo}]
        /\ exposed \subseteq Bos /\ held \subseteq Bos
    BY GbmNullAssumption DEF GbmInit
  <2>4. QED
    BY <1>2, <2>1, <2>2, <2>3 DEF GbmTypeOK
<1>6. CallInv
  BY <1>4 DEF GbmInit, CallInv, CallOK
<1>7. BoInv /\ SurfInv
  BY <1>2, <1>3 DEF BoInv, BoOK, SurfInv, SurfOK
<1>8. HeldInv
  BY <1>3 DEF GbmInit, HeldInv
<1>9. KeptInv
  BY <1>2 DEF KeptInv, Alive
<1>10. HolderInv
  BY DEF GbmInit, Closed, OpenBufs, HolderInv
<1>11. QED
  BY <1>5, <1>6, <1>7, <1>8, <1>9, <1>10 DEF Inv

\* Nothing changes.
LEMMA StutterInv == Inv /\ UNCHANGED gbmvars => Inv'
<1> SUFFICES ASSUME Inv, UNCHANGED gbmvars PROVE Inv'
  OBVIOUS
<1>1. UNCHANGED <<mode, bufs, scanout, bo, surf, call, holder, exposed, held>>
  BY DEF gbmvars, dbvars, libvars
<1>2. GbmTypeOK' /\ HeldInv'
  BY <1>1 DEF Inv, GbmTypeOK, HeldInv
<1>3. CallInv' /\ BoInv' /\ SurfInv'
  BY <1>1, SMTT(20) DEF Inv, CallInv, CallOK, WorksOn, WorksFor, BoInv, BoOK, SurfInv, SurfOK
<1>4. KeptInv' /\ HolderInv'
  BY <1>1, HandlesKept
<1>5. QED
  BY <1>2, <1>3, <1>4 DEF Inv

\* Every call keeps the invariant at every ioctl.
LEMMA InvStep == Inv /\ [GbmNext]_gbmvars => Inv'
<1> SUFFICES ASSUME Inv, [GbmNext]_gbmvars PROVE Inv'
  OBVIOUS
<1>1. ASSUME NEW c \in Clients, Continue(c) PROVE Inv'
  BY <1>1, AllocCreateInv, AllocFailsInv, AllocMapInv, DestroyDumbInv, GemCloseInv, MmapInv DEF Continue
<1>2. ASSUME NEW c \in Clients, Begin(c) PROVE Inv'
  BY <1>2, BoCreateInv, SurfaceCreateInv, SurfaceDestroyInv, LockInv, BoDestroyInv, BoMapInv,
     SetCrtcInv, ReleaseInv DEF Begin
<1>3. CASE UNCHANGED gbmvars
  BY <1>3, StutterInv
<1>4. QED
  BY <1>1, <1>2, <1>3 DEF GbmNext

\* The invariant holds in every behaviour.
LEMMA InvAlways == GbmSpec => []Inv
  BY InitInv, InvStep, PTL DEF GbmSpec

\* The types, for any number of clients, handles, buffers and surfaces.
THEOREM GbmTypeCorrect == GbmSpec => []GbmTypeOK
<1>1. Inv => GbmTypeOK
  BY DEF Inv
<1>2. QED
  BY <1>1, InvAlways, PTL

\* The two closes of gbm_bo_destroy take no buffer from another client that was not
\* created on a handle an older structure still named.
THEOREM KeptUnlessExposedAlways == GbmSpec => []KeptUnlessExposed
<1>1. Inv => KeptUnlessExposed
  BY DEF Inv, KeptInv, KeptUnlessExposed
<1>2. QED
  BY <1>1, InvAlways, PTL

\* The first exposed structure is created while another client stands between the two
\* closes of one, and never otherwise.
THEOREM ExposureNeedsWindowAlways == GbmSpec => ExposureNeedsWindow
<1>1. ASSUME Inv, [GbmNext]_gbmvars, exposed = {}, exposed' # {}
      PROVE  \E c, d \in Clients : c # d /\ call[c].at = "alloc" /\ call[d].at = "gem_close"
  <2>1. PICK c \in Clients : AllocCreate(c)
    <3>1. ASSUME NEW c \in Clients, Begin(c) PROVE exposed' = exposed
      BY <3>1 DEF Begin, gbm_bo_create, gbm_surface_create, gbm_surface_destroy,
         gbm_surface_lock_front_buffer, gbm_bo_destroy, gbm_bo_map, drmModeSetCrtc, libvars,
         gbm_surface_release_buffer
    <3>2. ASSUME NEW c \in Clients, Continue(c), ~AllocCreate(c) PROVE exposed' \subseteq exposed
      BY <3>2 DEF Continue, AllocFails, AllocMap, DestroyDumb, GemCloseFree, MmapReturns
    <3>3. UNCHANGED gbmvars => exposed' = exposed
      BY DEF gbmvars, libvars
    <3>4. QED
      BY <1>1, <3>1, <3>2, <3>3, SMTT(30) DEF GbmNext
  <2>2. PICK h \in BufHandles, d \in Bos : /\ h \notin OpenBufs
                                         /\ bo[d].state # "free" /\ bo[d].gem_handle = h
    BY <1>1, <2>1 DEF AllocCreate, BufCreate
  <2>3. bo[d].state = "closed"
    <3>1. bo[d].state \notin Alive
      BY <1>1, <2>2 DEF Inv, KeptInv, Keeps
    <3>2. QED
      BY <1>1, <2>2, <3>1 DEF Alive, Inv, GbmTypeOK, gbm_bo, BoStates
  <2>4. PICK e \in Clients : e = bo[d].owner /\ call[e].bo = d
    BY <1>1, <2>3 DEF Inv, BoInv, BoOK, GbmTypeOK, gbm_bo
  <2>5. call[e].at = "gem_close"
    BY <1>1, <2>3, <2>4, GbmNullAssumption
       DEF Inv, CallInv, CallOK, WorksOn, NoCall, GbmTypeOK, Calls, Places
  <2>6. call[c].at = "alloc"
    BY <2>1 DEF AllocCreate
  <2>7. QED
    BY <2>5, <2>6
<1>2. QED
  BY <1>1, InvAlways, PTL DEF GbmSpec, ExposureNeedsWindow

\* Every open handle belongs to a structure that is still allocated, and every buffer of a
\* surface is in it or in a call's hands.
THEOREM NoLeakAlways == GbmSpec => []NoLeak
<1>1. ASSUME Inv PROVE NoLeak
  <2>1. ASSUME NEW h \in OpenBufs
        PROVE  holder[h] # NoBo /\ bo[holder[h]].state # "free" /\ bo[holder[h]].gem_handle = h
    BY <1>1, GbmNullAssumption DEF Inv, HolderInv
  <2>2. ASSUME NEW b \in Bos, bo[b].state # "free", bo[b].surf # NoSurf
        PROVE  /\ surf[bo[b].surf].state # "free"
               /\ \/ \E i \in 0..1 : surf[bo[b].surf].bos[i] = b
                  \/ \E c \in Clients : call[c].bo = b
    <3>1. BoOK(b) /\ bo[b].owner \in Clients
      BY <1>1 DEF Inv, BoInv, GbmTypeOK, gbm_bo
    <3>2. QED
      BY <2>2, <3>1 DEF BoOK
  <2>3. QED
    BY <2>1, <2>2 DEF NoLeak
<1>2. QED
  BY <1>1, InvAlways, PTL

\* What lock_front_buffer hands out is a live buffer of that surface, and nobody has it.
THEOREM SurfaceBuffersAlways == GbmSpec => []SurfaceBuffers
<1>1. ASSUME Inv, NEW s \in Surfs, surf[s].state = "ready"
      PROVE  /\ surf[s].bos[0] # surf[s].bos[1]
             /\ \A i \in 0..1 : bo[surf[s].bos[i]].state = "ready" /\ bo[surf[s].bos[i]].surf = s
             /\ {b \in held : bo[b].surf = s} =
                  IF surf[s].locked THEN {surf[s].bos[surf[s].front]} ELSE {}
  <2>1. SurfOK(s)
    BY <1>1 DEF Inv, SurfInv
  <2>2. CASE surf[s].locked
    <3>1. /\ surf[s].front \in 0..1 /\ surf[s].bos[surf[s].front] \in held
          /\ \A b \in held : bo[b].surf = s => b = surf[s].bos[surf[s].front]
      BY <1>1, <2>2 DEF Inv, HeldInv
    <3>2. bo[surf[s].bos[surf[s].front]].surf = s
      BY <1>1, <2>1, <3>1 DEF SurfOK
    <3>3. {b \in held : bo[b].surf = s} = {surf[s].bos[surf[s].front]}
      BY <3>1, <3>2
    <3>4. QED
      BY <1>1, <2>1, <2>2, <3>3 DEF SurfOK
  <2>3. CASE ~surf[s].locked
    <3>1. {b \in held : bo[b].surf = s} = {}
      BY <1>1, <2>3 DEF Inv, HeldInv
    <3>2. QED
      BY <1>1, <2>1, <2>3, <3>1 DEF SurfOK
  <2>4. QED
    BY <2>2, <2>3
<1>2. Inv => SurfaceBuffers
  BY <1>1 DEF SurfaceBuffers
<1>3. QED
  BY <1>2, InvAlways, PTL
=============================================================================
