------------------------ MODULE ShellSurfacesProofs ------------------------
(* What holds of the shell's surfaces for any number of panels and          *)
(* wallpapers.                                                              *)
EXTENDS ShellSurfaces, FiniteSetTheorems, WellFoundedInduction, TLAPS

-----------------------------------------------------------------------------
(* Descriptors: the lowest free number is a free number.                    *)

LEMMA MinOfNat ==
  ASSUME NEW S \in SUBSET Nat, S # {}
  PROVE  Min(S) \in S
<1>1. OpToRel(<, Nat) = {ss \in Nat \X Nat : ss[1] < ss[2]}
  BY DEF OpToRel
<1> DEFINE R == {ss \in Nat \X Nat : ss[1] < ss[2]}
<1>2. IsWellFoundedOn(R, Nat)
  BY <1>1, NatLessThanWellFounded
<1> HIDE DEF R
<1>3. PICK x \in S : \A y \in S : ~(<<y, x>> \in R)
  BY <1>2, WFMin
<1>4. ASSUME NEW y \in S PROVE x <= y
  <2>1. x \in Nat /\ y \in Nat
    OBVIOUS
  <2>2. y < x => <<y, x>> \in R
    BY <2>1 DEF R
  <2>3. QED
    BY <1>3, <2>1, <2>2
<1>5. QED
  BY <1>4 DEF Min

\* Descriptors are numbers from 0 on, and -1 is none of them.
LEMMA FdsFacts == Fds \subseteq Nat /\ 0 \in Fds /\ -1 \notin Fds
<1>1. Cardinality(Surfaces) \in Nat
  BY KindsAssumption, FS_CardinalityType
<1>2. QED
  BY <1>1 DEF Fds

-----------------------------------------------------------------------------
(* Types, and what is counted: a mapping is there exactly for pixels that   *)
(* are mapped, and, as long as the process lives, a wl_buffer exactly for   *)
(* pixels that are not NULL.                                                *)

Pixels == {"null", "mapped", "failed", "dangling"}
luna   == [live : BOOLEAN, configured : BOOLEAN, visible : BOOLEAN, pixels : Pixels,
           shm_fd : Fds \cup {-1}]
Table  == [Fds -> Surfaces \cup {Stdin, Unused}]

Roles  == {"none", "fresh", "waiting", "configured", "mapped", "closed"}
Shows  == {"none", "buffer", "gone"}
Ends   == {"no", "crash", "protocol error", "aborted"}
Flags  == /\ earlyDestroy \in BOOLEAN /\ failed \in BOOLEAN
          /\ hidden \in BOOLEAN /\ wrongClose \in BOOLEAN

Typed ==
  /\ obj \in [Surfaces -> luna] /\ role \in [Surfaces -> Roles]
  /\ shown \in [Surfaces -> Shows] /\ inflight \subseteq Surfaces
  /\ buffers \in [Surfaces -> {0, 1}] /\ memory \in [Surfaces -> {0, 1}]
  /\ fds \in Table /\ ended \in Ends /\ Flags

\* The parts of the type invariant are TypeOK.
LEMMA TypedIsTypeOK == Typed => TypeOK
  BY DEF Typed, TypeOK, luna, Pixels, Roles, Shows, Table, Ends, Flags

Mapped(p)   == IF p = "mapped" THEN 1 ELSE 0
Buffered(p) == IF p \in {"mapped", "failed"} THEN 1 ELSE 0

Counted == \A s \in Surfaces : /\ memory[s] = Mapped(obj[s].pixels)
                               /\ Alive => /\ obj[s].pixels # "dangling"
                                           /\ buffers[s] = Buffered(obj[s].pixels)

\* The compositor knows the surfaces that exist.
Known == \A s \in Surfaces : /\ role[s] = "none" <=> ~obj[s].live
                             /\ ~obj[s].live => obj[s] = Absent
                             /\ s \in inflight => role[s] # "none"

TypeInv == Typed /\ Counted /\ Known

\* Closing a descriptor leaves a descriptor table.
LEMMA FreedType ==
  ASSUME fds \in Table, NEW f \in Fds \cup {-1}
  PROVE  Freed(f) \in Table
<1>1. Used(f) => f \in Fds
  BY FdsFacts DEF Used
<1>2. QED
  BY <1>1 DEF Freed, Table

\* What a configure finds when it has given back the old buffer.
LEMMA OldFacts ==
  ASSUME TypeInv, Alive, NEW s \in Surfaces
  PROVE  Old(s).memory = 0 /\ Old(s).buffers = 0 /\ Old(s).fds \in Table
<1>1. /\ obj[s] \in luna /\ fds \in Table
      /\ memory[s] = Mapped(obj[s].pixels) /\ buffers[s] = Buffered(obj[s].pixels)
      /\ obj[s].pixels # "dangling"
  BY DEF TypeInv, Typed, Counted, luna, Pixels, Table
<1>2. Freed(obj[s].shm_fd) \in Table
  BY <1>1, FreedType DEF luna
<1>3. CASE obj[s].pixels = "null"
  BY <1>1, <1>3 DEF Old, Mapped, Buffered
<1>4. CASE obj[s].pixels # "null"
  BY <1>1, <1>2, <1>4 DEF Old, GiveBack, Mapped, Buffered, luna, Pixels
<1>5. QED
  BY <1>3, <1>4

\* The outcomes of a configure, one by one; Opened: the lowest free descriptor is now
\* that of the surface.
Opened(s, r) == /\ r.shm_fd \in Fds /\ Old(s).fds[r.shm_fd] = Unused
                /\ r.fds = [Old(s).fds EXCEPT ![r.shm_fd] = s]

Outcome(s, r) ==
  \/ r.pixels = "mapped" /\ r.buffers = 1 /\ Opened(s, r) /\ ~r.aborts
  \/ /\ s \in Panels /\ r.pixels = "failed" /\ r.buffers = 0
     /\ r.shm_fd \in Fds /\ r.fds = Old(s).fds /\ ~r.aborts
  \/ s \notin Panels /\ r.pixels = "failed" /\ r.buffers = 1 /\ Opened(s, r) /\ ~r.aborts
  \/ /\ s \notin Panels /\ r.pixels = "failed" /\ r.buffers = 0
     /\ r.shm_fd = -1 /\ r.fds = Old(s).fds /\ r.aborts
  \/ /\ s \in Panels /\ r.shm_fd = -1 /\ r.fds = Old(s).fds /\ ~r.aborts /\ r.buffers = 0
     /\ r.pixels = IF obj[s].pixels = "null" THEN "null" ELSE "dangling"

LEMMA NewBuffersFacts ==
  ASSUME TypeInv, Alive, NEW s \in Surfaces, NEW r \in NewBuffers(s)
  PROVE  r.memory = Mapped(r.pixels) /\ Outcome(s, r)
<1> DEFINE old  == Old(s)
           free == {f \in Fds : old.fds[f] = Unused}
           m    == Min(free)
<1>1. old.memory = 0 /\ old.buffers = 0 /\ old.fds \in Table
  BY OldFacts
<1>2. free # {} => m \in free
  BY FdsFacts, MinOfNat
<1> DEFINE noShm == [pixels |-> IF s \notin Panels THEN "failed"
                              ELSE IF obj[s].pixels = "null" THEN "null" ELSE "dangling",
                    shm_fd |-> -1, memory |-> old.memory, buffers |-> old.buffers,
                    fds |-> old.fds, aborts |-> -1 = -1 /\ s \notin Panels]
           good  == [pixels |-> "mapped", shm_fd |-> m, memory |-> old.memory + 1,
                     buffers |-> old.buffers + 1, fds |-> [old.fds EXCEPT ![m] = s],
                     aborts |-> m = -1 /\ s \notin Panels]
           noMapPanel == [pixels |-> "failed", shm_fd |-> m, memory |-> old.memory,
                          buffers |-> old.buffers, fds |-> old.fds,
                          aborts |-> m = -1 /\ s \notin Panels]
           noMapOther == [pixels |-> "failed", shm_fd |-> m, memory |-> old.memory,
                          buffers |-> old.buffers + 1, fds |-> [old.fds EXCEPT ![m] = s],
                          aborts |-> m = -1 /\ s \notin Panels]
<1>3. \/ r = noShm
      \/ free # {} /\ r = good
      \/ free # {} /\ s \in Panels /\ r = noMapPanel
      \/ free # {} /\ s \notin Panels /\ r = noMapOther
  BY DEF NewBuffers
<1>4. free # {} => m \in Fds /\ m # -1 /\ old.fds[m] = Unused
  BY <1>2, FdsFacts
<1>5. old = Old(s)
  OBVIOUS
<1> HIDE DEF m, free, old
<1>6. CASE r = noShm
  BY <1>1, <1>5, <1>6 DEF Mapped, Outcome
<1>7. CASE free # {} /\ r = good
  <2>1. /\ r.pixels = "mapped" /\ r.shm_fd = m /\ r.memory = 1 /\ r.buffers = 1
        /\ r.fds = [old.fds EXCEPT ![m] = s] /\ ~r.aborts
    <3>1. ~r.aborts
      BY <1>4, <1>7
    <3>2. r.memory = old.memory + 1 /\ r.buffers = old.buffers + 1
      BY <1>1, <1>7
    <3>3. r.fds = [old.fds EXCEPT ![m] = s]
      BY <1>7
    <3>4. QED
      BY <1>1, <1>7, <3>1, <3>2, <3>3
  <2>2. QED
    BY <1>4, <1>5, <1>7, <2>1 DEF Mapped, Outcome, Opened
<1>8. CASE free # {} /\ s \in Panels /\ r = noMapPanel
  BY <1>1, <1>4, <1>5, <1>8 DEF Mapped, Outcome
<1>9. CASE free # {} /\ s \notin Panels /\ r = noMapOther
  <2>1. /\ r.pixels = "failed" /\ r.shm_fd = m /\ r.memory = 0 /\ r.buffers = 1
        /\ r.fds = [old.fds EXCEPT ![m] = s] /\ ~r.aborts
    <3>1. ~r.aborts
      BY <1>4, <1>9
    <3>2. r.memory = old.memory + 0 /\ r.buffers = old.buffers + 1
      BY <1>1, <1>9
    <3>3. r.fds = [old.fds EXCEPT ![m] = s]
      BY <1>9
    <3>4. QED
      BY <1>1, <1>9, <3>1, <3>2, <3>3
  <2>2. QED
    BY <1>4, <1>5, <1>9, <2>1 DEF Mapped, Outcome, Opened
<1>10. QED
  BY <1>3, <1>6, <1>7, <1>8, <1>9

\* What Draw does with a surface that the compositor knows.
LEMMA DrawType ==
  ASSUME NEW s \in Surfaces, NEW STATE r, NEW STATE p, r \in Roles \ {"none"}, Alive,
         role \in [Surfaces -> Roles], shown \in [Surfaces -> Shows],
         Draw(s, r, p)
  PROVE  /\ role' \in [Surfaces -> Roles] /\ ended' \in Ends
         /\ shown' \in [Surfaces -> Shows]
         /\ \/ UNCHANGED <<role, shown>>
            \/ role' = [role EXCEPT ![s] = "mapped"] /\ shown' = [shown EXCEPT ![s] = "buffer"]
         /\ Alive' => p = "mapped"
         /\ ended' \in {"crash", "aborted"} => p # "mapped"
         /\ ended' = "protocol error" => r \in {"fresh", "waiting"}
         /\ Alive' /\ r \in {"configured", "mapped"} => role'[s] = "mapped"
  BY DEF Draw, Roles, Shows, Ends, Alive

\* The invariant TypeInv holds at the start,
LEMMA InitTypeInv == Init => TypeInv
<1> SUFFICES ASSUME Init PROVE TypeInv
  OBVIOUS
<1>1. \A s \in Surfaces : obj[s] = Absent /\ Absent \in luna /\ role[s] = "none"
  BY DEF Init, Absent, luna, Pixels
<1>2. Typed
  BY <1>1, FdsFacts DEF Init, Typed, Roles, Shows, Ends, Flags, Table
<1>3. Counted
  BY <1>1 DEF Init, Counted, Absent, Mapped, Buffered
<1>4. QED
  BY <1>1, <1>2, <1>3 DEF TypeInv, Known, Absent, Init

\* What a surface gives back when it is destroyed.
LEMMA GiveBackFacts ==
  ASSUME TypeInv, Alive, NEW s \in Surfaces
  PROVE  GiveBack(s).memory = 0 /\ GiveBack(s).buffers = 0 /\ GiveBack(s).fds \in Table
<1>1. /\ obj[s] \in luna /\ fds \in Table
      /\ memory[s] = Mapped(obj[s].pixels) /\ buffers[s] = Buffered(obj[s].pixels)
      /\ obj[s].pixels # "dangling"
  BY DEF TypeInv, Typed, Counted, luna, Pixels, Table
<1>2. Freed(obj[s].shm_fd) \in Table
  BY <1>1, FreedType DEF luna
<1>3. QED
  BY <1>1, <1>2 DEF GiveBack, Mapped, Buffered, luna, Pixels

\* and every action preserves it:
LEMMA CreateType == ASSUME TypeInv, NEW s \in Surfaces, Create(s) PROVE TypeInv'
<1>1. Created(s) \in luna /\ Created(s).pixels = "null" /\ Created(s).live
  BY FdsFacts DEF Created, Absent, InitialFd, luna, Pixels
<1>2. obj[s].pixels = "null"
  BY DEF Create, TypeInv, Known, Absent
<1>3. Counted'
  BY <1>1, <1>2 DEF Create, TypeInv, Typed, Counted, Alive, kernel
<1>4. Typed'
  BY <1>1 DEF Create, TypeInv, Typed, Roles, Flags, kernel, history
<1>5. Known'
  BY <1>1 DEF Create, TypeInv, Typed, Known
<1>6. QED
  BY <1>3, <1>4, <1>5 DEF TypeInv

\* a destruction,
LEMMA DestroyType == ASSUME TypeInv, NEW s \in Surfaces, Destroy(s) PROVE TypeInv'
<1>1. GiveBack(s).memory = 0 /\ GiveBack(s).buffers = 0 /\ GiveBack(s).fds \in Table
  BY GiveBackFacts DEF Destroy
<1>2. Absent \in luna /\ Absent.pixels = "null" /\ ~Absent.live
  BY DEF Absent, luna, Pixels
<1>3. Typed'
  BY <1>1, <1>2 DEF Destroy, TypeInv, Typed, Roles, Shows, Flags
<1>4. Counted'
  BY <1>1, <1>2 DEF Destroy, TypeInv, Typed, Counted, Alive, Mapped, Buffered
<1>5. Known'
  BY <1>2 DEF Destroy, TypeInv, Typed, Known
<1>6. QED
  BY <1>3, <1>4, <1>5 DEF TypeInv

\* the redraw of a panel,
LEMMA RenderType ==
  ASSUME TypeInv, NEW s \in Panels, luna_panel_render(s) PROVE TypeInv'
<1>1. s \in Surfaces /\ Alive /\ role[s] \in Roles \ {"none"}
  BY DEF luna_panel_render, TypeInv, Typed, Known, Roles, Surfaces
<1>2. role' \in [Surfaces -> Roles] /\ ended' \in Ends
      /\ shown' \in [Surfaces -> Shows]
  <2>1. CASE Drawable(s)
    BY <1>1, <2>1, DrawType DEF luna_panel_render, TypeInv, Typed, Roles
  <2>2. CASE ~Drawable(s)
    BY <2>2 DEF luna_panel_render, TypeInv, Typed, Roles, Ends
  <2>3. QED
    BY <2>1, <2>2
<1>3. \A t \in Surfaces : role'[t] = "none" <=> role[t] = "none"
  <2>1. CASE Drawable(s)
    BY <1>1, <2>1, DrawType DEF luna_panel_render, TypeInv, Typed, Roles
  <2>2. CASE ~Drawable(s)
    BY <2>2 DEF luna_panel_render
  <2>3. QED
    BY <2>1, <2>2
<1>4. Typed'
  BY <1>2 DEF luna_panel_render, TypeInv, Typed, Flags, kernel, history
<1>5. Counted' /\ Known'
  BY <1>1, <1>3 DEF luna_panel_render, TypeInv, Counted, Known, Alive, kernel
<1>6. QED
  BY <1>4, <1>5 DEF TypeInv

\* the launcher being shown
LEMMA ShowType ==
  ASSUME TypeInv, NEW s \in Launchers, luna_launcher_show(s) PROVE TypeInv'
<1>1. s \in Surfaces /\ Alive /\ Committed(role[s]) \in Roles \ {"none"}
  BY DEF luna_launcher_show, TypeInv, Typed, Known, Roles, Surfaces, Committed
<1>2. role' \in [Surfaces -> Roles] /\ ended' \in Ends
      /\ shown' \in [Surfaces -> Shows]
      /\ \A t \in Surfaces : role'[t] = "none" <=> role[t] = "none"
  <2>1. CASE Drawable(s)
    <3>1. Draw(s, Committed(role[s]), obj[s].pixels) /\ Alive
      BY <2>1 DEF luna_launcher_show
    <3>2. role[s] # "none"
      BY <1>1 DEF luna_launcher_show, TypeInv, Known
    <3>3. role \in [Surfaces -> Roles] /\ shown \in [Surfaces -> Shows]
      BY DEF TypeInv, Typed
    <3>4. /\ role' \in [Surfaces -> Roles] /\ ended' \in Ends
          /\ shown' \in [Surfaces -> Shows]
          /\ role' = role \/ role' = [role EXCEPT ![s] = "mapped"]
      BY <1>1, <3>1, <3>3, DrawType
    <3>5. QED
      BY <1>1, <3>2, <3>3, <3>4
  <2>2. CASE ~Drawable(s)
    <3>1. role' = [role EXCEPT ![s] = Committed(role[s])] /\ UNCHANGED <<shown, ended>>
      BY <2>2 DEF luna_launcher_show
    <3>2. role[s] # "none"
      BY <1>1 DEF luna_launcher_show, TypeInv, Known
    <3>3. QED
      BY <1>1, <3>1, <3>2 DEF Typed, TypeInv
  <2>3. QED
    BY <2>1, <2>2
<1>3. obj' \in [Surfaces -> luna]
  <2>1. obj[s] \in luna /\ obj \in [Surfaces -> luna]
    BY <1>1 DEF TypeInv, Typed
  <2>2. obj' = [obj EXCEPT ![s] = [obj[s] EXCEPT !.visible = TRUE]]
    BY <1>1 DEF luna_launcher_show
  <2>3. [obj[s] EXCEPT !.visible = TRUE] \in luna
    BY <2>1 DEF luna
  <2>4. QED
    BY <2>1, <2>2, <2>3
<1>4. \A t \in Surfaces : obj'[t].pixels = obj[t].pixels /\ obj'[t].live = obj[t].live
                          /\ (~obj[t].live => obj'[t] = obj[t])
  BY DEF luna_launcher_show, TypeInv, Typed
<1>5. Typed'
  BY <1>2, <1>3 DEF luna_launcher_show, TypeInv, Typed, Flags, kernel, history
<1>6. Counted' /\ Known'
  BY <1>1, <1>2, <1>4 DEF luna_launcher_show, TypeInv, Counted, Known, Alive, kernel
<1>7. QED
  BY <1>5, <1>6 DEF TypeInv

\* and hidden,
LEMMA HideType ==
  ASSUME TypeInv, NEW s \in Launchers, luna_launcher_hide(s) PROVE TypeInv'
<1>1. s \in Surfaces /\ role[s] \in Roles \ {"none"}
  BY DEF luna_launcher_hide, TypeInv, Typed, Known, Roles, Surfaces
<1>2. role' \in [Surfaces -> Roles]
      /\ \A t \in Surfaces : role'[t] = "none" <=> role[t] = "none"
  BY <1>1 DEF luna_launcher_hide, TypeInv, Typed, Roles, Committed
<1>3. obj' \in [Surfaces -> luna]
  <2>1. obj[s] \in luna /\ obj \in [Surfaces -> luna]
    BY <1>1 DEF TypeInv, Typed
  <2>2. obj' = [obj EXCEPT ![s] = [obj[s] EXCEPT !.visible = FALSE]]
    BY <1>1 DEF luna_launcher_hide
  <2>3. [obj[s] EXCEPT !.visible = FALSE] \in luna
    BY <2>1 DEF luna
  <2>4. QED
    BY <2>1, <2>2, <2>3
<1>4. \A t \in Surfaces : obj'[t].pixels = obj[t].pixels /\ obj'[t].live = obj[t].live
                          /\ (~obj[t].live => obj'[t] = obj[t])
  BY DEF luna_launcher_hide, TypeInv, Typed
<1>5. Typed'
  <2>1. shown' \in [Surfaces -> Shows] /\ Flags' /\ inflight' \subseteq Surfaces
    BY DEF Typed, luna_launcher_hide, TypeInv, Flags, Shows, kernel
  <2>2. UNCHANGED <<buffers, memory, fds, ended>>
    BY DEF luna_launcher_hide, kernel
  <2>3. QED
    BY <1>2, <1>3, <2>1, <2>2 DEF TypeInv, Typed, luna, Pixels, Roles, Shows, Table, Ends, Flags
<1>6. Counted' /\ Known'
  BY <1>2, <1>4 DEF luna_launcher_hide, TypeInv, Counted, Known, Alive, kernel
<1>7. QED
  BY <1>5, <1>6 DEF TypeInv

\* What a configure does with an outcome.
Replaced(s, r) ==
  /\ obj' = [obj EXCEPT ![s].configured = TRUE, ![s].pixels = r.pixels, ![s].shm_fd = r.shm_fd]
  /\ memory' = [memory EXCEPT ![s] = r.memory]
  /\ buffers' = [buffers EXCEPT ![s] = r.buffers]
  /\ fds' = r.fds
  /\ wrongClose' = (wrongClose \/ (obj[s].pixels # "null" /\ ClosesOther(s)))
  /\ failed' = (failed \/ r.pixels \notin {"mapped", "null"})
  /\ IF r.aborts THEN ended' = "aborted" /\ UNCHANGED <<role, shown>>
     ELSE IF Redraws(s, r.pixels) THEN Draw(s, Acked(s), r.pixels)
     ELSE /\ role' = [role EXCEPT ![s] = Acked(s)]
          /\ shown' = [shown EXCEPT ![s] = IF @ = "buffer" THEN "gone" ELSE @]
          /\ UNCHANGED ended

\* A configure is one of the outcomes of NewBuffers;
LEMMA ConfigureSteps ==
  ASSUME NEW s \in Surfaces, Configure(s)
  PROVE  \E r \in NewBuffers(s) : Replaced(s, r)
  BY DEF Configure, Replaced

\* it preserves TypeInv whichever that is.
LEMMA ConfigureType == ASSUME TypeInv, NEW s \in Surfaces, Configure(s) PROVE TypeInv'
<1>1. PICK r \in NewBuffers(s) : Replaced(s, r)
  BY ConfigureSteps
<1>2. Alive /\ Acked(s) \in Roles \ {"none"} /\ obj[s].live /\ role[s] # "none"
  BY DEF Configure, TypeInv, Typed, Known, Roles, Acked
<1>3. r.memory = Mapped(r.pixels) /\ Outcome(s, r)
  BY <1>2, NewBuffersFacts
<1>4. Old(s).fds \in Table
  BY <1>2, OldFacts
<1>5. r.pixels \in Pixels /\ r.shm_fd \in Fds \cup {-1} /\ r.fds \in Table
      /\ r.memory \in {0, 1} /\ r.buffers \in {0, 1}
  BY <1>3, <1>4 DEF Outcome, Opened, Mapped, Pixels, Table
<1>6. /\ role' \in [Surfaces -> Roles] /\ ended' \in Ends
      /\ shown' \in [Surfaces -> Shows]
      /\ \A t \in Surfaces : role'[t] = "none" <=> role[t] = "none"
      /\ Alive' => ~r.aborts /\ (Redraws(s, r.pixels) => r.pixels = "mapped")
  <2>1. CASE r.aborts
    <3>1. ended' = "aborted" /\ role' = role /\ shown' = shown
      BY <1>1, <2>1 DEF Replaced
    <3>2. QED
      BY <3>1 DEF Typed, TypeInv, Ends, Alive
  <2>2. CASE ~r.aborts /\ Redraws(s, r.pixels)
    <3>1. Draw(s, Acked(s), r.pixels)
      BY <1>1, <2>2 DEF Replaced
    <3>2. /\ role' \in [Surfaces -> Roles] /\ ended' \in Ends
          /\ shown' \in [Surfaces -> Shows]
          /\ role' = role \/ role' = [role EXCEPT ![s] = "mapped"]
          /\ Alive' => r.pixels = "mapped"
      BY <1>2, <3>1, DrawType DEF Typed, TypeInv
    <3>3. QED
      BY <1>2, <2>2, <3>2 DEF Typed, TypeInv
  <2>3. CASE ~r.aborts /\ ~Redraws(s, r.pixels)
    BY <1>1, <1>2, <2>3 DEF Replaced, Typed, TypeInv, Shows
  <2>4. QED
    BY <2>1, <2>2, <2>3
<1>7. /\ obj' \in [Surfaces -> luna]
      /\ obj'[s].pixels = r.pixels /\ obj'[s].live
      /\ \A t \in Surfaces \ {s} : obj'[t] = obj[t]
  <2>1. obj[s] \in luna /\ obj \in [Surfaces -> luna]
    BY DEF Typed, TypeInv
  <2>2. obj' = [obj EXCEPT ![s] = [obj[s] EXCEPT !.configured = TRUE, !.pixels = r.pixels,
                                                 !.shm_fd = r.shm_fd]]
    BY <1>1, <2>1 DEF Replaced, luna
  <2>3. [obj[s] EXCEPT !.configured = TRUE, !.pixels = r.pixels, !.shm_fd = r.shm_fd] \in luna
    BY <1>5, <2>1 DEF luna
  <2>4. QED
    BY <1>2, <2>1, <2>2, <2>3 DEF luna
<1>8. Typed'
  <2>1. inflight' \subseteq Surfaces /\ Flags'
    BY <1>1, <1>2 DEF Replaced, Typed, Configure, TypeInv, Flags
  <2>2. memory' \in [Surfaces -> {0, 1}] /\ buffers' \in [Surfaces -> {0, 1}]
    BY <1>1, <1>5 DEF Replaced, Typed, TypeInv
  <2>3. QED
    BY <1>1, <1>5, <1>6, <1>7, <2>1, <2>2
       DEF Replaced, Typed, Roles, Shows, Ends, luna, Pixels, Table, Flags
<1>9. Counted'
  <2>1. Alive' => r.pixels # "dangling" /\ r.buffers = Buffered(r.pixels)
    <3>1. r.pixels \in {"failed", "dangling"} /\ s \in Panels => Redraws(s, r.pixels)
      BY KindsAssumption DEF Redraws
    <3>2. QED
      BY <1>3, <1>6, <3>1 DEF Outcome, Buffered
  <2>2. memory'[s] = r.memory /\ buffers'[s] = r.buffers
        /\ \A t \in Surfaces \ {s} : memory'[t] = memory[t] /\ buffers'[t] = buffers[t]
    BY <1>1 DEF Replaced, Typed, TypeInv
  <2>3. QED
    BY <1>2, <1>3, <1>7, <2>1, <2>2 DEF Counted, TypeInv
<1>10. Known'
  <2>1. inflight' = inflight \ {s}
    BY DEF Configure
  <2>2. QED
    BY <1>2, <1>6, <1>7, <2>1 DEF Known, TypeInv
<1>11. QED
  BY <1>8, <1>9, <1>10 DEF TypeInv

\* So does every step.
LEMMA StepTypeInv == TypeInv /\ [Next]_vars => TypeInv'
<1> SUFFICES ASSUME TypeInv, [Next]_vars PROVE TypeInv'
  OBVIOUS
<1>1. ASSUME NEW s \in Surfaces, SendConfigure(s) PROVE TypeInv'
  BY <1>1 DEF SendConfigure, TypeInv, Typed, Counted, Known, Flags, kernel, history, Alive
<1>2. ASSUME NEW s \in Surfaces, Closed(s) PROVE TypeInv'
  <2>1. Typed'
    BY <1>2 DEF Closed, TypeInv, Typed, Roles, Shows, Flags, kernel, history
  <2>2. Counted' /\ Known'
    BY <1>2 DEF Closed, TypeInv, Typed, Counted, Known, kernel, Alive
  <2>3. QED
    BY <2>1, <2>2 DEF TypeInv
<1>3. CASE UNCHANGED vars
  BY <1>3 DEF TypeInv, Typed, Counted, Known, Flags, vars, server, kernel, history, Alive
<1>4. QED
  BY <1>1, <1>2, <1>3, CreateType, DestroyType, ConfigureType, RenderType, ShowType, HideType
     DEF Next

\* The types, for any number of surfaces.
THEOREM TypeCorrect == Spec => []TypeOK
<1>1. TypeInv => TypeOK
  BY TypedIsTypeOK DEF TypeInv
<1>2. QED
  BY <1>1, InitTypeInv, StepTypeInv, PTL DEF Spec

\* The parts of TypeInv, on which the other invariants rest, hold always.
THEOREM TypeInvAlways == Spec => []TypeInv
  BY InitTypeInv, StepTypeInv, PTL DEF Spec

-----------------------------------------------------------------------------
(* Buffers on the screen.                                                   *)

\* What is mapped was drawn, and the next configure draws it again.
Shown == \A s \in Surfaces :
           Alive /\ role[s] = "mapped" => /\ shown[s] = "buffer"
                                          /\ s \in Launchers => obj[s].visible
                                          /\ s \in Panels => obj[s].pixels # "null"

\* No step leaves a destroyed buffer on the screen of a live process.
LEMMA StepShown == TypeInv /\ Shown /\ [Next]_vars => Shown'
<1> SUFFICES ASSUME TypeInv, Shown, [Next]_vars PROVE Shown'
  OBVIOUS
<1>1. ASSUME NEW s \in Surfaces, Create(s) PROVE Shown'
  BY <1>1 DEF Create, Shown, TypeInv, Typed, Alive
<1>2. ASSUME NEW s \in Surfaces, Destroy(s) PROVE Shown'
  BY <1>2 DEF Destroy, Shown, TypeInv, Typed, Alive
<1>3. ASSUME NEW s \in Surfaces, SendConfigure(s) PROVE Shown'
  BY <1>3 DEF SendConfigure, Shown, Alive
<1>4. ASSUME NEW s \in Surfaces, Closed(s) PROVE Shown'
  BY <1>4 DEF Closed, Shown, TypeInv, Typed, Alive
<1>5. ASSUME NEW s \in Panels, luna_panel_render(s) PROVE Shown'
  <2>1. CASE Drawable(s)
    <3>1. /\ s \in Surfaces /\ s \notin Launchers /\ Alive /\ obj' = obj
          /\ Draw(s, role[s], obj[s].pixels) /\ obj[s].pixels # "null"
          /\ role[s] \in Roles \ {"none"}
      BY <1>5, <2>1, KindsAssumption
         DEF luna_panel_render, Drawable, Surfaces, TypeInv, Typed, Known
    <3>2. \/ UNCHANGED <<role, shown>>
          \/ role' = [role EXCEPT ![s] = "mapped"] /\ shown' = [shown EXCEPT ![s] = "buffer"]
      BY <3>1, DrawType DEF TypeInv, Typed
    <3>3. QED
      BY <3>1, <3>2 DEF Shown, TypeInv, Typed, Alive
  <2>2. CASE ~Drawable(s)
    BY <1>5, <2>2 DEF luna_panel_render, Shown, Alive
  <2>3. QED
    BY <2>1, <2>2
<1>6. ASSUME NEW s \in Launchers, luna_launcher_show(s) PROVE Shown'
  <2>1. s \in Surfaces /\ s \notin Panels
    BY KindsAssumption DEF Surfaces
  <2>2. /\ obj'[s].visible /\ \A t \in Surfaces : obj'[t].pixels = obj[t].pixels
        /\ \A t \in Surfaces \ {s} : obj'[t] = obj[t]
    BY <1>6, <2>1 DEF luna_launcher_show, TypeInv, Typed, luna
  <2>3. CASE Drawable(s)
    <3>1. Draw(s, Committed(role[s]), obj[s].pixels) /\ Alive
      BY <1>6, <2>3 DEF luna_launcher_show
    <3>2. Committed(role[s]) \in Roles \ {"none"}
      BY <1>6, <2>1 DEF luna_launcher_show, TypeInv, Typed, Known, Roles, Committed
    <3>3. \/ UNCHANGED <<role, shown>>
          \/ role' = [role EXCEPT ![s] = "mapped"] /\ shown' = [shown EXCEPT ![s] = "buffer"]
      BY <2>1, <3>1, <3>2, DrawType DEF TypeInv, Typed
    <3>4. QED
      BY <2>1, <2>2, <3>1, <3>3 DEF Shown, TypeInv, Typed, Alive
  <2>4. CASE ~Drawable(s)
    <3>1. role' = [role EXCEPT ![s] = Committed(role[s])] /\ UNCHANGED <<shown, ended>>
      BY <1>6, <2>4 DEF luna_launcher_show
    <3>2. QED
      BY <2>1, <2>2, <3>1 DEF Committed, Shown, TypeInv, Typed, Alive
  <2>5. QED
    BY <2>3, <2>4
<1>7. ASSUME NEW s \in Launchers, luna_launcher_hide(s) PROVE Shown'
  <2>1. s \in Surfaces /\ role \in [Surfaces -> Roles] /\ shown \in [Surfaces -> Shows]
    BY DEF Surfaces, TypeInv, Typed
  <2>2. /\ \A t \in Surfaces : obj'[t].pixels = obj[t].pixels
        /\ \A t \in Surfaces \ {s} : obj'[t] = obj[t]
    BY <1>7 DEF luna_launcher_hide, TypeInv, Typed, luna
  <2>3. /\ role'[s] # "mapped" /\ ended' = ended
        /\ \A t \in Surfaces \ {s} : role'[t] = role[t] /\ shown'[t] = shown[t]
    BY <1>7, <2>1 DEF luna_launcher_hide, Committed
  <2>4. QED
    BY <2>1, <2>2, <2>3 DEF Shown, Alive
<1>8. ASSUME NEW s \in Surfaces, Configure(s) PROVE Shown'
  <2>1. PICK r \in NewBuffers(s) : Replaced(s, r)
    BY <1>8, ConfigureSteps
  <2>2. Alive /\ Outcome(s, r)
    BY <1>8, NewBuffersFacts DEF Configure
  <2>3. /\ obj'[s].visible = obj[s].visible /\ obj'[s].pixels = r.pixels
        /\ \A t \in Surfaces \ {s} : obj'[t] = obj[t]
    BY <2>1 DEF Replaced, TypeInv, Typed, luna
  <2>4. CASE r.aborts
    BY <2>1, <2>4 DEF Replaced, Shown, Alive
  <2>5. CASE ~r.aborts /\ Redraws(s, r.pixels)
    <3>1. Draw(s, Acked(s), r.pixels)
      BY <2>1, <2>5 DEF Replaced
    <3>2. s \in Launchers => obj[s].visible
      BY <2>5, KindsAssumption DEF Redraws
    <3>3. Acked(s) \in Roles \ {"none"}
      BY <1>8 DEF Configure, Acked, TypeInv, Typed, Known, Roles
    <3>4. /\ Alive' => r.pixels = "mapped"
          /\ \/ UNCHANGED <<role, shown>>
             \/ role' = [role EXCEPT ![s] = "mapped"] /\ shown' = [shown EXCEPT ![s] = "buffer"]
      BY <2>2, <3>1, <3>3, DrawType DEF TypeInv, Typed
    <3>5. QED
      BY <2>2, <2>3, <3>2, <3>4 DEF Shown, TypeInv, Typed
  <2>6. CASE ~r.aborts /\ ~Redraws(s, r.pixels)
    <3>1. role' = [role EXCEPT ![s] = Acked(s)] /\ ended' = ended
          /\ \A t \in Surfaces \ {s} : shown'[t] = shown[t]
      BY <2>1, <2>6 DEF Replaced, TypeInv, Typed
    <3>2. role[s] # "mapped"
      BY <2>2, <2>6, KindsAssumption DEF Redraws, Outcome, Shown, Surfaces
    <3>3. QED
      BY <2>3, <3>1, <3>2 DEF Acked, Shown, TypeInv, Typed, Alive
  <2>7. QED
    BY <2>4, <2>5, <2>6
<1>9. CASE UNCHANGED vars
  BY <1>9 DEF Shown, vars, server, Alive
<1>10. QED
  BY <1>1, <1>2, <1>3, <1>4, <1>5, <1>6, <1>7, <1>8, <1>9 DEF Next

\* What the compositor shows is a buffer that exists, however configures, calls and
\* failures follow each other.
THEOREM ShownBufferAliveAlways == Spec => []ShownBufferAlive
<1>1. Init => Shown
  BY DEF Init, Shown
<1>2. Shown => ShownBufferAlive
  BY DEF Shown, ShownBufferAlive
<1>3. QED
  BY <1>1, <1>2, StepShown, TypeInvAlways, PTL DEF Spec

-----------------------------------------------------------------------------
(* What may end the process.                                                *)

\* Pixels that cannot be drawn into are there since some memory could not be had.
Failures == /\ \A s \in Surfaces : obj[s].pixels \in {"failed", "dangling"} => failed
            /\ ended \in {"crash", "aborted"} => failed

\* Broken pixels, and an end by them, come from a failed allocation.
LEMMA StepFailures == TypeInv /\ Failures /\ [Next]_vars => Failures'
<1> SUFFICES ASSUME TypeInv, Failures, [Next]_vars PROVE Failures'
  OBVIOUS
<1>1. ASSUME NEW s \in Surfaces, Create(s) PROVE Failures'
  BY <1>1 DEF Create, Created, Absent, Failures, TypeInv, Typed, history
<1>2. ASSUME NEW s \in Surfaces, Destroy(s) PROVE Failures'
  BY <1>2 DEF Destroy, Absent, Failures, TypeInv, Typed
<1>3. ASSUME NEW s \in Surfaces, SendConfigure(s) PROVE Failures'
  BY <1>3 DEF SendConfigure, Failures, history
<1>4. ASSUME NEW s \in Surfaces, Closed(s) PROVE Failures'
  BY <1>4 DEF Closed, Failures, history
<1>5. ASSUME NEW s \in Panels, luna_panel_render(s) PROVE Failures'
  <2>1. CASE Drawable(s)
    <3>1. /\ s \in Surfaces /\ Alive /\ obj' = obj /\ failed' = failed
          /\ Draw(s, role[s], obj[s].pixels) /\ obj[s].pixels \in Pixels \ {"null"}
          /\ role[s] \in Roles \ {"none"}
      BY <1>5, <2>1 DEF luna_panel_render, Drawable, Surfaces, TypeInv, Typed, luna, Known,
                        history
    <3>2. ended' \in {"crash", "aborted"} => obj[s].pixels # "mapped"
      BY <3>1, DrawType DEF TypeInv, Typed
    <3>3. QED
      BY <3>1, <3>2 DEF Failures, Pixels
  <2>2. CASE ~Drawable(s)
    BY <1>5, <2>2 DEF luna_panel_render, Failures, history
  <2>3. QED
    BY <2>1, <2>2
<1>6. ASSUME NEW s \in Launchers, luna_launcher_show(s) PROVE Failures'
  <2>1. /\ s \in Surfaces /\ Alive /\ failed' = failed /\ obj[s].pixels \in Pixels
        /\ \A t \in Surfaces : obj'[t].pixels = obj[t].pixels
    BY <1>6 DEF luna_launcher_show, TypeInv, Typed, luna, Surfaces, history
  <2>2. CASE Drawable(s)
    <3>1. Draw(s, Committed(role[s]), obj[s].pixels) /\ obj[s].pixels # "null"
      BY <1>6, <2>2 DEF luna_launcher_show, Drawable
    <3>2. Committed(role[s]) \in Roles \ {"none"}
      BY <1>6, <2>1 DEF luna_launcher_show, TypeInv, Typed, Known, Roles, Committed
    <3>3. ended' \in {"crash", "aborted"} => obj[s].pixels # "mapped"
      BY <2>1, <3>1, <3>2, DrawType DEF TypeInv, Typed
    <3>4. QED
      BY <2>1, <3>1, <3>3 DEF Failures, Pixels
  <2>3. CASE ~Drawable(s)
    BY <1>6, <2>1, <2>3 DEF luna_launcher_show, Failures
  <2>4. QED
    BY <2>2, <2>3
<1>7. ASSUME NEW s \in Launchers, luna_launcher_hide(s) PROVE Failures'
  BY <1>7 DEF luna_launcher_hide, Failures, TypeInv, Typed, luna, Surfaces
<1>8. ASSUME NEW s \in Surfaces, Configure(s) PROVE Failures'
  <2>1. PICK r \in NewBuffers(s) : Replaced(s, r)
    BY <1>8, ConfigureSteps
  <2>2. Alive /\ Outcome(s, r)
    BY <1>8, NewBuffersFacts DEF Configure
  <2>3. /\ obj'[s].pixels = r.pixels /\ failed' = (failed \/ r.pixels \notin {"mapped", "null"})
        /\ \A t \in Surfaces \ {s} : obj'[t] = obj[t]
    BY <2>1 DEF Replaced, TypeInv, Typed, luna
  <2>4. r.pixels \in Pixels
    BY <2>2 DEF Outcome, Pixels
  <2>5. CASE r.aborts
    BY <2>2, <2>3, <2>5 DEF Outcome, Failures
  <2>6. CASE ~r.aborts /\ Redraws(s, r.pixels)
    <3>1. Draw(s, Acked(s), r.pixels)
      BY <2>1, <2>6 DEF Replaced
    <3>2. Acked(s) \in Roles \ {"none"}
      BY <1>8 DEF Configure, Acked, TypeInv, Typed, Known, Roles
    <3>3. ended' \in {"crash", "aborted"} => r.pixels # "mapped"
      BY <2>2, <3>1, <3>2, DrawType DEF TypeInv, Typed
    <3>4. r.pixels = "null" => s \in Panels /\ r.pixels # "null"
      BY <2>2, <2>6, KindsAssumption DEF Outcome, Redraws
    <3>5. QED
      BY <2>3, <2>4, <3>3, <3>4 DEF Failures, Pixels
  <2>7. CASE ~r.aborts /\ ~Redraws(s, r.pixels)
    BY <2>1, <2>3, <2>4, <2>7 DEF Replaced, Failures, Pixels
  <2>8. QED
    BY <2>5, <2>6, <2>7
<1>9. CASE UNCHANGED vars
  BY <1>9 DEF Failures, vars, history
<1>10. QED
  BY <1>1, <1>2, <1>3, <1>4, <1>5, <1>6, <1>7, <1>8, <1>9 DEF Next

\* However the calls and configures follow each other, the process does not crash and is
\* not aborted before some memory could not be had.
THEOREM EndNeedsFailureAlways == Spec => []EndNeedsFailure
<1>1. Init => Failures
  BY DEF Init, Absent, Failures
<1>2. Failures => EndNeedsFailure
  BY DEF Failures, EndNeedsFailure
<1>3. QED
  BY <1>1, <1>2, StepFailures, TypeInvAlways, PTL DEF Spec

\* As long as nothing was hidden, the shell takes itself for configured only when the
\* compositor does, too.
Agreed == ~hidden => /\ ended # "protocol error"
                     /\ Alive => \A s \in Surfaces :
                          /\ obj[s].configured => role[s] \in {"configured", "mapped", "closed"}
                          /\ s \in inflight => role[s] \in {"waiting", "configured", "mapped", "closed"}

\* What a surface takes for configured is configured, until a launcher is hidden.
LEMMA StepAgreed == TypeInv /\ Agreed /\ [Next]_vars => Agreed'
<1> SUFFICES ASSUME TypeInv, Agreed, [Next]_vars PROVE Agreed'
  OBVIOUS
<1>1. ASSUME NEW s \in Surfaces, Create(s) PROVE Agreed'
  <2>1. s \notin inflight
    BY <1>1 DEF Create, TypeInv, Known
  <2>2. QED
    BY <1>1, <2>1 DEF Create, Created, Absent, Agreed, TypeInv, Typed, history, Alive
<1>2. ASSUME NEW s \in Surfaces, Destroy(s) PROVE Agreed'
  BY <1>2 DEF Destroy, Absent, Agreed, TypeInv, Typed, Alive
<1>3. ASSUME NEW s \in Surfaces, SendConfigure(s) PROVE Agreed'
  BY <1>3 DEF SendConfigure, Agreed, history, Alive
<1>4. ASSUME NEW s \in Surfaces, Closed(s) PROVE Agreed'
  BY <1>4 DEF Closed, Agreed, TypeInv, Typed, history, Alive
<1>5. ASSUME NEW s \in Panels, luna_panel_render(s) PROVE Agreed'
  <2>1. CASE Drawable(s)
    <3>1. /\ s \in Surfaces /\ Alive /\ obj' = obj /\ UNCHANGED <<inflight, hidden>>
          /\ Draw(s, role[s], obj[s].pixels) /\ obj[s].configured
          /\ role[s] \in Roles \ {"none"}
      BY <1>5, <2>1 DEF luna_panel_render, Drawable, Surfaces, TypeInv, Typed, Known, history
    <3>2. /\ ended' = "protocol error" => role[s] \in {"fresh", "waiting"}
          /\ UNCHANGED role \/ role' = [role EXCEPT ![s] = "mapped"]
      BY <3>1, DrawType DEF TypeInv, Typed
    <3>3. QED
      BY <3>1, <3>2 DEF Agreed, TypeInv, Typed, Alive
  <2>2. CASE ~Drawable(s)
    BY <1>5, <2>2 DEF luna_panel_render, Agreed, history, Alive
  <2>3. QED
    BY <2>1, <2>2
<1>6. ASSUME NEW s \in Launchers, luna_launcher_show(s) PROVE Agreed'
  <2>1. /\ s \in Surfaces /\ Alive /\ UNCHANGED <<inflight, hidden>>
        /\ \A t \in Surfaces : obj'[t].configured = obj[t].configured
    BY <1>6 DEF luna_launcher_show, TypeInv, Typed, luna, Surfaces, history
  <2>2. CASE Drawable(s)
    <3>1. Draw(s, Committed(role[s]), obj[s].pixels) /\ obj[s].configured
      BY <1>6, <2>2 DEF luna_launcher_show, Drawable
    <3>2. Committed(role[s]) \in Roles \ {"none"}
      BY <1>6, <2>1 DEF luna_launcher_show, TypeInv, Typed, Known, Roles, Committed
    <3>3. /\ ended' = "protocol error" => Committed(role[s]) \in {"fresh", "waiting"}
          /\ UNCHANGED role \/ role' = [role EXCEPT ![s] = "mapped"]
      BY <2>1, <3>1, <3>2, DrawType DEF TypeInv, Typed
    <3>4. QED
      BY <2>1, <3>1, <3>3 DEF Agreed, Committed, TypeInv, Typed, Alive
  <2>3. CASE ~Drawable(s)
    <3>1. role' = [role EXCEPT ![s] = Committed(role[s])] /\ UNCHANGED ended
      BY <1>6, <2>3 DEF luna_launcher_show
    <3>2. QED
      BY <2>1, <3>1 DEF Agreed, Committed, TypeInv, Typed, Alive
  <2>4. QED
    BY <2>2, <2>3
<1>7. ASSUME NEW s \in Launchers, luna_launcher_hide(s) PROVE Agreed'
  <2>1. /\ s \in Surfaces /\ UNCHANGED <<inflight, ended>>
        /\ \A t \in Surfaces : obj'[t].configured = obj[t].configured
    BY <1>7 DEF luna_launcher_hide, TypeInv, Typed, luna, Surfaces
  <2>2. hidden' \/ (UNCHANGED hidden /\ role' = [role EXCEPT ![s] = Committed(role[s])])
    BY <1>7 DEF luna_launcher_hide
  <2>3. QED
    BY <2>1, <2>2 DEF Agreed, Committed, TypeInv, Typed, Alive
<1>8. ASSUME NEW s \in Surfaces, Configure(s) PROVE Agreed'
  <2>1. PICK r \in NewBuffers(s) : Replaced(s, r)
    BY <1>8, ConfigureSteps
  <2>2. Alive /\ s \in inflight /\ inflight' = inflight \ {s} /\ UNCHANGED hidden
    BY <1>8 DEF Configure
  <2>3. \A t \in Surfaces \ {s} : obj'[t] = obj[t]
    BY <2>1 DEF Replaced, TypeInv, Typed
  <2>4. SUFFICES ASSUME ~hidden PROVE Agreed'
    BY <2>2 DEF Agreed
  <2>5. Acked(s) \in {"configured", "mapped", "closed"} /\ Acked(s) \in Roles \ {"none"}
    BY <2>2, <2>4 DEF Agreed, Acked, Roles
  <2>6. /\ \A t \in Surfaces \ {s} : role'[t] = role[t]
        /\ Alive' => role'[s] \in {"configured", "mapped", "closed"}
        /\ ended' # "protocol error"
    <3>1. CASE r.aborts
      BY <2>1, <3>1 DEF Replaced, Alive
    <3>2. CASE ~r.aborts /\ Redraws(s, r.pixels)
      <4>1. Draw(s, Acked(s), r.pixels)
        BY <2>1, <3>2 DEF Replaced
      <4>2. /\ ended' # "protocol error"
            /\ UNCHANGED role \/ role' = [role EXCEPT ![s] = "mapped"]
            /\ Alive' /\ Acked(s) # "closed" => role'[s] = "mapped"
        BY <2>2, <2>5, <4>1, DrawType DEF TypeInv, Typed
      <4>3. Acked(s) = "closed" => role[s] = "closed"
        BY DEF Acked
      <4>4. QED
        BY <4>2, <4>3 DEF TypeInv, Typed
    <3>3. CASE ~r.aborts /\ ~Redraws(s, r.pixels)
      BY <2>1, <2>2, <2>5, <3>3 DEF Replaced, TypeInv, Typed, Alive
    <3>4. QED
      BY <3>1, <3>2, <3>3
  <2>7. QED
    BY <2>2, <2>3, <2>6 DEF Agreed
<1>9. CASE UNCHANGED vars
  BY <1>9 DEF Agreed, vars, server, history, Alive
<1>10. QED
  BY <1>1, <1>2, <1>3, <1>4, <1>5, <1>6, <1>7, <1>8, <1>9 DEF Next

\* No buffer is committed before its configure was acknowledged, unless a launcher was
\* hidden before.
THEOREM ErrorNeedsHiddenAlways == Spec => []ErrorNeedsHidden
<1>1. Init => Agreed
  BY DEF Init, Absent, Agreed
<1>2. Agreed => ErrorNeedsHidden
  BY DEF Agreed, ErrorNeedsHidden
<1>3. QED
  BY <1>1, <1>2, StepAgreed, TypeInvAlways, PTL DEF Spec

-----------------------------------------------------------------------------
(* Who owns what.                                                           *)

\* A surface with pixels has one descriptor, the one it remembers; without pixels it
\* remembers none, except a panel before its first configure.
Owned ==
  Alive /\ ~earlyDestroy =>
    /\ ~wrongClose /\ fds[0] = Stdin
    /\ \A s \in Surfaces :
         /\ \A f \in Fds : fds[f] = s <=> obj[s].pixels # "null" /\ f = obj[s].shm_fd
         /\ obj[s].pixels # "null" => obj[s].shm_fd \in Fds
         /\ obj[s].pixels = "null" => \/ obj[s].shm_fd = -1
                                      \/ s \in Panels /\ obj[s].live /\ ~obj[s].configured

\* What is left when a surface has closed its descriptor.
LEMMA OwnedFreed ==
  ASSUME TypeInv, Owned, Alive, ~earlyDestroy, NEW s \in Surfaces,
         obj[s].pixels = "null" => obj[s].shm_fd = -1
  PROVE  /\ ~ClosesOther(s)
         /\ Freed(obj[s].shm_fd) = [f \in Fds |-> IF fds[f] = s THEN Unused ELSE fds[f]]
<1>1. fds \in Table /\ Unused # s
  BY KindsAssumption DEF TypeInv, Typed
<1>2. CASE obj[s].pixels = "null"
  <2>1. \A f \in Fds : fds[f] # s
    BY <1>2 DEF Owned
  <2>2. ~Used(obj[s].shm_fd)
    BY <1>2 DEF Used
  <2>3. QED
    BY <1>1, <2>1, <2>2 DEF ClosesOther, Freed, Table
<1>3. CASE obj[s].pixels # "null"
  <2>1. /\ obj[s].shm_fd \in Fds /\ fds[obj[s].shm_fd] = s
        /\ \A f \in Fds : fds[f] = s <=> f = obj[s].shm_fd
    BY <1>3 DEF Owned
  <2>2. Used(obj[s].shm_fd)
    <3>1. obj[s].shm_fd \in Nat
      BY <2>1, FdsFacts
    <3>2. QED
      BY <1>1, <2>1, <3>1 DEF Used
  <2>3. QED
    BY <1>1, <2>1, <2>2 DEF ClosesOther, Freed, Table
<1>4. QED
  BY <1>2, <1>3

\* A configure that the process survives leaves a panel pixels or none at all.
LEMMA Survived ==
  ASSUME TypeInv, NEW s \in Surfaces, NEW r \in NewBuffers(s), Configure(s),
         Replaced(s, r), Alive'
  PROVE  ~r.aborts /\ r.pixels # "dangling" /\ (s \in Panels => r.pixels # "failed")
<1>1. Alive /\ Acked(s) \in Roles \ {"none"} /\ Outcome(s, r)
  BY NewBuffersFacts DEF Configure, TypeInv, Typed, Known, Roles, Acked
<1>2. ~r.aborts
  BY DEF Replaced, Alive
<1>3. Redraws(s, r.pixels) => r.pixels = "mapped"
  <2>1. Redraws(s, r.pixels) => Draw(s, Acked(s), r.pixels)
    BY <1>2 DEF Replaced
  <2>2. QED
    BY <1>1, <2>1, DrawType DEF TypeInv, Typed
<1>4. s \in Panels /\ r.pixels # "null" => Redraws(s, r.pixels)
  BY KindsAssumption DEF Redraws
<1>5. QED
  BY <1>1, <1>2, <1>3, <1>4 DEF Outcome

\* Every step keeps structures and kernel in agreement.
LEMMA StepOwned == TypeInv /\ Owned /\ [Next]_vars => Owned'
<1> SUFFICES ASSUME TypeInv, Owned, [Next]_vars, Alive', ~earlyDestroy' PROVE Owned'
  BY DEF Owned
<1>0. Alive /\ ~earlyDestroy
  <2>1. CASE Next
    <3>1. Alive
      BY <2>1 DEF Next, Create, Destroy, SendConfigure, Configure, Closed, luna_panel_render,
                  luna_launcher_show, luna_launcher_hide
    <3>2. ASSUME NEW s \in Surfaces, Destroy(s) PROVE ~earlyDestroy
      BY <3>2 DEF Destroy
    <3>3. (\E s \in Surfaces : Destroy(s)) \/ earlyDestroy' = earlyDestroy
      BY <2>1 DEF Next, Create, SendConfigure, Configure, Closed, luna_panel_render,
                  luna_launcher_show, luna_launcher_hide, history
    <3>4. QED
      BY <3>1, <3>2, <3>3
  <2>2. CASE UNCHANGED vars
    BY <2>2 DEF vars, history, Alive
  <2>3. QED
    BY <2>1, <2>2
<1>1. ASSUME NEW s \in Surfaces, Create(s) PROVE Owned'
  <2>1. obj[s].pixels = "null"
    BY <1>1 DEF Create, TypeInv, Known, Absent
  <2>2. /\ obj'[s].pixels = "null" /\ obj'[s].live /\ ~obj'[s].configured
        /\ s \notin Panels => obj'[s].shm_fd = -1
        /\ \A t \in Surfaces \ {s} : obj'[t] = obj[t]
    BY <1>1 DEF Create, Created, Absent, InitialFd, TypeInv, Typed
  <2>3. fds' = fds /\ wrongClose' = wrongClose
    BY <1>1 DEF Create, kernel
  <2>4. QED
    BY <1>0, <2>1, <2>2, <2>3 DEF Owned
<1>2. ASSUME NEW s \in Surfaces, Destroy(s) PROVE Owned'
  <2>1. obj[s].pixels = "null" => obj[s].shm_fd = -1
    BY <1>0, <1>2 DEF Destroy, Owned, TypeInv, Typed
  <2>2. /\ ~ClosesOther(s)
        /\ Freed(obj[s].shm_fd) = [f \in Fds |-> IF fds[f] = s THEN Unused ELSE fds[f]]
    BY <1>0, <2>1, OwnedFreed
  <2>3. /\ obj'[s] = Absent /\ \A t \in Surfaces \ {s} : obj'[t] = obj[t]
        /\ fds' = [f \in Fds |-> IF fds[f] = s THEN Unused ELSE fds[f]]
        /\ ~wrongClose'
    <3>1. obj' = [obj EXCEPT ![s] = Absent] /\ fds' = GiveBack(s).fds
      BY <1>2 DEF Destroy
    <3>2. wrongClose' = (wrongClose \/ ClosesOther(s))
      BY <1>2 DEF Destroy
    <3>3. GiveBack(s).fds = Freed(obj[s].shm_fd)
      BY DEF GiveBack
    <3>4. QED
      BY <1>0, <2>2, <3>1, <3>2, <3>3 DEF Owned, TypeInv, Typed
  <2>4. Absent.pixels = "null" /\ Absent.shm_fd = -1 /\ Unused \notin Surfaces /\ Stdin # s
    BY KindsAssumption DEF Absent
  <2>5. QED
    BY <1>0, <2>3, <2>4, FdsFacts DEF Owned
<1>3. ASSUME NEW s \in Surfaces, SendConfigure(s) PROVE Owned'
  BY <1>0, <1>3 DEF SendConfigure, Owned, kernel
<1>4. ASSUME NEW s \in Surfaces, Closed(s) PROVE Owned'
  BY <1>0, <1>4 DEF Closed, Owned, kernel
<1>5. ASSUME NEW s \in Panels, luna_panel_render(s) PROVE Owned'
  BY <1>0, <1>5 DEF luna_panel_render, Owned, kernel
<1>6. ASSUME NEW s \in Launchers, luna_launcher_show(s) \/ luna_launcher_hide(s) PROVE Owned'
  <2>1. \A t \in Surfaces : /\ obj'[t].pixels = obj[t].pixels /\ obj'[t].shm_fd = obj[t].shm_fd
                            /\ obj'[t].live = obj[t].live
                            /\ obj'[t].configured = obj[t].configured
    BY <1>6 DEF luna_launcher_show, luna_launcher_hide, TypeInv, Typed, luna
  <2>2. fds' = fds /\ wrongClose' = wrongClose
    BY <1>6 DEF luna_launcher_show, luna_launcher_hide, kernel
  <2>3. QED
    BY <1>0, <2>1, <2>2 DEF Owned
<1>7. ASSUME NEW s \in Surfaces, Configure(s) PROVE Owned'
  <2>1. PICK r \in NewBuffers(s) : Replaced(s, r)
    BY <1>7, ConfigureSteps
  <2>2. /\ Outcome(s, r) /\ ~r.aborts
        /\ r.pixels # "dangling" /\ (s \in Panels => r.pixels # "failed")
    BY <1>0, <1>7, <2>1, NewBuffersFacts, Survived
  <2>3. /\ obj'[s].pixels = r.pixels /\ obj'[s].shm_fd = r.shm_fd
        /\ \A t \in Surfaces \ {s} : obj'[t] = obj[t]
    BY <2>1 DEF Replaced, TypeInv, Typed, luna
  <2>4. /\ ~(obj[s].pixels # "null" /\ ClosesOther(s))
        /\ Old(s).fds = [f \in Fds |-> IF fds[f] = s THEN Unused ELSE fds[f]]
    <3>1. CASE obj[s].pixels = "null"
      <4>1. \A f \in Fds : fds[f] # s
        BY <1>0, <3>1 DEF Owned
      <4>2. QED
        BY <3>1, <4>1 DEF Old, TypeInv, Typed, Table
    <3>2. CASE obj[s].pixels # "null"
      BY <1>0, <3>2, OwnedFreed DEF Old, GiveBack
    <3>3. QED
      BY <3>1, <3>2
  <2>5. fds' = r.fds /\ ~wrongClose'
    BY <1>0, <2>1, <2>4 DEF Replaced, Owned
  <2>6. Unused \notin Surfaces /\ Stdin \notin Surfaces /\ Stdin # Unused
    BY KindsAssumption
  <2>7. CASE Opened(s, r)
    BY <1>0, <2>2, <2>3, <2>4, <2>5, <2>6, <2>7, FdsFacts DEF Opened, Owned, Outcome
  <2>8. CASE ~Opened(s, r)
    <3>1. r.fds = Old(s).fds /\ r.pixels = "null" /\ r.shm_fd = -1
      BY <2>2, <2>8 DEF Outcome
    <3>2. QED
      BY <1>0, <2>3, <2>4, <2>5, <2>6, <3>1, FdsFacts DEF Owned
  <2>9. QED
    BY <2>7, <2>8
<1>8. CASE UNCHANGED vars
  BY <1>0, <1>8 DEF Owned, vars, kernel
<1>9. QED
  BY <1>1, <1>2, <1>3, <1>4, <1>5, <1>6, <1>7, <1>8 DEF Next

\* Whenever the process ends, shared memory could not be had, or a launcher was hidden
\* and a buffer committed too early.
THEOREM EndsExplainedAlways == Spec => []EndsExplained
<1>1. EndNeedsFailure /\ ErrorNeedsHidden => EndsExplained
  BY DEF EndsExplained
<1>2. QED
  BY <1>1, EndNeedsFailureAlways, ErrorNeedsHiddenAlways, PTL

\* Nothing leaks, nothing is given back twice, and no descriptor of another is closed,
\* until a panel is destroyed before its first configure.
THEOREM OwnsWhatExistsAlways == Spec => []OwnsWhatExists
<1>1. Init => Owned
  <2>1. ASSUME Init, NEW s \in Surfaces
        PROVE  obj[s].pixels = "null" /\ obj[s].shm_fd = -1 /\ \A f \in Fds : fds[f] # s
    BY <2>1, KindsAssumption DEF Init, Absent
  <2>2. Init => fds[0] = Stdin /\ ~wrongClose
    BY FdsFacts DEF Init
  <2>3. QED
    BY <2>1, <2>2 DEF Owned
<1>2. ASSUME TypeInv, Owned PROVE OwnsWhatExists
  <2>1. SUFFICES ASSUME Alive, ~earlyDestroy PROVE OwnsWhatExists
    BY DEF OwnsWhatExists
  <2>2. ASSUME NEW s \in Surfaces
        PROVE  {f \in Fds : fds[f] = s} = IF obj[s].pixels = "null" THEN {} ELSE {obj[s].shm_fd}
    BY <1>2, <2>1 DEF Owned
  <2>3. QED
    BY <1>2, <2>1, <2>2 DEF Owned, OwnsWhatExists, TypeInv, Counted, Mapped, Buffered
<1>3. QED
  BY <1>1, <1>2, StepOwned, TypeInvAlways, PTL DEF Spec
=============================================================================
