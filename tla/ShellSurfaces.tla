--------------------------- MODULE ShellSurfaces ---------------------------
(***************************************************************************)
(* The layer surfaces of luna-shell: panel, launcher and wallpaper, each   *)
(* with one buffer in shared memory that is replaced at every configure.   *)
(* The shell has one thread, so a call of the interface in luna-shell.h    *)
(* and an event of the compositor are one step each; only the configure    *)
(* events are on their way for a while.  The compositor's side is the      *)
(* layer-shell protocol: a buffer may be committed once a configure has    *)
(* been acknowledged, and a surface that is unmapped starts over.          *)
(*                                                                         *)
(* What is drawn, sizes, scales and the flags running and launcher_visible *)
(* of the shell are left out.  memory and fds are what the kernel keeps    *)
(* for the process, to compare with what the structures say.               *)
(* earlyDestroy, failed and hidden remember what happened.                 *)
(***************************************************************************)
EXTENDS Integers, FiniteSetsExt

CONSTANTS
  Panels, Launchers, Wallpapers,  \* the structures, at most one launcher
  Stdin, Unused                   \* contents of a descriptor

Surfaces == Panels \cup Launchers \cup Wallpapers
Fds      == 0..Cardinality(Surfaces)

ASSUME KindsAssumption ==
  /\ IsFiniteSet(Surfaces) /\ Cardinality(Launchers) <= 1
  /\ Panels \cap Launchers = {} /\ (Panels \cup Launchers) \cap Wallpapers = {}
  /\ Stdin \notin Surfaces /\ Unused \notin Surfaces \cup {Stdin}

VARIABLES
  obj,               \* per surface: luna_panel, luna_launcher or luna_wallpaper
  role,              \* per surface: where the compositor is in the protocol
  shown,             \* per surface: the committed buffer
  inflight,          \* the surfaces that a configure event is on its way to
  buffers,           \* per surface: wl_buffers that exist
  memory,            \* per surface: mappings that exist
  fds,               \* the descriptors of the process
  ended,             \* why the process ended
  earlyDestroy, failed, hidden, wrongClose

server  == <<role, shown, inflight>>
kernel  == <<memory, fds, wrongClose>>
history == <<earlyDestroy, failed, hidden>>
vars == <<obj, server, buffers, kernel, ended, history>>

\* Mutant of InitialFd: what calloc leaves there.
ZeroFd(s)    == 0
InitialFd(s) == IF s \in Panels THEN 0 ELSE -1

Absent == [live |-> FALSE, configured |-> FALSE, visible |-> FALSE, pixels |-> "null",
           shm_fd |-> -1]
Created(s) == [Absent EXCEPT !.live = TRUE, !.shm_fd = InitialFd(s)]

Init ==
  /\ obj = [s \in Surfaces |-> Absent]
  /\ role = [s \in Surfaces |-> "none"] /\ shown = [s \in Surfaces |-> "none"]
  /\ inflight = {}
  /\ buffers = [s \in Surfaces |-> 0] /\ memory = [s \in Surfaces |-> 0]
  /\ fds = [f \in Fds |-> IF f = 0 THEN Stdin ELSE Unused]
  /\ ended = "no"
  /\ earlyDestroy = FALSE /\ failed = FALSE /\ hidden = FALSE /\ wrongClose = FALSE

-----------------------------------------------------------------------------
(* Requests, as the compositor handles them.                                *)

\* A commit without a new buffer: the initial commit of a surface, or nothing.
Committed(r) == IF r = "fresh" THEN "waiting" ELSE r

\* Mutant of Acked: the event is not acknowledged.
AckForgotten(s) == role[s]
Acked(s)        == IF role[s] = "waiting" THEN "configured" ELSE role[s]

\* Drawing into pixels that are not there ends the process.  Otherwise the buffer is
\* attached and committed, which is an error before a configure was acknowledged.
Draw(s, r, pixels) ==
  CASE pixels # "mapped" ->
         ended' = "crash" /\ UNCHANGED <<role, shown>>
    [] pixels = "mapped" /\ r \in {"fresh", "waiting"} ->
         ended' = "protocol error" /\ UNCHANGED <<role, shown>>
    [] pixels = "mapped" /\ r = "closed" ->
         UNCHANGED <<ended, role, shown>>
    [] pixels = "mapped" /\ r \in {"configured", "mapped"} ->
         /\ role' = [role EXCEPT ![s] = "mapped"] /\ shown' = [shown EXCEPT ![s] = "buffer"]
         /\ UNCHANGED ended

-----------------------------------------------------------------------------
(* Shared memory.                                                           *)

Used(f) == f >= 0 /\ fds[f] # Unused
Freed(f) == IF Used(f) THEN [fds EXCEPT ![f] = Unused] ELSE fds

\* munmap, wl_buffer_destroy, wl_shm_pool_destroy and close of what a surface has;
\* the pixels are there whenever the buffer is.
GiveBack(s) == [memory  |-> memory[s] - IF obj[s].pixels = "mapped" THEN 1 ELSE 0,
                buffers |-> buffers[s] - IF obj[s].pixels # "null" THEN 1 ELSE 0,
                fds     |-> Freed(obj[s].shm_fd)]

\* What remains at a configure, which tests the pixels only.
Old(s) == IF obj[s].pixels # "null" THEN GiveBack(s)
          ELSE [memory |-> memory[s], buffers |-> buffers[s], fds |-> fds]

\* The outcomes of shm_open, mmap and the requests for pool and buffer.  The panel
\* gives up when shm_open or mmap fails, with its pointer as it was or MAP_FAILED; the
\* others go on, and libwayland aborts when it has to pass a descriptor that is none.
NewBuffers(s) ==
  LET old    == Old(s)
      free   == {f \in Fds : old.fds[f] = Unused}
      opened == [old.fds EXCEPT ![Min(free)] = s]
      Outcome(pixels, fd, mem, bufs, table) ==
        [pixels |-> pixels, shm_fd |-> fd, memory |-> mem, buffers |-> bufs, fds |-> table,
         aborts |-> fd = -1 /\ s \notin Panels]
      good   == Outcome("mapped", Min(free), old.memory + 1, old.buffers + 1, opened)
      noMap  == IF s \in Panels
                  THEN Outcome("failed", Min(free), old.memory, old.buffers, old.fds)
                  ELSE Outcome("failed", Min(free), old.memory, old.buffers + 1, opened)
      noShm  == Outcome(IF s \notin Panels THEN "failed"
                        ELSE IF obj[s].pixels = "null" THEN "null" ELSE "dangling",
                        -1, old.memory, old.buffers, old.fds)
  IN {noShm} \cup IF free = {} THEN {} ELSE {good, noMap}

\* The descriptor that is closed is not the one the surface opened.
ClosesOther(s) == Used(obj[s].shm_fd) /\ fds[obj[s].shm_fd] # s

-----------------------------------------------------------------------------
(* The interface of luna-shell.h.                                           *)

Alive == ended = "no"

\* luna_panel_create, luna_launcher_create and luna_wallpaper_create.  The launcher
\* leaves the initial commit to luna_launcher_show.
Create(s) ==
  /\ Alive /\ ~obj[s].live
  /\ obj' = [obj EXCEPT ![s] = Created(s)]
  /\ role' = [role EXCEPT ![s] = IF s \in Launchers THEN "fresh" ELSE "waiting"]
  /\ UNCHANGED <<shown, inflight, buffers, kernel, ended, history>>

\* luna_panel_destroy, luna_launcher_destroy and luna_wallpaper_destroy.
Destroy(s) ==
  /\ Alive /\ obj[s].live
  /\ obj' = [obj EXCEPT ![s] = Absent]
  /\ memory' = [memory EXCEPT ![s] = GiveBack(s).memory]
  /\ buffers' = [buffers EXCEPT ![s] = GiveBack(s).buffers]
  /\ fds' = GiveBack(s).fds
  /\ wrongClose' = (wrongClose \/ ClosesOther(s))
  /\ earlyDestroy' = (earlyDestroy \/ (s \in Panels /\ ~obj[s].configured))
  /\ role' = [role EXCEPT ![s] = "none"] /\ shown' = [shown EXCEPT ![s] = "none"]
  /\ inflight' = inflight \ {s}
  /\ UNCHANGED <<ended, failed, hidden>>

\* The early return of luna_panel_render and launcher_render.
Drawable(s) == obj[s].configured /\ obj[s].pixels # "null"

luna_panel_render(s) ==
  /\ Alive /\ obj[s].live
  /\ IF Drawable(s) THEN Draw(s, role[s], obj[s].pixels) ELSE UNCHANGED <<role, shown, ended>>
  /\ UNCHANGED <<obj, inflight, buffers, kernel, history>>

\* A commit, and the launcher is rendered if it has been configured, however long ago.
luna_launcher_show(s) ==
  /\ Alive /\ obj[s].live /\ ~obj[s].visible
  /\ obj' = [obj EXCEPT ![s].visible = TRUE]
  /\ IF Drawable(s) THEN Draw(s, Committed(role[s]), obj[s].pixels)
     ELSE role' = [role EXCEPT ![s] = Committed(@)] /\ UNCHANGED <<shown, ended>>
  /\ UNCHANGED <<inflight, buffers, kernel, history>>

\* A commit without a buffer unmaps the surface, which then starts over.
luna_launcher_hide(s) ==
  /\ Alive /\ obj[s].live /\ obj[s].visible
  /\ obj' = [obj EXCEPT ![s].visible = FALSE]
  /\ IF role[s] = "mapped"
       THEN /\ role' = [role EXCEPT ![s] = "fresh"] /\ shown' = [shown EXCEPT ![s] = "none"]
            /\ hidden' = TRUE
       ELSE /\ role' = [role EXCEPT ![s] = Committed(@)]
            /\ UNCHANGED <<shown, hidden>>
  /\ UNCHANGED <<inflight, buffers, kernel, ended, earlyDestroy, failed>>

-----------------------------------------------------------------------------
(* Events of the compositor.                                                *)

\* After the initial commit, and whenever the size changes.
SendConfigure(s) ==
  /\ Alive /\ role[s] \in {"waiting", "configured", "mapped"}
  /\ inflight' = inflight \cup {s}
  /\ UNCHANGED <<obj, role, shown, buffers, kernel, ended, history>>

\* Mutant of Redraws: the launcher waits until it is shown again.
RedrawsLater(s, pixels) == s \notin Launchers /\ pixels # "null"
\* Panel and wallpaper draw at every configure, the launcher when it is visible; the
\* panel looks first whether it has pixels.
Redraws(s, pixels) ==
  CASE s \in Panels     -> pixels # "null"
    [] s \in Launchers  -> obj[s].visible
    [] s \in Wallpapers -> TRUE

\* ls_configure, ll_configure and wp_configure: the buffer is replaced, and drawn.
Configure(s) ==
  /\ Alive /\ s \in inflight
  /\ inflight' = inflight \ {s}
  /\ \E r \in NewBuffers(s) :
       /\ obj' = [obj EXCEPT ![s].configured = TRUE, ![s].pixels = r.pixels, ![s].shm_fd = r.shm_fd]
       /\ memory' = [memory EXCEPT ![s] = r.memory]
       /\ buffers' = [buffers EXCEPT ![s] = r.buffers]
       /\ fds' = r.fds
       /\ wrongClose' = (wrongClose \/ (obj[s].pixels # "null" /\ ClosesOther(s)))
       /\ failed' = (failed \/ r.pixels \notin {"mapped", "null"})
       /\ IF r.aborts THEN ended' = "aborted" /\ UNCHANGED <<role, shown>>
          ELSE IF Redraws(s, r.pixels) THEN Draw(s, Acked(s), r.pixels)
          ELSE /\ role' = [role EXCEPT ![s] = Acked(s)]
               /\ shown' = [shown EXCEPT ![s] = IF @ = "buffer" THEN "gone" ELSE @]
               /\ UNCHANGED ended
  /\ UNCHANGED <<earlyDestroy, hidden>>

\* The compositor closes a surface, which is inert from then on; a configure it has
\* sent before is still handled.  The listeners do nothing, except that the panel's
\* clears running.
Closed(s) ==
  /\ Alive /\ role[s] \notin {"none", "closed"}
  /\ role' = [role EXCEPT ![s] = "closed"] /\ shown' = [shown EXCEPT ![s] = "none"]
  /\ UNCHANGED <<obj, inflight, buffers, kernel, ended, history>>

Next ==
  \/ \E s \in Surfaces : Create(s) \/ Destroy(s) \/ SendConfigure(s) \/ Configure(s) \/ Closed(s)
  \/ \E s \in Panels : luna_panel_render(s)
  \/ \E s \in Launchers : luna_launcher_show(s) \/ luna_launcher_hide(s)

Spec == Init /\ [][Next]_vars
-----------------------------------------------------------------------------
(* Properties.                                                              *)

TypeOK ==
  /\ obj \in [Surfaces -> [live : BOOLEAN, configured : BOOLEAN, visible : BOOLEAN,
                           pixels : {"null", "mapped", "failed", "dangling"},
                           shm_fd : Fds \cup {-1}]]
  /\ role \in [Surfaces -> {"none", "fresh", "waiting", "configured", "mapped", "closed"}]
  /\ shown \in [Surfaces -> {"none", "buffer", "gone"}]
  /\ inflight \subseteq Surfaces
  /\ buffers \in [Surfaces -> {0, 1}] /\ memory \in [Surfaces -> {0, 1}]
  /\ fds \in [Fds -> Surfaces \cup {Stdin, Unused}]
  /\ ended \in {"no", "crash", "protocol error", "aborted"}
  /\ {earlyDestroy, failed, hidden, wrongClose} \subseteq BOOLEAN

\* What the compositor shows is never a buffer that was destroyed, although each
\* configure destroys the buffer in use before there is another.
ShownBufferAlive == \A s \in Surfaces : Alive /\ role[s] = "mapped" => shown[s] = "buffer"

\* The process survives every order of calls and configures as long as its shared
\* memory can be allocated.  A panel also survives that its first memory cannot be
\* opened, and goes on without pixels; every other failure may end the process.
EndNeedsFailure == ended \in {"crash", "aborted"} => failed

\* No buffer is committed before a configure has been acknowledged, except by a
\* launcher that was hidden: it takes itself for configured when it is shown again.
ErrorNeedsHidden == ended = "protocol error" => hidden

\* Whenever the process ends there was a reason, one of these two.
EndsExplained == EndNeedsFailure /\ ErrorNeedsHidden

\* Nothing leaks and nothing is given back twice: buffers, mappings and descriptors are
\* those of surfaces that exist, and a surface that was configured has its own.  A panel
\* that is destroyed before its first configure breaks that: it closes descriptor 0.
OwnsWhatExists ==
  Alive /\ ~earlyDestroy =>
    /\ ~wrongClose /\ fds[0] = Stdin
    /\ \A s \in Surfaces :
         /\ memory[s] = IF obj[s].pixels = "mapped" THEN 1 ELSE 0
         /\ buffers[s] = IF obj[s].pixels \in {"mapped", "failed"} THEN 1 ELSE 0
         /\ {f \in Fds : fds[f] = s} = IF obj[s].pixels = "null" THEN {} ELSE {obj[s].shm_fd}
=============================================================================
