# LunaOS-ARM64 in TLA+

LunaOS-ARM64 runs a Linux-style Wayland desktop on an arm64 Darwin kernel. The
repository holds the glue that makes this possible: a kernel extension that
imitates a Linux DRM device, user space libraries on top of it, daemons that hand
out devices and translate input, a compositor and a shell. There are no tests in
the repository. This directory models the parts whose correctness depends on
concurrency, on failures and on reuse of small numbers (buffer handles,
descriptors, slots), checks them with TLC, and proves some of them with TLAPS.

Paths below are relative to the repository's root.

## 1. Inventory

| Component | Source | State | Operations | Talks to |
|---|---|---|---|---|
| IODRMShim (kernel) | `drm-shim/kern/IODRMShim.cpp` | `gShim`, `fBOs[64]`, `fLock`, `fCurrentFbId`, device switch entry, devfs node | `start`, `stop`, open/close, 11 ioctls | I/O Kit starts and stops it; BSD calls its ioctls on any thread; it blits to IOMobileFramebuffer |
| libdrm-darwin | `drm-shim/user/libdrm-darwin.c` | none | one function per ioctl | the kernel device |
| darwin-gbm | `graphics/include/darwin-gbm.c` | `gbm_bo`, `gbm_surface` | create, destroy, map; surface create, destroy, lock, release | the kernel device, from every client process |
| seatd-darwin | `seatd-darwin/seatd-darwin.c` | `g_clients[16]`, descriptor table, GCD sources | accept, receive, open device, close | compositors over `/run/seatd.sock` |
| event loop | `libwayland-darwin/wayland-darwin-event-loop.c` | `sources[256]`, GCD sources, kqueue | add fd, add timer, update, remove, dispatch, destroy | GCD, libwayland |
| evdev bridge | `evdev-bridge/darwin-evdev-bridge.c` | `g_devices`, pipes | device added, HID value | IOHIDManager, libinput |
| compositor | `compositor/src/main.c` | views, outputs, focus | new/map/unmap/destroy view, keys, pointer, new output/input | wlroots, clients |
| shell | `shell/src/*.c` | panel, launcher and wallpaper surfaces and their buffers | configure, render, show/hide, keys | compositor |
| darwin session | `patches/wlroots/*.patch` | session socket, drm fd | create, open device, destroy | seatd-darwin |
| rc.lunaos | `userland/rootfs-skel/private/etc/rc.lunaos` | processes | boot order, wait for socket, shutdown | all daemons |

What is hard in each, and what makes it correct (`PROJECT.json`, `hazards`, has
every one at its line):

- *IODRMShim*. Ioctls run on any number of threads; one lock guards the table and is
  held across an allocation and a blit, both of which block; `start` and `stop` do
  not take it. Correct means: table, memory and lock agree; a buffer under work is
  pinned; nothing freed is used; every ioctl returns; and a caller sees each ioctl as
  one atomic step.
- *darwin-gbm*. Handles are shared by all processes, are reused at once, and
  `gbm_bo_destroy` closes its handle twice. Correct means: a buffer stays with the
  structure it was created for, and failures half way leak nothing.
- *seatd-darwin*. Handlers run concurrently without a lock on slots and on the
  process's descriptor table, and both are reused at once. Correct means: a handler
  touches only the descriptors of its own client; nothing leaks; requests are
  answered.
- *Event loop*. A callback may run while its source is removed or the loop destroyed;
  dispatch sources must be resumed once before they are released; callbacks add sources
  from several threads; a table that never shrinks. Correct means: at most one callback
  after a removal, no source forgotten, no slot with two owners.
- *Evdev bridge*. One thread writes to pipes of bounded capacity; events are framed by
  EV_SYN; devices leave without a word. Correct means: what the reader holds for pressed,
  touched and framed is what the user did, and one device does not stop the others.
- *Compositor and shell*. Callback order; list order against stacking and focus; buffers
  replaced while in use, and allocations that fail half way; a protocol in which a commit
  is an error before a configure and again after an unmapping; a keyboard and outputs that
  come and go; a connection that breaks while nobody looks.
- *Darwin session*. A request that blocks without a timeout, and a daemon that may be out
  of slots, out of descriptors, or dead. Correct means: a creation ends.

## 2. Plan

| # | Module | Status | Composes with | What for |
|---|---|---|---|---|
| 1 | `DumbBuffers` | done | | abstract device: each ioctl atomic, no lock, no table |
| 2 | `IODRMShim` | checked, proved | implements `DumbBuffers` | kernel driver |
| 3 | `DumbGeometry` | proved | | pitch, size and blit in words of any size |
| 4 | `DarwinGBM` | checked, proved | extends `DumbBuffers` | buffer library with many clients |
| 5 | `SeatdDarwin` | checked, proved | | seat daemon |
| 6 | `SeatSession`, `DarwinSession` | checked, safety proved | extends `SeatdDarwin`, implements `SeatSession` | the client's side of the protocol, and a daemon that dies |
| 7 | `EventLoop` | checked, proved | | suspended sources, removal against running handlers, kqueue, destruction |
| 8 | `Compositor` | checked, proved | | list of views, focus, key bindings |
| 9 | `EvdevBridge` | checked, proved | | frames, full pipes, contacts |
| 10 | `ShellSurfaces` | checked, proved | | panel, launcher and wallpaper and their buffers |
| 11 | `ShellMain` | checked, proved | | round trips, outputs, keyboard and redraw of the shell |

The order follows what would hurt most: the kernel first, then what all clients
share, then the daemons, then the single-threaded programs. What is left is in section 7.

## 3. The modules

### DumbBuffers

What `/dev/dri/card0` promises: open buffers named by small handles, each with
memory that backs no other, and the handle last sent to the display. There is no
lock and no step inside an ioctl. `mode = "broken"` is the driver unloaded under a
running ioctl; nothing is promised after that.

### IODRMShim

| TLA+ | Code |
|---|---|
| `life`, `gShim`, `cdevsw`, `node` | where `start`/`stop` are, `gShim`, `fMajor >= 0`, `fDevfsToken` |
| `fLock` | `NoLock` (null or freed), `Free`, or the thread that holds it |
| `fBOs`, `fCurrentFbId`, `fMobileFramebuffer` | the fields of that name; of a `DumbBO`, `in_use` and `mem` |
| `live` | the `IOBufferMemoryDescriptor`s that exist |
| `fds`, `pc`, `cmd`, `arg` | threads with the device open, and the ioctl each is in |
| `overlap`, `panic` | history: `cdevsw_remove` found an ioctl in flight; freed memory or a freed lock was used |

An ioctl is cut where another thread can come between: after the unlocked test of
`gShim`, at the lock, at the allocation and at the blit. Everything else under the
lock is one action. `start` is cut at its publication of `gShim`, at the probe and at
the two registrations; `stop` at each of its statements (its loop over the buffers is
one step: it takes no lock, and an ioctl beside it is already `overlap`).

Named assumptions and bounds:

- A descriptor opened before an unload does not reach the driver after a reload
  (`StopCdevsw` empties `fds`): XNU answers from the empty switch entry.
- A driver unloaded under a running ioctl is not loaded again (`StartAlloc` requires
  `~overlap`), and a panic ends the run.
- `fCurrentFbId` starts at 0: I/O Kit allocates objects zeroed.
- `IOLockAlloc` gives a lock: the code does not look at its answer
  (`drm-shim/kern/IODRMShim.cpp:200`).
- After a busy unload the driver object itself may be freed too; `UsesFreed` looks at the
  lock and the buffers only. That is after `overlap`, where no property depends on it.
- Ioctls that only read constants (VERSION, GETCONNECTOR, GETENCODER, GETRESOURCES)
  are one command.
- The source spells the table size `MAX_DUMB_BOs` and defines `MAX_DUMB_BOS`; both
  are `NumBOs` here.

`AbsMode`, `AbsBufs` and `AbsScanout` map this state to `DumbBuffers`: a buffer opens
when its memory is assigned and closes when it is freed.

### DarwinGBM

Extends `DumbBuffers` with the library's structures and calls. Each ioctl of a call is
one step of the device, which is justified by the refinement above. Clients are
threads of any processes; a structure is used by the client that created it, as the
GBM interface asks, and `lock_front_buffer` is called only when `has_free_buffers`
says so. The handle of a new buffer is any free one (the driver takes the lowest, so
the model has more behaviours, never fewer). History: `holder` is the structure a
handle was last created for; `exposed` are structures created on a handle that an
older structure still names; `held` are the buffers handed out by a surface and not
released. The device stays loaded.

Left out: device objects, getters, user data and its callback, `gbm_bo_get_fd` (the
kernel turns the ioctl away).

### SeatdDarwin

| TLA+ | Code |
|---|---|
| `g_clients` | `fd` and the used part of `held_fds`; `active` is never read, `pid` is only logged |
| `fdt` | the process's descriptor table; `open` and `accept` give the lowest free number |
| `acc`, `src`, `h` | the accept handler, each connection's read source, and that source's handler |
| `peer`, `inbox`, `waiting`, `backlog` | the other ends, their unread request, and the listen queue |
| `raced`, `wrong` | history: a slot was reused before the old handler's last look at it; a descriptor was used or closed that was not meant |

Handlers of different sources interleave at every access to slots or descriptors.
Whether a source whose descriptor was closed can fire for the next owner of the same
number is up to libdispatch; the model allows it, and shows that it can only matter
after `raced`. A connection is made once, and a client has one request outstanding
(the wlroots session blocks for each answer).

### SeatSession and DarwinSession

`SeatSession` is what a caller of `darwin_session_create` and `darwin_session_destroy`
may expect: a creation ends, and a session that has its device keeps it until it is
destroyed. `DarwinSession` extends `SeatdDarwin`: some of the daemon's connections are
made by sessions.

| TLA+ | Code |
|---|---|
| `pc` | where `darwin_session_create` is; `killed` is a process ended by SIGPIPE |
| `drm` | who opened `drm_fd`: seatd, the session itself, or nobody |
| `reply` | the first message `recvmsg` will find |
| `up` | the daemon runs; `Kill` is SIGKILL, after which the kernel closes everything |

The handlers of the daemon are those of `SeatdDarwin`, and a reply sent by one reaches the
session whose connection the descriptor really is. The dispatch source of a session
(`patch:111`) has no handler and does nothing. The signals are left out: the daemon ignores
them.

### EventLoop

| TLA+ | Code |
|---|---|
| `source_count`, `sources` | the table; of a source its kind, `fd`, `cancelled`, and whether `dispatch_src` is set |
| `gcd` | the dispatch source of each slot: inactive (created, never resumed), active, cancelled, finished |
| `kq` | the `udata` of each descriptor's write filter |
| `at`, `call` | where each thread is in a handler or in dispatch, and in a function of the loop |
| `events`, `cur` | what `kevent` returned and is not processed yet |

The threads are main (0), which also dispatches, and the handler of each source. A
callback may call every function, from its own thread. A slot belongs to one source for
ever, so its number names the dispatch source and the handler too. The functions are cut
at every access to what other threads share: the test and the read and the write of
`source_count`, the registration with the kqueue (`AddRegister`), the test of
`dispatch_src` and its two uses, the setting of `cancelled` and the release. Between the
write of `source_count` and the registration another add can take the next slot and
register the same descriptor first; the filter, of which there is one per descriptor, then
stays with the slot that was given out first (`EV_ADD` replaces the `udata`). A source can
be removed when its add has returned, since nobody has its address before. Resuming a
source that is not suspended and releasing one that never was resumed end the process: that
is libdispatch's contract, and `crash` records it.

`careless` records that a caller broke the only discipline that libdispatch accepts of
this code: a timer is armed once, before it is removed, and not from two threads at a
time. `loop_safety` has callers of every kind; `loop_liveness` has careful ones.
`overlapped` records that an add began while another had not returned, and `clash` that a
slot was handed out twice or past the table. A mask that has the readable
and the writable bit is a read source, as in the code. A descriptor is closed when no source
watches it. After a slot was handed out twice the model stops, as after a crash. The
calls of two threads on one source's removal do not overlap: a source is removed once.

The file is not in the build of the repository (`src/CMakeLists.txt` has only a heading
for it); the build flags of the other targets (no optimisation) decide that
`source_count++` may read the count again.

### Compositor

`views` and `scene` are the list and the stacking of the toplevels, `focused` and
`keyboard` the seat, `activated` and `closing` what the toplevels were last told. Each
listener is one action, with everything it calls. What wlroots does by itself (an xdg
surface is unmapped before its destruction, a destroyed wl_surface loses the focus, an
unplugged keyboard leaves the seat without one) is external, and so is the assumption
behind `server_new_xdg_surface`, that a surface is announced when it is a toplevel.

Left out: outputs; keyboard grabs, under which `wlr_seat_keyboard_notify_enter` need not move
the focus (wlroots starts one for an xdg popup whose client asks for it); the pointer, which never finds a view; layer surfaces, whose listener
is declared and never added; the terminal and the shell, which are separate processes.

### EvdevBridge

| TLA+ | Code |
|---|---|
| `g_devices` | the table; of a device its kind, `mt_slot` and `mt_x` |
| `slotOf` | which slot's callback context a HID device was given |
| `queue` | values the run loop has not delivered, at most one per device |
| `busy`, `out` | the device and the events the callback has yet to write; each `write()` is a step, and blocks |
| `pipe` | events in a device's pipe, at most `Capacity` |
| `pressed`, `reader` | the user's side, and what a reader that acts at EV_SYN, as libinput does, has made of it |

Left out: the usages of a Digitizer that set nothing and still end in an EV_SYN
(`:220`); an empty frame changes neither the device nor what the reader has.

Bounds: one value waits per device, and `Usages` names the keys and buttons that are
pressed. Y positions and motion are treated as X is and are left out; so are the amounts of
motion. A contact identifier is taken to be a natural number: the remainder of a negative
one would be a negative index.

### ShellSurfaces

| TLA+ | Code |
|---|---|
| `obj` | of a `luna_panel`, `luna_launcher` or `luna_wallpaper`: `configured`, `visible`, `shm_fd`, and whether `pixels` is null, mapped, MAP_FAILED or points to what was unmapped |
| `role`, `shown`, `inflight` | the compositor's side of the layer-shell protocol |
| `buffers`, `memory`, `fds` | what the process owns according to the kernel and the compositor |
| `ended` | crash, abort in libwayland, or protocol error |

The shell has one thread: a call of `luna-shell.h` and an event are one step each, and
every allocation may fail. A configure that was sent before the compositor closed the surface
still arrives; what is then drawn is not shown. `earlyDestroy`, `failed`, `hidden` and `wrongClose` are history.
In the repository these functions are linked and not called yet; the model lets a caller call them in
every order that makes sense for an object (no use after a destruction).

### ShellMain

| TLA+ | Code |
|---|---|
| `at`, `trips`, `todo` | where `main` is: round trips, the loop over the outputs, the main loop |
| `bound`, `outputs`, `keyboard`, `launcher_visible` | the fields of `luna_shell`; of an output, whether width and scale are known |
| `tick` | `time(NULL)` differs from `last_sec` |
| `panels` | how many panels were created for each output, up to `MaxPanels` |
| `wire`, `broken` | events on their way, and whether the connection is over |
| `plugged`, `seatKb`, `replugged`, `strict`, `memory` | the compositor's side, and two choices made at the start: whether it insists on the configure, and for which outputs memory can be had |

A round trip is a request whose answer comes behind everything that was sent before it;
events are handled in a round trip as in the main loop. What was read together with the answer
of a round trip stays on the wire, where the next step of `main` that handles events finds it: libwayland would
handle it at once, and would drop what is queued after a protocol error. Bound: `MaxWire` events are on their
way, apart from those that end a round trip.

### DumbGeometry

The arithmetic of CREATE_DUMB and of `blitToDisplay`: constant operators, no state. Words
are `0..Word-1`; 64 bits are taken not to wrap.

## 4. Runs

| Run | Instance | States | Shows |
|---|---|---|---|
| `shim_safety` | 2 threads, 2 buffers, 2 descriptors; words of 9 bits | 457,016 | the safety properties, the refinement, and every ioctl returns |
| `gbm_safety` | 2 clients, 2 handles, 3 structures, 1 surface | 606,608 | buffers are kept, nothing leaks |
| `seatd_safety` | 3 connections, 2 slots, 3 descriptors | 1,797,442 | own descriptors only, no leak |
| `session` | 1 session, 2 other clients, 1 slot, 3 descriptors | 120,975 | creations end, hang-ups are cleaned up, daemon killed; no request forgotten |
| `loop_safety` | 3 sources (the third bounded), 2 descriptors, any callers | 2,271,304 | late callbacks, lost sources, double slots, use after free, crashes |
| `loop_liveness` | 3 sources (the third bounded), 1 descriptor, careful callers | 104,488 | ready descriptors are served |
| `comp_safety` | 4 windows | 49,269 | list, stacking, focus and activation agree |
| `bridge` | keyboard, pointer, touch pad; 2 slots, pipes of 1 event, 1 reader | 229,371 | keys, frames and contacts agree; when the bridge stalls |
| `surfaces` | panel, launcher, wallpaper | 242,582 | buffers, descriptors, protocol |
| `shell_main` | 2 outputs, 2 events under way, 2 panels | 331,409 | dimensions, keyboard, end, panels |
| `loop_waits`, `comp_close` | smallest | | disagreements, section 6 |

Why the bounds are enough. The kernel's hazards involve two threads and `stop`, or two
buffers competing for one descriptor; two of each also fill the table and exhaust the
memory. The double close needs two clients and one handle; the third structure is one
created on a reused handle while an older one still names it. Three descriptors for
three connections let a closed number be reused by `accept` and by `open`, and let both
fail; two slots let one number be in two slots, and three connections fill them.
In the two loop runs the first two sources are of any kind, so main and two handlers are
three threads; the third slot is given out only where the first source is a read source and
the others are write sources (`WritesAtTheEnd` in `MCEventLoop`). That is what it takes for the handler
of the first and main to add two write sources of one descriptor and register them in the
other order, with all three alive; the filter then names slot 2, and slot 3 has none. A
third slot of every kind is beyond what TLC can finish in minutes, and the theorems of section 5
have no such bound. Four windows allow one with the focus, one above it that is not mapped, one
below, and one that is gone.
In `session` the one slot is contended for, and three descriptors let the session's
device, or the connection, be the one there is no number for; the other two connect and hang
up and ask for nothing, which leaves behaviours out and adds none, since no fairness is required of
them. With fewer descriptors than the slots and two more a busy client could keep `accept`
from ever finding one. Pipes of one event make every frame block in the middle; two slots
for three devices fill the table, and one of the two has no reader. Two outputs are enough
for one to come while the other is visited, and one of each kind of surface for every
descriptor to be reused by another.
Symmetry is used in `gbm_safety`, `seatd_safety`, `loop_safety` and `comp_safety`.

The deadlock check is off where the system may stop: after a panic, and when all
connections, each made once, are over, after the loop is destroyed, when the
compositor or the shell ends, and when the bridge waits for a pipe nobody reads. `seatd_safety` reaches and checks the states in
which `raced` has just become true and does not go on from them, since every property
is conditional on its absence.

Every component's module has a type invariant. All of them are proved (section 5), those
of `IODRMShim`, `ShellSurfaces`, `EventLoop` and `SeatdDarwin` (which is part of `STypeOK`) without
a run of their own.

What the properties say:

- `TableMatchesMemory`: outside a running CREATE_DUMB, exactly the slots in use have
  memory, no two share it, and nothing else is allocated.
- `PanicOnlyIfBusyUnload`: a use of freed memory or of the freed lock needs an unload
  that found an ioctl in flight. `stop` really does not wait, so the condition is
  necessary; nothing else is.
- `RegisteredImpliesReady`: the orders of `start` and `stop`.
- `PinnedUnderLock`: the slot a thread works on is not changed by others.
- `ImplementsDumbBuffers`: refinement.
- `KeptUnlessExposed`, `ExposureNeedsWindow`: a buffer is lost to another client only
  if it was created on a handle an older structure names, and the first such
  structure appears only between somebody's DESTROY_DUMB and GEM_CLOSE. A process
  alone on the device, with serialised calls, is safe.
- `NoLeak`, `SurfaceBuffers`: ownership, also after a surface's failed creation.
- `OnlyOwnDescriptors`, `OneSourceEach`, `NoDescriptorLeak`: as in section 1, unless
  `raced`: that window, between `cl->fd = -1` and the block's test of it, exists in the
  code and its consequence is a source that is never cancelled.
- `AtMostOneLateCall`: after `wl_event_source_remove` a callback begins at most once
  more, and not at all if the thread that runs it removed it.
- `SlotOwnedOnce`: a slot is handed out twice only if two additions overlapped.
- `DestroyWhenQuiet`: the loop may be freed when no handler is at its test and all
  cancel handlers have run. The functions of the file give a caller no way to wait for
  that.
- `CrashOnlyIfCareless`: that discipline is sufficient.
- `StillWatched`: a source that is not removed is watched by its dispatch source, or by the
  filter of its descriptor. When there are several write sources of one descriptor the
  filter is that of the one registered last. Which one that is can be told from the table only as
  long as no two adds overlapped; if some did, a live source may have lost the filter to one before it.
- `Served`: for the same reason `WriteServed` lets a write source go without its callback when
  any other source has the filter, be it before or after it in the table.
- `ListIsStacking`, `OnlyFocusedActive`, `FocusedInFront`: the list, the scene, the focus
  of the seat and the state sent to the windows tell the same story. A window mapped
  without a keyboard ends that (`blind`).
- `ImplementsSeatSession`: refinement, with its liveness: the creation of a session ends
  whatever the daemon does. It holds only while no slot was reused too early; after
  that a reply may go to another client.
- `STypeOK`, `KilledOnlyIfTurnedAway`: besides the types, a session holds a device exactly
  while it is active, and one from seatd only if seatd said so; it is killed by SIGPIPE only if
  the daemon is gone or closed the connection.
- `NeverForgotten`: a session that blocks in `recvmsg` is never left alone: its request is in a
  socket somebody will read or with the handler that has read it, or an answer or the end of the connection
  is there. It is the safety half of `ImplementsSeatSession`.
- `ReaderAgrees`: when nothing is under way the reader's picture is the user's, in its keys
  (`KeysAgree`), its frames (`FramedAtRest`) and its contacts (`ContactsAgree`), whatever
  blocked before and whatever was unplugged. A gap that remains is motion, which is acted
  on with the next button.
- `Delivered`: only a pipe nobody reads stops the bridge. It then stops all of it.
- `ShownBufferAlive`, `EndsExplained` (that is `EndNeedsFailure` and `ErrorNeedsHidden`),
  `OwnsWhatExists`: buffers are
  replaced and given back properly in every order of calls, configures and failures, with
  two exceptions the properties name: a launcher shown again commits too early, and a panel
  destroyed before its first configure closes descriptor 0.
- The last part of `ShellMain`'s `TypeOK`, and `DimensionsKnown`, `DeafOnlyAfterReplug`,
  `BrokenEnds`, `PanelsPileUp`: the two round trips at the start and one per output suffice; results that are not looked
  at do no harm; the keyboard is heard until it is replugged; panels only ever increase.
- `IoctlReturns`, `HangupCleans`, `Served` (`ReadServed` for GCD's sources, `WriteServed` for
  those of the kqueue), and with them `ImplementsSeatSession`, `Delivered`, `BrokenEnds` and
  `PanelsPileUp`: liveness. That a session's request is answered, or its end closed, is
  part of `ImplementsSeatSession`.

Every property of a passing run has a mutant, a small mistake in a definition of the
model, that TLC finds with that property (the operators marked "Mutant of").

Fairness. Code that runs goes on (weak fairness of each thread's own steps; GCD runs
ready handlers). A thread waiting for `fLock` gets it if it is free again and again
(strong fairness of the acquisition): the XNU mutex wakes its waiters without handing
it over in order. A callback of the event loop returns, and main dispatches again and
again (the compositor's loop, `compositor/src/main.c:531`), although both may call
functions in between: strong fairness of these two. A `stop` that has begun goes on. In
`DarwinSession` a creation goes on as far as it can, and the daemon's handlers run while it lives.
In `EvdevBridge` a write that can proceed does, the run loop gets round to every device
(strong fairness: a callback may be blocked by others in between), and readers read. In
`ShellMain` the program goes on, time passes, and a batch of events ends although events may keep
arriving (strong fairness of `Clock`: `wl_display_dispatch` handles what it has read and
returns). Nobody has to open, connect, ask, hang up, load, unload, plug or press.

## 5. Proofs

`IODRMShimProofs` proves, for every set of threads, table size and set of
descriptors, from `NumBOsAssumption` and `NullAssumption` only:

| Theorem | Property |
|---|---|
| `TypeCorrect` | `TypeOK` |
| `TableCorrect` | `TableMatchesMemory` |
| `NoUseAfterFree` | `PanicOnlyIfBusyUnload` |
| `ReadyWhileRegistered` | `RegisteredImpliesReady` |
| `Pinned` | `PinnedUnderLock` |
| `LockHeldInSections` | the safety half of `IoctlReturns`: no ioctl ends with `fLock` held |
| `Refinement` | `ImplementsDumbBuffers` |

The argument. `TypeOK` is inductive on its own (`TypeCorrect`). The other properties
are not: `TableMatchesMemory` says nothing about who may change a slot. The inductive
invariant `IInv` adds, as long as `~overlap`,

- `LifeInv`: what the phase of `start`/`stop` says about `gShim`, `cdevsw` and `node`
  (holds without a condition);
- `FlightInv`: ioctls are in flight only while the driver is there for them;
- `LockInv`: the thread that holds `fLock` is the one, and the only one, whose `pc` is
  in a critical section;
- `SlotInv`: what such a thread may rely on about its slot;
- `OwnInv`: the slots in use partition the live memory.

`NoFault` shows that no thread can use anything freed in such a state; `InvStep`
combines a lemma for the driver's steps (`TrustedDriver`) with one for a thread's
(`TrustedTask`). `Pinned` and `Refinement` follow per action from the invariant; in
the refinement `allocHandle` needs `AllocHandleFacts`, that the lowest free slot
exists, which rests on well-founded induction over the naturals from the library
(`LeastElement`).

The last section of `IODRMShimProofs` proves the arithmetic of `DumbGeometry` for words of any size that is a multiple of 64,
and any requests and displays:

| Theorem | Statement |
|---|---|
| `RowsFitHolds` | `RowsFit`: a row holds its pixels, unless width * bits wraps |
| `BlitInBoundsHolds` | `BlitInBounds`: the blit reads within the buffer and writes within the display, wrapped or not |
| `BlitReadsRowsHolds` | `BlitReadsRows`: it reads the right rows, in buffers of at most a word of bytes |

TLC evaluates the three on words of nine bits as an assumption of `MCIODRMShim`.

`CompositorProofs` proves the safety of `Compositor` for every set of surfaces,
without any assumption:

| Theorem | Property |
|---|---|
| `TypeCorrect` | `TypeOK` |
| `ListIsStackingHolds` | `ListIsStacking` |
| `OnlyFocusedActiveHolds` | `OnlyFocusedActive` |
| `FocusedInFrontHolds` | `FocusedInFront` |

`ListIsStacking` is inductive on its own. `OnlyFocusedActive` is not: a destroyed
surface gives up the focus, and were it still active, an active window without the
focus would remain. `FocusInv` adds that whatever is mapped or active still has its
view, which wlroots' unmap before the destruction makes true. Nor is `FocusedInFront`: a
window with the focus may be unmapped and mapped again without being raised, so no mapped view
may come in front of it in the meantime either (`NoneInFront`); and the list has each view
once (`ViewInv`). What a step does to the order is said
by the lemmas about lists: removing a view keeps the order of the others, and raising one
puts it before them all.

`ShellSurfacesProofs` proves all properties of `ShellSurfaces` for any number of panels and
wallpapers, from `KindsAssumption` only:

| Theorem | Property |
|---|---|
| `TypeCorrect` | `TypeOK` |
| `ShownBufferAliveAlways` | `ShownBufferAlive` |
| `EndNeedsFailureAlways` | `EndNeedsFailure` |
| `ErrorNeedsHiddenAlways` | `ErrorNeedsHidden` |
| `EndsExplainedAlways` | `EndsExplained` |
| `OwnsWhatExistsAlways` | `OwnsWhatExists` |

Not even `TypeOK` is inductive: that there is never more than one buffer per surface needs
that the count follows the pixels (`Counted`), and what an object and the compositor know
of each other (`Known`). `TypeInv` joins these. On it rest, one by one, `Shown` (a mapped surface
shows a buffer, and its object has pixels), `Failures` (bad pixels come from a failure), `Agreed` (an
object is configured only if the compositor thinks so, until a launcher was hidden) and
`Owned` (a surface's descriptor is the one whose table entry is the surface). That the lowest
free descriptor exists and is free (`MinOfNat`) rests on well-founded induction from the library.

`DarwinSessionProofs` first proves the safety of the daemon (`SeatdDarwin`) for any number of connections, slots and
descriptors, from `SlotsAssumption` and `EntryAssumption` only:

| Theorem | Property |
|---|---|
| `TypeCorrect` | `TypeOK` |
| `OnlyOwnDescriptorsAlways` | `OnlyOwnDescriptors` |
| `OneSourceEachAlways` | `OneSourceEach` |
| `NoDescriptorLeakAlways` | `NoDescriptorLeak` |

`TypeOK` is inductive. The properties need to know who owns what, which no variable of the
program says. `IInv` says it for the time until a slot is reused under a handler (`raced`):
the connection of a source owns its slot from `dispatch_resume` until its handler has closed the
descriptor (`OwnerInv`), no two live sources have the same slot (`SlotInv`), each descriptor of a
connection is owned or still with the accept handler (`ConnInv`, `AccInv`), and a device is
in the hands of the one handler that opened it (`DevInv`). `HandlerInv` and `FromInv` say
that a handler runs for a source that exists and answers the connection it read from.
There is one lemma per step of a handler; the one that matters is `ScanTakeInv`: a slot that is free
and of which no handler has yet to look again has no live source.

Then it proves what the composition adds, for any sessions among the connections
(`SessionsAssumption`):

| Theorem | Property |
|---|---|
| `SessionTypeCorrect` | `STypeOK` |
| `KilledOnlyIfTurnedAwayAlways` | `KilledOnlyIfTurnedAway` |
| `NeverForgottenAlways` | `NeverForgotten` |
| `SafetyRefinement` | `SSpec => Abstract!Init /\ [][Abstract!Next]_<<AbsState, raced>>` |

A step of the composition is a step of `SeatdDarwin`, a request sent, or the kill (`SNextSteps`),
so `IInv` carries over while the daemon is up. `SInv` adds `Reached`: an open connection waits to be
accepted or has a descriptor in the daemon, and a handler closes one only after its
peer hung up. So nobody but the accept handler, when all slots are taken, ends a connection its
client still uses. `AskInv` says what a session and its handler know of each other: no handler
runs before the session has sent, and from then on the request is followed from the socket to
the reply; there is a lemma for the accept handler, for the firing of a source, for a session's own
handler and that of another, and for the sessions themselves. `SafetyRefinement` is `ImplementsSeatSession` without its fairness: every
behaviour starts and goes on as `SeatSession` says. A step of the daemon leaves what
`SeatSession` knows of every session alone or ends the time before `raced`, and a step of a session
is the one of the same name there.

`DarwinGBMProofs` proves all properties of `DarwinGBM` for any number of clients, handles,
structures and surfaces, from `GbmNullAssumption` only:

| Theorem | Property |
|---|---|
| `GbmTypeCorrect` | `GbmTypeOK` |
| `KeptUnlessExposedAlways` | `KeptUnlessExposed` |
| `ExposureNeedsWindowAlways` | `ExposureNeedsWindow` |
| `NoLeakAlways` | `NoLeak` |
| `SurfaceBuffersAlways` | `SurfaceBuffers` |

What a client is in the middle of is in its `call` and, as the state of a structure, in `bo` and
`surf`; the invariant says that the two fit (`CallInv`, `BoInv`, `SurfInv`). A step changes
only what belongs to its client or was free (`Local`), so what the others rely on stays, once and for
all steps (`OthersKept`). Of what is shared, `KeptInv` says that no second structure names the handle of
a buffer that was not exposed, which is why the two closes of another client miss it; `HolderInv`
says whose an open handle is, and `HeldInv` which buffer of a surface is out. There is one lemma
or two per step; the one that matters is `ClosedKept`: closing a handle, for the first or for
the second time, takes no buffer that was not exposed from anybody else.

`EventLoopProofs` proves the safety of `EventLoop` for any number of sources and
descriptors, from `MaxSourcesAssumption` only:

| Theorem | Property |
|---|---|
| `TypeCorrect` | `TypeOK` |
| `SlotOwnedOnceAlways` | `SlotOwnedOnce` |
| `AtMostOneLateCallAlways` | `AtMostOneLateCall` |
| `CrashOnlyIfCarelessAlways` | `CrashOnlyIfCareless` |
| `DestroyWhenQuietAlways` | `DestroyWhenQuiet` |
| `StillWatchedAlways` | `StillWatched` |

`StillWatched` needs two of the others: `MainOK`, that a filter belongs to a write source of its
descriptor, and `AddInv`, that without overlapping adds the source being registered is the last of the
table. A step that touches no registration is dealt with once, by `WatchKept`. `SourceInv` says of each source how far its dispatch source
is (suspended, running, cancelled) and that, once removed, it has one callback at most before
it, the one past its test of `cancelled`; `CallInv` says what a thread inside a function may
rely on. Two conditions hold only while callers behave: `AddInv`, that the slot being filled is
still the one after the last, as long as additions do not overlap, and `CareInv`, that nobody
else is about to arm, resume or release the source a thread works on. `QuietInv` carries the moment of the
destruction into the time after it.

`EvdevBridgeProofs` proves the safety of `EvdevBridge` for any number of devices, of keys,
contacts and positions, and pipes of any capacity, from the module's assumptions only:

| Theorem | Property |
|---|---|
| `TypeCorrect` | `TypeOK` |
| `ReaderAgreesAlways` | `ReaderAgrees` |

`ReaderAgrees` speaks of moments of rest, of which nothing can be concluded by induction; in
between, any number of events are on their way. The invariant (`RowInv`) says that there is a
row of reader states, one more than there are events under way: the first is what the
reader knows, each next one is what it knows after one event more, and the last is what the
bridge knows (`Settled`). A callback lengthens the row at its end, a read takes off its first state, and a write moves an event from the queue to the
pipe and leaves the row as it is. At rest the row has one state. `KeysRight` says the same of
the user's keys and the values that have not reached the bridge.

`ShellMainProofs` proves the safety of `ShellMain` for any outputs, any number of them and any
length of the wire, from `BoundsAssumption` only:

| Theorem | Property |
|---|---|
| `TypeCorrect` | `TypeOK` |
| `DeafOnlyAfterReplugAlways` | `DeafOnlyAfterReplug` |
| `DimensionsKnownAlways` | `DimensionsKnown` |

Not even `TypeOK` is inductive: its last part needs that the globals are announced before
everything else and once, and panels only come after the test. Every step takes at most one event from
the front of the wire and adds at most two at its end (`Moves`); `MoveFacts` and `DueFacts` say what
that does. The invariant is about what is due: width and scale of a listed output are known or on the wire
(`SizeInv`), and during the round trip for an output they come before its end, since nothing
that was due then can come later; and as long as the seat has not lost its keyboard, the shell has it or its
announcement is on the wire (`KeyInv`). An empty wire, or one that begins with the end of the
round trip, leaves nothing due.

Only model-checked: liveness (`IoctlReturns`, `HangupCleans`, `Served`, `Delivered`, `BrokenEnds`,
`PanelsPileUp` and the fairness in `ImplementsSeatSession`), which is out of the prover's
reach.

## 6. Where the code and its comments disagree

Shown by a run:

- `loop_waits`: dispatch "just needs to wait for something to happen" (`:186`); with a
  removed write source it does not wait.
- `comp_close`: "Super+Q: close focused window" (`compositor/src/main.c:207`); the first
  view of the list is closed, after the focused window is gone for instance.

Met on the way, visible in one place and without a run:

- "Run until signal" (`seatd-darwin/seatd-darwin.c:253`); the flag the handler sets is never
  read, so the daemon goes on accepting after SIGTERM.
- "caller sets interval via wl_event_source_timer_update"
  (`libwayland-darwin/wayland-darwin-event-loop.c:157`); the second call resumes what runs, which ends
  the process (`CrashOnlyIfCareless` counts it as careless).
- "libinput reads from pipe_r" and "Create symlink in /dev/input/" (`evdev-bridge/darwin-evdev-bridge.c:81`,
  `:258`); neither happens: nothing can open the pipes, and the first one that is full stops the
  bridge. `Delivered` shows that this is the only way it stops.
- The usage 0x30 is compared with `kHIDUsage_GD_X` on the Digitizer page (`:205`), where it is the
  tip's pressure; positions on the GenericDesktop page are dropped for touch pads.
- Globe and the left Super key share a code (`:174`), so releasing one releases both.
- "Redraw panel clock every second" (`shell/src/luna-shell-main.c:340`); another panel is created,
  and only after an event. `PanelsPileUp` says so.
- Panel and wallpaper commit a buffer before their first configure (`:186`, `:223`), which wlroots
  answers with a protocol error.
- `luna_panel_destroy` before the first configure closes descriptor 0 (`shell/src/luna-panel.c:187`).
- The direct open of the device is tried when seatd refuses, not when it cannot be reached
  (`patches/wlroots/0001-drm-darwin-arm64-backend.patch:102`).
- The boot script has `set -e`, so a compositor that ends with an error ends it at its `wait`, before
  seatd is killed (`rc.lunaos:15`, `:94`).
- SETCRTC with `fb_id` 0 is commented "disable display"
  (`drm-shim/kern/IODRMShim.cpp:328`) and changes nothing.
- The header lists RMFB and PRIME_HANDLE_TO_FD (`IODRMShim.cpp:14-17`); the dispatcher
  answers ENOTTY.
- "For QEMU arm64 virt machine: standard mmap works fine"
  (`drm-shim/user/libdrm-darwin.c:112`); `drm_mmap` returns ENOTSUP everywhere.
- "Track the held fd so we can revoke on session switch"
  (`seatd-darwin/seatd-darwin.c:115`); the descriptor is closed five lines later.
- "Super+M maximize focused window" (`compositor/src/main.c:22`); the key is not handled.

## 7. Not modelled

- `rc.lunaos`: straight-line shell that starts the daemons one after the other; what a
  program does when its peer is not there is in `DarwinSession` and `ShellMain`.
- Of libdrm-darwin: the structures that queries fill and free; they copy what the kernel
  answers, and nothing else touches them.
- Of darwin-gbm: device objects, getters, user data.
- Of the compositor: outputs, the pointer, two keyboards at once (what then happens depends
  on how wlroots walks its lists).
- Of the shell: `luna_apps_load` and `luna_app_launch`, drawing.
- Build scripts and images, patches of Mesa and of the Vulkan loader (third-party code), the
  example applications, pixel contents, logging.

Worth doing next: outputs and a second keyboard in `Compositor`.
