---------------------------- MODULE SeatdDarwin ----------------------------
(***************************************************************************)
(* seatd-darwin: the daemon that opens device nodes for compositors and    *)
(* passes the descriptors over a UNIX socket.  Everything runs in handlers *)
(* of GCD sources on one concurrent queue: the accept source, and a read   *)
(* source for each connection.  A source's own handler never overlaps with *)
(* itself; handlers of different sources do, and share g_clients and the   *)
(* descriptor table of the process without a lock.                         *)
(*                                                                         *)
(* A handler is split at every access to what the handlers share.          *)
(***************************************************************************)
EXTENDS Integers, Sequences

CONSTANTS
  Conns,      \* connections, each made once
  NumSlots,   \* MAX_CLIENTS
  NumFds,     \* descriptors the daemon can have open, its own sockets apart
  MaxHeld,    \* length of held_fds
  Unused,     \* an entry of the descriptor table that is not open
  Device,     \* an entry that is an open device node
  NoConn      \* no connection

ASSUME SlotsAssumption == /\ NumSlots \in Nat \ {0}
                          /\ NumFds \in Nat \ {0}
                          /\ MaxHeld \in Nat \ {0}
ASSUME EntryAssumption == {Unused, Device, NoConn} \cap Conns = {} /\ Unused # Device

Slots == 1..NumSlots
Fds   == 1..NumFds

\* The requests, by what the daemon does with them: OPEN_DEVICE of an allowed
\* path and of another one; CLOSE_DEVICE, ENABLE_SEAT and DISABLE_SEAT, which are
\* only acknowledged; and a type it does not know, which gets no reply.
Answered == {"open", "open_bad", "ack"}
Msgs     == Answered \cup {"unknown"}
NoMsg    == "none"

VARIABLES
  \* outside the daemon
  peer,       \* the other end of each connection
  inbox,      \* the request that waits in the socket
  waiting,    \* has it asked for something and got no reply yet?
  backlog,    \* connections that wait to be accepted
  \* the daemon
  fdt,        \* its descriptor table
  g_clients,
  acc,        \* the accept handler
  src,        \* the read source of each connection: state, descriptor, slot
  h,          \* the handler of each of these sources
  g_running,
  \* history
  raced,      \* was a slot reused before the old handler's last look at it?
  wrong       \* was a descriptor used or closed that was not meant?

outside == <<peer, inbox, waiting, backlog>>
vars == <<outside, fdt, g_clients, acc, src, h, g_running, raced, wrong>>

\* held_fds stands for its first held_count entries.  active is written and never
\* read, so it is left out, as is pid, which is only logged.
client    == [fd : Fds \cup {-1}, held_fds : UNION {[1..n -> Fds] : n \in 0..MaxHeld}]
EmptySlot == [fd |-> -1, held_fds |-> <<>>]

NoAcc     == [at |-> "idle", fd |-> -1, conn |-> NoConn, slot |-> 1]
NoSrc     == [state |-> "none", fd |-> -1, slot |-> 1]
Cancelled == [NoSrc EXCEPT !.state = "cancelled"]
NoHandler == [at |-> "idle", from |-> NoConn, dev |-> -1]

\* open() and accept() take the lowest free number.
FreeFds  == {f \in Fds : fdt[f] = Unused}
LowestFd == CHOOSE f \in FreeFds : \A g \in FreeFds : f <= g

\* What a descriptor of the daemon refers to; -1 refers to nothing.
At(fd)      == IF fd \in Fds THEN fdt[fd] ELSE Unused
CloseFd(fd) == fdt' = IF fd \in Fds THEN [fdt EXCEPT ![fd] = Unused] ELSE fdt

Readable(k) == inbox[k] # NoMsg \/ peer[k] = "hungup"

\* The client the handler of source k works on: &g_clients[i], captured by the block.
Cl(k) == g_clients[src[k].slot]

Init ==
  /\ peer = [k \in Conns |-> "new"]
  /\ inbox = [k \in Conns |-> NoMsg]
  /\ waiting = [k \in Conns |-> FALSE]
  /\ backlog = {}
  /\ fdt = [f \in Fds |-> Unused]
  /\ g_clients = [i \in Slots |-> EmptySlot]
  /\ acc = NoAcc
  /\ src = [k \in Conns |-> NoSrc]
  /\ h = [k \in Conns |-> NoHandler]
  /\ g_running = TRUE
  /\ raced = FALSE
  /\ wrong = FALSE

-----------------------------------------------------------------------------
(* Compositors and other clients: connect, one request at a time, hang up.  *)

daemon == <<fdt, g_clients, acc, src, h, raced, wrong>>

Connect(k) ==
  /\ peer[k] = "new"
  /\ peer' = [peer EXCEPT ![k] = "open"]
  /\ backlog' = backlog \cup {k}
  /\ UNCHANGED <<inbox, waiting, g_running, daemon>>

Request(k) ==
  /\ peer[k] = "open" /\ inbox[k] = NoMsg /\ ~waiting[k]
  /\ \E m \in Msgs : /\ inbox' = [inbox EXCEPT ![k] = m]
                     /\ waiting' = [waiting EXCEPT ![k] = m \in Answered]
  /\ UNCHANGED <<peer, backlog, g_running, daemon>>

\* What was sent before can still be read.
Hangup(k) ==
  /\ peer[k] = "open"
  /\ peer' = [peer EXCEPT ![k] = "hungup"]
  /\ UNCHANGED <<inbox, waiting, backlog, g_running, daemon>>

\* SIGTERM or SIGINT.
sig_handler ==
  /\ g_running /\ g_running' = FALSE
  /\ UNCHANGED <<outside, daemon>>

-----------------------------------------------------------------------------
(* accept_client.                                                           *)

\* Without a free descriptor accept() fails and the source fires again.
Accept ==
  /\ acc.at = "idle" /\ FreeFds # {}
  /\ \E k \in backlog :
       /\ backlog' = backlog \ {k}
       /\ fdt' = [fdt EXCEPT ![LowestFd] = k]
       /\ acc' = [at |-> "scan", fd |-> LowestFd, conn |-> k, slot |-> 1]
  /\ UNCHANGED <<peer, inbox, waiting, g_clients, src, h, g_running, raced, wrong>>

ScanNext ==
  /\ acc.at = "scan" /\ g_clients[acc.slot].fd >= 0 /\ acc.slot < NumSlots
  /\ acc' = [acc EXCEPT !.slot = @ + 1]
  /\ UNCHANGED <<outside, fdt, g_clients, src, h, g_running, raced, wrong>>

\* Mutant of ScanTake: the slot is taken without looking whether it is free.
ScanTakeBusy ==
  /\ acc.at = "scan"
  /\ g_clients' = [g_clients EXCEPT ![acc.slot].fd = acc.fd,
                                    ![acc.slot].held_fds = <<>>]
  /\ src' = [src EXCEPT ![acc.conn] =
               [state |-> "armed", fd |-> acc.fd, slot |-> acc.slot]]
  /\ acc' = NoAcc
  /\ UNCHANGED <<outside, fdt, h, g_running, raced, wrong>>

\* Mutant of ScanFull: the connection stays open.
ScanFullKeepsOpen ==
  /\ acc.at = "scan" /\ g_clients[acc.slot].fd >= 0 /\ acc.slot = NumSlots
  /\ acc' = NoAcc
  /\ UNCHANGED <<outside, fdt, g_clients, src, h, g_running, raced, wrong>>

\* No slot: the connection is closed, and its peer sees that.
ScanFull ==
  /\ acc.at = "scan" /\ g_clients[acc.slot].fd >= 0 /\ acc.slot = NumSlots
  /\ CloseFd(acc.fd)
  /\ peer' = [peer EXCEPT ![acc.conn] = "refused"]
  /\ waiting' = [waiting EXCEPT ![acc.conn] = FALSE]
  /\ inbox' = [inbox EXCEPT ![acc.conn] = NoMsg]
  /\ acc' = NoAcc
  /\ UNCHANGED <<backlog, g_clients, src, h, g_running, raced, wrong>>

\* A handler that has freed the slot and not yet looked at it again.
Leaving(i) == {k \in Conns : src[k].slot = i /\ h[k].at = "check" /\ Cl(k).fd < 0}

\* Mutant of ScanTake: no return, so the close() behind the loop is reached as well.
ScanTakeNoReturn ==
  /\ acc.at = "scan" /\ g_clients[acc.slot].fd < 0
  /\ g_clients' = [g_clients EXCEPT ![acc.slot].fd = acc.fd,
                                    ![acc.slot].held_fds = <<>>]
  /\ src' = [src EXCEPT ![acc.conn] =
               [state |-> "armed", fd |-> acc.fd, slot |-> acc.slot]]
  /\ acc' = NoAcc
  /\ CloseFd(acc.fd)
  /\ UNCHANGED <<outside, h, g_running, raced, wrong>>

\* A slot whose fd is negative is taken, and a read source resumed.
ScanTake ==
  /\ acc.at = "scan" /\ g_clients[acc.slot].fd < 0
  /\ g_clients' = [g_clients EXCEPT ![acc.slot].fd = acc.fd,
                                    ![acc.slot].held_fds = <<>>]
  /\ src' = [src EXCEPT ![acc.conn] =
               [state |-> "armed", fd |-> acc.fd, slot |-> acc.slot]]
  /\ acc' = NoAcc
  /\ raced' = (raced \/ Leaving(acc.slot) # {})
  /\ UNCHANGED <<outside, fdt, h, g_running, wrong>>

-----------------------------------------------------------------------------
(* The handler of a read source: handle_client_message, then the test that  *)
(* cancels the source.                                                      *)

\* A source fires when the descriptor number it watches can be read.  That a
\* source may fire for whatever has its number now is external (libdispatch and
\* kqueue): it makes no difference as long as no source outlives its descriptor.
Fire(k) ==
  /\ src[k].state = "armed"
  /\ At(src[k].fd) \in Conns /\ Readable(At(src[k].fd))
  /\ src' = [src EXCEPT ![k].state = "running"]
  /\ h' = [h EXCEPT ![k] = [NoHandler EXCEPT !.at = "recv"]]
  /\ UNCHANGED <<outside, fdt, g_clients, acc, g_running, raced, wrong>>

\* recv() of a request.
RecvMsg(k) ==
  /\ h[k].at = "recv"
  /\ At(Cl(k).fd) \in Conns
  /\ LET c == At(Cl(k).fd) IN
       /\ inbox[c] # NoMsg
       /\ inbox' = [inbox EXCEPT ![c] = NoMsg]
       /\ h' = [h EXCEPT ![k] =
            [at |-> CASE inbox[c] = "open"    -> "open"
                      [] inbox[c] = "unknown" -> "check"
                      [] OTHER                -> "send",
             from |-> c, dev |-> -1]]
  /\ UNCHANGED <<peer, waiting, backlog, fdt, g_clients, acc, src, g_running, raced, wrong>>

\* recv() of the end of the stream, or of a descriptor that is no socket.
RecvEnd(k) ==
  /\ h[k].at = "recv"
  /\ LET c == At(Cl(k).fd) IN
       /\ c \in Conns => inbox[c] = NoMsg /\ peer[c] = "hungup"
       /\ h' = [h EXCEPT ![k].at = "close", ![k].from = IF c \in Conns THEN c ELSE NoConn]
  /\ UNCHANGED <<outside, fdt, g_clients, acc, src, g_running, raced, wrong>>

CloseClient(k) ==
  /\ h[k].at = "close"
  /\ CloseFd(Cl(k).fd)
  /\ wrong' = (wrong \/ At(Cl(k).fd) # h[k].from)
  /\ h' = [h EXCEPT ![k].at = "clear_fd"]
  /\ UNCHANGED <<outside, g_clients, acc, src, g_running, raced>>

\* Mutant of ClearFd: the slot keeps the number of the closed descriptor.
ClearFdForgotten(k) ==
  /\ h[k].at = "clear_fd"
  /\ h' = [h EXCEPT ![k].at = "check"]
  /\ UNCHANGED <<outside, fdt, g_clients, acc, src, g_running, raced, wrong>>

ClearFd(k) ==
  /\ h[k].at = "clear_fd"
  /\ g_clients' = [g_clients EXCEPT ![src[k].slot].fd = -1]
  /\ h' = [h EXCEPT ![k].at = "check"]
  /\ UNCHANGED <<outside, fdt, acc, src, g_running, raced, wrong>>

\* handle_open_device: open() gives a descriptor, whose number is kept in
\* held_fds if there is room, or it fails.
OpenDevice(k) ==
  /\ h[k].at = "open"
  /\ \/ /\ FreeFds # {}
        /\ fdt' = [fdt EXCEPT ![LowestFd] = Device]
        /\ h' = [h EXCEPT ![k].at = "send", ![k].dev = LowestFd]
        /\ g_clients' =
             IF Len(Cl(k).held_fds) < MaxHeld
               THEN [g_clients EXCEPT ![src[k].slot].held_fds = Append(@, LowestFd)]
               ELSE g_clients
     \/ /\ h' = [h EXCEPT ![k].at = "send"]
        /\ UNCHANGED <<fdt, g_clients>>
  /\ UNCHANGED <<outside, acc, src, g_running, raced, wrong>>

\* The reply, with the descriptor or with an error, goes to cl->fd.  One that
\* cannot be sent (the peer is gone) is dropped.
Send(k) ==
  /\ h[k].at = "send"
  /\ LET c == At(Cl(k).fd) IN
       /\ waiting' = IF c \in Conns THEN [waiting EXCEPT ![c] = FALSE] ELSE waiting
       /\ wrong' = (wrong \/ c # h[k].from \/ (h[k].dev # -1 /\ At(h[k].dev) # Device))
  /\ h' = [h EXCEPT ![k].at = IF h[k].dev # -1 THEN "close_dev" ELSE "check"]
  /\ UNCHANGED <<peer, inbox, backlog, fdt, g_clients, acc, src, g_running, raced>>

CloseDevice(k) ==
  /\ h[k].at = "close_dev"
  /\ CloseFd(h[k].dev)
  /\ wrong' = (wrong \/ At(h[k].dev) # Device)
  /\ h' = [h EXCEPT ![k].at = "check"]
  /\ UNCHANGED <<outside, g_clients, acc, src, g_running, raced>>

\* Mutant of CheckCancel: the source is never cancelled.
CheckCancelNever(k) ==
  /\ h[k].at = "check"
  /\ src' = [src EXCEPT ![k].state = "armed"]
  /\ h' = [h EXCEPT ![k] = NoHandler]
  /\ UNCHANGED <<outside, fdt, g_clients, acc, g_running, raced, wrong>>

\* The block's own test: a slot without a descriptor has lost its connection.
CheckCancel(k) ==
  /\ h[k].at = "check"
  /\ src' = [src EXCEPT ![k] = IF Cl(k).fd < 0 THEN Cancelled
                               ELSE [@ EXCEPT !.state = "armed"]]
  /\ h' = [h EXCEPT ![k] = NoHandler]
  /\ UNCHANGED <<outside, fdt, g_clients, acc, g_running, raced, wrong>>

-----------------------------------------------------------------------------
accept_client == Accept \/ ScanNext \/ ScanFull \/ ScanTake

Handler(k) == \/ RecvMsg(k) \/ RecvEnd(k) \/ CloseClient(k) \/ ClearFd(k)
              \/ OpenDevice(k) \/ Send(k) \/ CloseDevice(k) \/ CheckCancel(k)

Next == \/ accept_client
        \/ sig_handler
        \/ \E k \in Conns : Connect(k) \/ Request(k) \/ Hangup(k) \/ Fire(k) \/ Handler(k)

Spec == Init /\ [][Next]_vars
-----------------------------------------------------------------------------
(* Properties.                                                              *)

TypeOK ==
  /\ peer \in [Conns -> {"new", "open", "hungup", "refused"}]
  /\ inbox \in [Conns -> Msgs \cup {NoMsg}]
  /\ waiting \in [Conns -> BOOLEAN]
  /\ backlog \subseteq Conns
  /\ fdt \in [Fds -> Conns \cup {Unused, Device}]
  /\ g_clients \in [Slots -> client]
  /\ acc \in [at : {"idle", "scan"}, fd : Fds \cup {-1}, conn : Conns \cup {NoConn}, slot : Slots]
  /\ src \in [Conns -> [state : {"none", "armed", "running", "cancelled"},
                        fd : Fds \cup {-1}, slot : Slots]]
  /\ h \in [Conns -> [at : {"idle", "recv", "close", "clear_fd",
                            "open", "send", "close_dev", "check"},
                      from : Conns \cup {NoConn},
                      dev : Fds \cup {-1}]]
  /\ g_running \in BOOLEAN /\ raced \in BOOLEAN /\ wrong \in BOOLEAN

\* No handler ever closes, or sends a device to, a descriptor that is not the one
\* it received from, although closed numbers are given out again at once by
\* accept() and open() in handlers that run beside it.  The only exception is a
\* daemon in which a slot was reused while the handler that freed it had not
\* finished: its source is then never cancelled.
OnlyOwnDescriptors == wrong => raced

\* The slots that serve a connection: those not given up by a handler that has
\* closed the descriptor and not yet cleared the slot.
Serving == {i \in Slots : /\ g_clients[i].fd # -1
                          /\ \A k \in Conns : h[k].at = "clear_fd" => src[k].slot # i}
LiveSources(i) == {k \in Conns : src[k].slot = i /\ src[k].state \in {"armed", "running"}
                                 /\ Cl(k).fd # -1
                                 /\ h[k].at # "clear_fd"}

\* Each served connection has one slot and one source of its own.
OneSourceEach ==
  ~raced =>
    /\ \A i \in Serving :
         LET c == At(g_clients[i].fd) IN
         /\ c \in Conns
         /\ src[c].slot = i /\ src[c].fd = g_clients[i].fd
         /\ src[c].state \in {"armed", "running"}
         /\ LiveSources(i) \subseteq {c}
    /\ \A i, j \in Serving : g_clients[i].fd = g_clients[j].fd => i = j

\* No descriptor leaks: one that is open is a connection that a slot serves or
\* that is being accepted, or a device that a handler is about to hand over.
NoDescriptorLeak ==
  ~raced =>
    \A f \in Fds :
      /\ fdt[f] \in Conns => \/ \E i \in Serving : g_clients[i].fd = f
                             \/ acc.at = "scan" /\ acc.fd = f
      /\ fdt[f] = Device => \E k \in Conns : h[k].dev = f /\ h[k].at \in {"send", "close_dev"}

\* When a peer hangs up, its descriptor is closed and its source cancelled.
HangupCleans ==
  \A k \in Conns : (peer[k] = "hungup" /\ src[k].state # "none")
                     ~> (src[k].state = "cancelled" /\ \A f \in Fds : fdt[f] # k) \/ raced
=============================================================================
