--------------------------- MODULE DarwinSession ---------------------------
(***************************************************************************)
(* The session that the patch gives wlroots' DRM backend, together with    *)
(* the daemon it talks to: some of seatd's connections are made by         *)
(* darwin_session_create, which sends one request and blocks in recvmsg    *)
(* until there is an answer or the connection is closed.  The daemon may   *)
(* be killed at any time; then every connection is closed and no other can *)
(* be made.  (The dispatch source of a session has no handler.)            *)
(***************************************************************************)
EXTENDS SeatdDarwin

CONSTANT Sessions  \* the connections of sessions

ASSUME SessionsAssumption == Sessions \subseteq Conns

VARIABLES
  up,     \* the daemon runs
  pc,     \* where each session is
  drm,    \* who opened its DRM device: nobody, seatd, or the session itself
  reply   \* what recvmsg finds first: a reply with a descriptor, one with an error, or none

svars == <<up, pc, drm, reply>>

SInit == /\ Init
         /\ up = TRUE
         /\ pc = [k \in Sessions |-> "none"]
         /\ drm = [k \in Sessions |-> "none"]
         /\ reply = [k \in Sessions |-> "none"]

-----------------------------------------------------------------------------
(* The daemon.  SIGTERM and SIGINT, which only set a flag that nothing reads, are left out. *)

Accepts  == up /\ accept_client /\ UNCHANGED svars
Fires(k) == up /\ Fire(k) /\ UNCHANGED svars

\* A step of a handler; a reply it sends reaches the session.
Handles(k) ==
  /\ up /\ UNCHANGED <<up, pc, drm>>
  /\ \/ /\ Send(k)
        /\ reply' = [s \in Sessions |-> IF s # At(Cl(k).fd) \/ reply[s] # "none" THEN reply[s]
                                        ELSE IF h[k].dev # -1 THEN "device" ELSE "error"]
     \/ /\ \/ RecvMsg(k) \/ RecvEnd(k) \/ CloseClient(k) \/ ClearFd(k)
           \/ OpenDevice(k) \/ CloseDevice(k) \/ CheckCancel(k)
        /\ UNCHANGED reply

\* SIGKILL: the kernel closes what the daemon had open, and nobody is answered any more.
Kill ==
  /\ up /\ up' = FALSE
  /\ fdt' = [f \in Fds |-> Unused] /\ backlog' = {} /\ acc' = NoAcc
  /\ src' = [k \in Conns |-> IF src[k].state = "none" THEN NoSrc ELSE Cancelled]
  /\ h' = [k \in Conns |-> NoHandler] /\ waiting' = [k \in Conns |-> FALSE]
  /\ UNCHANGED <<peer, inbox, g_clients, g_running, raced, wrong, pc, drm, reply>>

Daemon == Accepts \/ Kill \/ \E k \in Conns : Fires(k) \/ Handles(k)

\* The other end of a connection is closed.
Gone(k) == k \notin backlog /\ \A f \in Fds : fdt[f] # k

\* Clients that are no sessions.
Others ==
  /\ up /\ UNCHANGED svars
  /\ \E k \in Conns \ Sessions : Connect(k) \/ Request(k) \/ Hangup(k)

-----------------------------------------------------------------------------
(* darwin_session_create and darwin_session_destroy.                        *)

At_(k, from, to) == pc[k] = from /\ pc' = [pc EXCEPT ![k] = to]

Create(k) ==
  /\ At_(k, "none", "connect")
  /\ UNCHANGED <<vars, up, drm, reply>>

\* socket() and connect(); either may fail, and without the daemon connect() does.  The
\* device is not opened directly then.
ConnectSeatd(k) ==
  /\ \/ up /\ At_(k, "connect", "send") /\ Connect(k)
     \/ At_(k, "connect", "over") /\ UNCHANGED vars
  /\ UNCHANGED <<up, drm, reply>>

\* send(), which ends the process when the connection is closed: nothing ignores SIGPIPE.
SendRequest(k) ==
  /\ IF Gone(k) THEN At_(k, "send", "killed") /\ UNCHANGED vars
     ELSE /\ At_(k, "send", "recv")
          /\ inbox' = [inbox EXCEPT ![k] = "open"] /\ waiting' = [waiting EXCEPT ![k] = TRUE]
          /\ UNCHANGED <<peer, backlog, fdt, g_clients, acc, src, h, g_running, raced, wrong>>
  /\ UNCHANGED <<up, drm, reply>>

\* Mutant of Recv: what is sent with an error is taken for the device.
RecvAny(k) ==
  /\ reply[k] # "none"
  /\ At_(k, "recv", "active") /\ drm' = [drm EXCEPT ![k] = "seatd"]
  /\ UNCHANGED <<vars, up, reply>>
\* recvmsg() and the tests of its result.
Recv(k) ==
  /\ reply[k] # "none" \/ Gone(k)
  /\ IF reply[k] = "device" THEN At_(k, "recv", "active") /\ drm' = [drm EXCEPT ![k] = "seatd"]
                            ELSE At_(k, "recv", "open") /\ UNCHANGED drm
  /\ UNCHANGED <<vars, up, reply>>

\* The session tries to open the device itself; without one it is destroyed.
OpenDirect(k) ==
  /\ \/ At_(k, "open", "active") /\ drm' = [drm EXCEPT ![k] = "itself"]
     \/ At_(k, "open", "destroy") /\ UNCHANGED drm
  /\ UNCHANGED <<vars, up, reply>>

\* darwin_session_destroy: device and socket are closed.
Close(k) ==
  /\ pc[k] \in {"active", "destroy"} /\ pc' = [pc EXCEPT ![k] = "over"]
  /\ drm' = [drm EXCEPT ![k] = "none"]
  /\ IF peer[k] = "open" THEN Hangup(k) ELSE UNCHANGED vars
  /\ UNCHANGED <<up, reply>>

Creating(k) == \/ ConnectSeatd(k) \/ SendRequest(k) \/ Recv(k) \/ OpenDirect(k)
               \/ pc[k] = "destroy" /\ Close(k)
Session(k)  == Create(k) \/ Creating(k) \/ (pc[k] = "active" /\ Close(k))

SNext == Daemon \/ Others \/ \E k \in Sessions : Session(k)

SSpec == SInit /\ [][SNext]_<<vars, svars>>

\* A creation goes on as far as it can.  For as long as the daemon runs, GCD runs the
\* handlers of sources that are ready, and handlers that run go on.  Nobody has to begin
\* a session, to ask for anything else or to hang up.
SFairSpec ==
  /\ SSpec
  /\ \A k \in Sessions : WF_<<vars, svars>>(Creating(k))
  /\ WF_<<vars, svars>>(Accepts)
  /\ \A k \in Conns : WF_<<vars, svars>>(Fires(k)) /\ WF_<<vars, svars>>(Handles(k))
-----------------------------------------------------------------------------
(* Properties.                                                              *)

\* The last part: a session holds a device exactly while it is active, and one from
\* seatd only if seatd said so.
STypeOK ==
  /\ TypeOK
  /\ up \in BOOLEAN
  /\ pc \in [Sessions -> {"none", "connect", "send", "recv", "open", "destroy", "active",
                         "over", "killed"}]
  /\ drm \in [Sessions -> {"none", "seatd", "itself"}]
  /\ reply \in [Sessions -> {"none", "device", "error"}]
  /\ \A k \in Sessions : /\ drm[k] # "none" <=> pc[k] = "active"
                         /\ drm[k] = "seatd" => reply[k] = "device"

\* The composition implements SeatSession: the blocking recvmsg of a creation returns,
\* although the daemon answers some requests only with the end of the connection, runs
\* out of slots and descriptors, or is killed.  After a slot was reused too early a
\* reply may go nowhere, and recvmsg waits for ever.
StateOf(p) == CASE p = "none"               -> "none"
                [] p = "active"             -> "active"
                [] p \in {"over", "killed"} -> "over"
                [] OTHER                    -> "creating"
Abstract == INSTANCE SeatSession WITH state <- [k \in Sessions |-> StateOf(pc[k])],
                                      lost <- raced
ImplementsSeatSession == Abstract!Spec

\* The request of a session is in a socket that will be read, or with the handler that
\* has read it.
InHand(k) == \/ /\ inbox[k] # NoMsg
                /\ \/ k \in backlog \/ (acc.at = "scan" /\ acc.conn = k)
                   \/ src[k].state = "armed" \/ h[k].at = "recv"
             \/ h[k].at \in {"open", "send"}

\* A session that blocks in recvmsg, which has no timeout, has not been forgotten: the
\* daemon has its request in hand, or there is a reply, or the end of the connection.  No
\* path of the daemon drops a request and keeps the connection, also when it is out of
\* slots or descriptors, or killed, unless it once reused a slot too early.
NeverForgotten ==
  ~raced => \A k \in Sessions : pc[k] = "recv" => reply[k] # "none" \/ Gone(k) \/ InHand(k)

\* SIGPIPE ends the process of a session only if the daemon was killed, or had no slot
\* and closed the connection before the request was sent, or once reused a slot too
\* early: then a handler may have closed the connection of another.
KilledOnlyIfTurnedAway ==
  \A k \in Sessions : pc[k] = "killed" => ~up \/ peer[k] = "refused" \/ raced
=============================================================================
