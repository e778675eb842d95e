------------------------ MODULE DarwinSessionProofs ------------------------
(* What holds of the seat daemon, for any number of connections, slots and  *)
(* descriptors, and of the sessions that are connected to it.               *)
EXTENDS DarwinSession, SequenceTheorems, WellFoundedInduction, TLAPS

-----------------------------------------------------------------------------
(* Descriptors, and what a client structure holds.                          *)

\* The lowest free number is a free number.
LEMMA LowestIsFree ==
  ASSUME FreeFds # {}
  PROVE  LowestFd \in Fds /\ fdt[LowestFd] = Unused
<1>1. OpToRel(<, Nat) = {ss \in Nat \X Nat : ss[1] < ss[2]}
  BY DEF OpToRel
<1> DEFINE R == {ss \in Nat \X Nat : ss[1] < ss[2]}
<1>2. IsWellFoundedOn(R, Nat)
  BY <1>1, NatLessThanWellFounded
<1>3. FreeFds \subseteq Nat /\ FreeFds \subseteq Fds
  BY SlotsAssumption DEF FreeFds, Fds
<1> HIDE DEF R
<1>4. PICK x \in FreeFds : \A y \in FreeFds : ~(<<y, x>> \in R)
  BY <1>2, <1>3, WFMin
<1>5. ASSUME NEW y \in FreeFds PROVE x <= y
  <2>1. x \in Nat /\ y \in Nat
    BY <1>3
  <2>2. y < x => <<y, x>> \in R
    BY <2>1 DEF R
  <2>3. QED
    BY <1>4, <2>1, <2>2
<1>6. LowestFd \in FreeFds
  BY <1>5 DEF LowestFd
<1>7. QED
  BY <1>6 DEF FreeFds

\* -1 is no descriptor, and connections are neither devices nor unused entries.
LEMMA Apart == /\ -1 \notin Fds /\ Fds \subseteq Int /\ Unused # Device
               /\ \A k \in Conns : k # Unused /\ k # Device /\ k # NoConn
  BY SlotsAssumption, EntryAssumption DEF Fds

Held == UNION {[1..n -> Fds] : n \in 0..MaxHeld}

\* One more descriptor, if there is room for it.
LEMMA HeldAppend ==
  ASSUME NEW s \in Held, NEW f \in Fds, Len(s) < MaxHeld
  PROVE  Append(s, f) \in Held
<1>1. PICK n \in 0..MaxHeld : s \in [1..n -> Fds]
  BY DEF Held
<1>2. s \in Seq(Fds) /\ Len(s) = n
  BY <1>1, SlotsAssumption
<1>3. Append(s, f) \in Seq(Fds) /\ Len(Append(s, f)) = n + 1
  BY <1>2
<1>4. Append(s, f) \in [1..(n + 1) -> Fds]
  BY <1>3, LenProperties
<1>5. n + 1 \in 0..MaxHeld
  BY <1>2, SlotsAssumption
<1>6. QED
  BY <1>4, <1>5 DEF Held

-----------------------------------------------------------------------------
(* Types.                                                                   *)

Peers   == {"new", "open", "hungup", "refused"}
Entries == Conns \cup {Unused, Device}
AccSet  == [at : {"idle", "scan"}, fd : Fds \cup {-1}, conn : Conns \cup {NoConn}, slot : Slots]
States  == {"none", "armed", "running", "cancelled"}
SrcSet  == [state : States, fd : Fds \cup {-1}, slot : Slots]
Places  == {"idle", "recv", "close", "clear_fd", "open", "send", "close_dev", "check"}
HSet    == [at : Places, from : Conns \cup {NoConn}, dev : Fds \cup {-1}]

\* The daemon's part of TypeOK.
DaemonTyped ==
  /\ fdt \in [Fds -> Entries] /\ g_clients \in [Slots -> client] /\ acc \in AccSet
  /\ src \in [Conns -> SrcSet] /\ h \in [Conns -> HSet]
  /\ raced \in BOOLEAN /\ wrong \in BOOLEAN

ClientsTyped ==
  /\ peer \in [Conns -> Peers] /\ inbox \in [Conns -> Msgs \cup {NoMsg}]
  /\ waiting \in [Conns -> BOOLEAN] /\ backlog \subseteq Conns /\ g_running \in BOOLEAN

\* The two parts are TypeOK.
LEMMA TypedIsTypeOK == TypeOK <=> ClientsTyped /\ DaemonTyped
  BY DEF TypeOK, ClientsTyped, DaemonTyped, Peers, Entries, AccSet, States, SrcSet, Places, HSet

\* Closing a descriptor leaves a descriptor table.
LEMMA CloseFdType ==
  ASSUME fdt \in [Fds -> Entries], NEW f, CloseFd(f)
  PROVE  fdt' \in [Fds -> Entries]
  BY DEF CloseFd, Entries

\* A slot is given a connection, or loses it.
LEMMA ClientType ==
  ASSUME DaemonTyped, NEW i \in Slots, NEW f \in Fds \cup {-1}
  PROVE  /\ [g_clients EXCEPT ![i].fd = f, ![i].held_fds = <<>>] \in [Slots -> client]
         /\ [g_clients EXCEPT ![i].fd = f] \in [Slots -> client]
<1>1. <<>> \in Held
  <2>1. <<>> \in [1..0 -> Fds] /\ 0 \in 0..MaxHeld
    BY SlotsAssumption
  <2>2. QED
    BY <2>1 DEF Held
<1>2. client = [fd : Fds \cup {-1}, held_fds : Held]
  BY DEF client, Held
<1>3. QED
  BY <1>1, <1>2 DEF DaemonTyped

\* The accept handler keeps the types.
LEMMA AcceptType == DaemonTyped /\ ClientsTyped /\ accept_client => DaemonTyped' /\ ClientsTyped'
<1> SUFFICES ASSUME DaemonTyped, ClientsTyped, accept_client PROVE DaemonTyped' /\ ClientsTyped'
  OBVIOUS
<1>1. NoAcc \in AccSet
  BY SlotsAssumption DEF NoAcc, AccSet, Slots
<1>2. CASE Accept
  <2>1. LowestFd \in Fds /\ 1 \in Slots
    BY <1>2, LowestIsFree, SlotsAssumption DEF Accept, Slots
  <2>2. PICK k \in backlog : /\ backlog' = backlog \ {k}
                             /\ fdt' = [fdt EXCEPT ![LowestFd] = k]
                             /\ acc' = [at |-> "scan", fd |-> LowestFd, conn |-> k, slot |-> 1]
    BY <1>2 DEF Accept
  <2>3. QED
    BY <1>2, <2>1, <2>2 DEF Accept, DaemonTyped, ClientsTyped, AccSet, Entries
<1>3. CASE ScanNext
  BY <1>3, SlotsAssumption, SMTT(30)
     DEF ScanNext, DaemonTyped, ClientsTyped, AccSet, Slots, outside
<1>4. CASE ScanFull
  BY <1>1, <1>4, CloseFdType DEF ScanFull, DaemonTyped, ClientsTyped, Peers
<1>5. CASE ScanTake
  <2>1. acc.slot \in Slots /\ acc.fd \in Fds \cup {-1}
    BY DEF DaemonTyped, AccSet
  <2>2. g_clients' \in [Slots -> client]
    BY <1>5, <2>1, ClientType DEF ScanTake
  <2>3. src' \in [Conns -> SrcSet]
    BY <1>5, <2>1 DEF ScanTake, DaemonTyped, SrcSet, States
  <2>4. QED
    BY <1>1, <1>5, <2>2, <2>3 DEF ScanTake, DaemonTyped, ClientsTyped, outside
<1>6. QED
  BY <1>2, <1>3, <1>4, <1>5 DEF accept_client

\* So do the handlers of the read sources.
LEMMA HandlerType ==
  ASSUME DaemonTyped, ClientsTyped, NEW k \in Conns, Fire(k) \/ Handler(k)
  PROVE  DaemonTyped' /\ ClientsTyped'
<1>1. /\ fdt \in [Fds -> Entries] /\ g_clients \in [Slots -> client] /\ src \in [Conns -> SrcSet]
      /\ h \in [Conns -> HSet] /\ src[k].slot \in Slots /\ h[k].dev \in Fds \cup {-1}
  BY DEF DaemonTyped, SrcSet, HSet
<1>2. NoHandler \in HSet /\ Cancelled \in SrcSet
  BY SlotsAssumption DEF NoHandler, HSet, Places, Cancelled, NoSrc, SrcSet, States, Slots
<1>3. CASE Fire(k)
  BY <1>1, <1>2, <1>3 DEF Fire, DaemonTyped, ClientsTyped, outside, SrcSet, States, HSet, Places
<1>4. CASE RecvMsg(k)
  BY <1>1, <1>4 DEF RecvMsg, DaemonTyped, ClientsTyped, HSet, Places, NoMsg
<1>5. CASE RecvEnd(k)
  <2>1. PICK n \in Conns \cup {NoConn} : h' = [h EXCEPT ![k].at = "close", ![k].from = n]
    BY <1>5 DEF RecvEnd
  <2>2. h' \in [Conns -> HSet]
    <3>1. PICK r : r = [[h[k] EXCEPT !.at = "close"] EXCEPT !.from = n]
      OBVIOUS
    <3>2. r \in HSet
      BY <1>1, <3>1 DEF HSet, Places
    <3>3. h' = [h EXCEPT ![k] = r]
      BY <1>1, <2>1, <3>1
    <3>4. QED
      BY <1>1, <3>2, <3>3
  <2>3. QED
    BY <1>5, <2>2 DEF RecvEnd, DaemonTyped, ClientsTyped, outside
<1>6. CASE CloseClient(k)
  BY <1>1, <1>6, CloseFdType DEF CloseClient, DaemonTyped, ClientsTyped, outside, HSet, Places
<1>7. CASE ClearFd(k)
  <2>1. g_clients' \in [Slots -> client]
    BY <1>1, <1>7, ClientType DEF ClearFd
  <2>2. h' \in [Conns -> HSet]
    BY <1>1, <1>7 DEF ClearFd, HSet, Places
  <2>3. QED
    BY <1>7, <2>1, <2>2 DEF ClearFd, DaemonTyped, ClientsTyped, outside
<1>8. CASE OpenDevice(k)
  <2>1. ASSUME FreeFds # {}, Len(Cl(k).held_fds) < MaxHeld
        PROVE  [g_clients EXCEPT ![src[k].slot].held_fds = Append(@, LowestFd)] \in [Slots -> client]
    <3>1. client = [fd : Fds \cup {-1}, held_fds : Held]
      BY DEF client, Held
    <3>2. Append(Cl(k).held_fds, LowestFd) \in Held
      BY <1>1, <2>1, <3>1, LowestIsFree, HeldAppend DEF Cl
    <3>3. QED
      BY <1>1, <3>1, <3>2 DEF Cl
  <2>2. FreeFds # {} => LowestFd \in Fds
    BY LowestIsFree
  <2>3. g_clients' \in [Slots -> client]
    BY <1>1, <1>8, <2>1 DEF OpenDevice
  <2>4. fdt' \in [Fds -> Entries] /\ h' \in [Conns -> HSet]
    BY <1>1, <1>8, <2>2 DEF OpenDevice, Entries, HSet, Places
  <2>5. QED
    BY <1>8, <2>3, <2>4 DEF OpenDevice, DaemonTyped, ClientsTyped, outside
<1>9. CASE Send(k)
  BY <1>1, <1>9 DEF Send, DaemonTyped, ClientsTyped, HSet, Places
<1>10. CASE CloseDevice(k)
  BY <1>1, <1>10, CloseFdType DEF CloseDevice, DaemonTyped, ClientsTyped, outside, HSet, Places
<1>11. CASE CheckCancel(k)
  BY <1>1, <1>2, <1>11 DEF CheckCancel, DaemonTyped, ClientsTyped, outside, SrcSet, States
<1>12. QED
  BY <1>3, <1>4, <1>5, <1>6, <1>7, <1>8, <1>9, <1>10, <1>11 DEF Handler

\* The daemon starts with well-typed state.
LEMMA InitTyped == Init => DaemonTyped /\ ClientsTyped
<1>1. ASSUME Init PROVE DaemonTyped
  <2>1. EmptySlot \in client
    <3>1. <<>> \in [1..0 -> Fds] /\ 0 \in 0..MaxHeld
      BY SlotsAssumption
    <3>2. QED
      BY <3>1 DEF EmptySlot, client
  <2>2. NoAcc \in AccSet /\ NoSrc \in SrcSet /\ NoHandler \in HSet
    BY SlotsAssumption DEF NoAcc, AccSet, NoSrc, SrcSet, States, NoHandler, HSet, Places, Slots
  <2>3. QED
    BY <1>1, <2>1, <2>2 DEF Init, DaemonTyped, Entries
<1>2. Init => ClientsTyped
  BY DEF Init, ClientsTyped, Peers, NoMsg
<1>3. QED
  BY <1>1, <1>2

\* No handler takes a variable out of its type: TypeOK is inductive by itself.
LEMMA StepTyped ==
  ASSUME DaemonTyped, ClientsTyped, [Next]_vars
  PROVE  DaemonTyped' /\ ClientsTyped'
<1>1. CASE accept_client
  BY <1>1, AcceptType
<1>2. CASE sig_handler
  BY <1>2 DEF sig_handler, DaemonTyped, ClientsTyped, outside, daemon
<1>3. ASSUME NEW k \in Conns, Connect(k) \/ Request(k) \/ Hangup(k)
      PROVE  DaemonTyped' /\ ClientsTyped'
  <2>1. CASE Connect(k)
    BY <2>1 DEF Connect, DaemonTyped, ClientsTyped, daemon, Peers
  <2>2. CASE Request(k)
    <3>1. PICK m \in Msgs : /\ inbox' = [inbox EXCEPT ![k] = m]
                            /\ waiting' = [waiting EXCEPT ![k] = m \in Answered]
      BY <2>2 DEF Request
    <3>2. inbox' \in [Conns -> Msgs \cup {NoMsg}] /\ waiting' \in [Conns -> BOOLEAN]
      BY <3>1 DEF ClientsTyped
    <3>3. QED
      BY <2>2, <3>2 DEF Request, DaemonTyped, ClientsTyped, daemon
  <2>3. CASE Hangup(k)
    BY <2>3 DEF Hangup, DaemonTyped, ClientsTyped, daemon, Peers
  <2>4. QED
    BY <1>3, <2>1, <2>2, <2>3
<1>4. ASSUME NEW k \in Conns, Fire(k) \/ Handler(k) PROVE DaemonTyped' /\ ClientsTyped'
  BY <1>4, HandlerType
<1>5. CASE UNCHANGED vars
  BY <1>5 DEF vars, outside, DaemonTyped, ClientsTyped
<1>6. QED
  BY <1>1, <1>2, <1>3, <1>4, <1>5 DEF Next

\* The types, for any number of connections, slots and descriptors.
THEOREM TypeCorrect == Spec => []TypeOK
<1>1. DaemonTyped /\ ClientsTyped => TypeOK
  BY TypedIsTypeOK
<1>2. QED
  BY <1>1, InitTyped, StepTyped, PTL DEF Spec

-----------------------------------------------------------------------------
(* Who owns what, as long as no slot was reused too early.                  *)

Sourced(k) == src[k].state \in {"armed", "running"}

\* The source's handler has freed the slot and not looked at it again.
Left(k) == h[k].at = "check" /\ Cl(k).fd = -1

\* The source's connection is open.
Owner(k) == Sourced(k) /\ h[k].at # "clear_fd" /\ ~Left(k)

\* The handler has opened a device.
HasDev(k) == h[k].at \in {"send", "close_dev"} /\ h[k].dev # -1

HandlerInv == \A k \in Conns : src[k].state = "running" <=> h[k].at # "idle"

\* A source watches its own connection, and so does its slot.
OwnerInv == \A k \in Conns : Owner(k) =>
              src[k].fd \in Fds /\ Cl(k).fd = src[k].fd /\ fdt[src[k].fd] = k

\* A slot has at most one source, and exactly one if it has a descriptor.
SlotInv == /\ \A k, j \in Conns : Sourced(k) /\ Sourced(j) /\ src[k].slot = src[j].slot => k = j
           /\ \A k \in Conns : h[k].at = "clear_fd" => Cl(k).fd # -1
           /\ \A i \in Slots : g_clients[i].fd # -1 =>
                \E k \in Conns : Sourced(k) /\ src[k].slot = i

\* A connection that is open has a source, or is being accepted.
ConnInv == \A f \in Fds : fdt[f] \in Conns =>
             \/ Owner(fdt[f]) /\ src[fdt[f]].fd = f
             \/ acc.at = "scan" /\ acc.fd = f /\ acc.conn = fdt[f]

\* One that is being accepted, or was not accepted yet, has none.
AccInv == /\ acc.at = "scan" => /\ acc.fd \in Fds /\ acc.conn \in Conns
                                /\ fdt[acc.fd] = acc.conn /\ src[acc.conn].state = "none"
          /\ \A k \in Conns : k \in backlog \/ peer[k] = "new" =>
               src[k].state = "none" /\ (acc.at = "scan" => acc.conn # k)
          /\ \A k \in backlog : peer[k] # "new"

\* A handler works for the connection of its source.
FromInv == \A k \in Conns : h[k].at \in {"open", "send", "close"} => h[k].from = k

\* An open device belongs to one handler.
DevInv == /\ \A k \in Conns : /\ HasDev(k) => h[k].dev \in Fds /\ fdt[h[k].dev] = Device
                              /\ h[k].at = "open" => h[k].dev = -1
                              /\ h[k].at = "close_dev" => h[k].dev # -1
          /\ \A k, j \in Conns : HasDev(k) /\ HasDev(j) /\ h[k].dev = h[j].dev => k = j
          /\ \A f \in Fds : fdt[f] = Device => \E k \in Conns : HasDev(k) /\ h[k].dev = f

Inv == HandlerInv /\ OwnerInv /\ SlotInv /\ ConnInv /\ AccInv /\ FromInv /\ DevInv

\* A handler that goes on, without closing or opening anything.
LEMMA GoesOn ==
  ASSUME DaemonTyped, Inv, NEW k \in Conns, NEW n \in HSet,
         UNCHANGED <<fdt, g_clients, acc, src, peer, backlog>>, h' = [h EXCEPT ![k] = n],
         h[k].at \in {"recv", "open", "send"}, n.at \in {"close", "open", "send", "close_dev", "check"},
         n.at \in {"open", "send", "close"} => n.from = k,
         n.at \in {"open", "send"} => n.dev = -1,
         n.at = "close_dev" <=> HasDev(k), n.at = "close_dev" => n.dev = h[k].dev
  PROVE  Inv'
<1>1. /\ h'[k] = n /\ \A j \in Conns : j # k => h'[j] = h[j]
  BY DEF DaemonTyped
<1>2. Owner(k)
  BY DEF Inv, HandlerInv, Owner, Sourced, Left
<1>3. Cl(k).fd # -1
  BY <1>2, Apart DEF Inv, OwnerInv
<1>4. \A j \in Conns : /\ Owner(j)' <=> Owner(j)
                       /\ Sourced(j)' <=> Sourced(j)
                       /\ Cl(j)' = Cl(j)
  BY <1>1, <1>2, <1>3 DEF Owner, Sourced, Left, Cl
<1>5. HandlerInv'
  BY <1>1 DEF Inv, HandlerInv
<1>6. OwnerInv' /\ ConnInv' /\ AccInv'
  BY <1>4 DEF Inv, OwnerInv, ConnInv, AccInv
<1>7. SlotInv'
  BY <1>1, <1>4 DEF Inv, SlotInv
<1>8. FromInv'
  BY <1>1 DEF Inv, FromInv
<1>9. \A j \in Conns : (HasDev(j)' <=> HasDev(j)) /\ (HasDev(j) => h'[j].dev = h[j].dev)
  BY <1>1 DEF HasDev
<1>10. DevInv'
  <2>1. ASSUME NEW j \in Conns
        PROVE  /\ HasDev(j)' => h'[j].dev \in Fds /\ fdt'[h'[j].dev] = Device
               /\ h'[j].at = "open" => h'[j].dev = -1
               /\ h'[j].at = "close_dev" => h'[j].dev # -1
    BY <1>1, <1>9 DEF Inv, DevInv, HasDev
  <2>2. ASSUME NEW f \in Fds, fdt'[f] = Device PROVE \E j \in Conns : HasDev(j)' /\ h'[j].dev = f
    BY <1>9, <2>2 DEF Inv, DevInv
  <2>3. \A i, j \in Conns : HasDev(i)' /\ HasDev(j)' /\ h'[i].dev = h'[j].dev => i = j
    BY <1>9 DEF Inv, DevInv
  <2>4. QED
    BY <2>1, <2>2, <2>3 DEF DevInv
<1>11. QED
  BY <1>5, <1>6, <1>7, <1>8, <1>10 DEF Inv

\* Steps that neither open nor close a device.
LEMMA DevKept ==
  ASSUME Inv,
         \A j \in Conns : (HasDev(j)' <=> HasDev(j)) /\ (HasDev(j) => h'[j].dev = h[j].dev),
         \A j \in Conns : h'[j].at \in {"open", "close_dev"} => h'[j] = h[j],
         \A f \in Fds : fdt'[f] = Device <=> fdt[f] = Device
  PROVE  DevInv'
<1>1. ASSUME NEW j \in Conns
      PROVE  /\ HasDev(j)' => h'[j].dev \in Fds /\ fdt'[h'[j].dev] = Device
             /\ h'[j].at = "open" => h'[j].dev = -1
             /\ h'[j].at = "close_dev" => h'[j].dev # -1
  BY DEF Inv, DevInv
<1>2. ASSUME NEW f \in Fds, fdt'[f] = Device PROVE \E j \in Conns : HasDev(j)' /\ h'[j].dev = f
  BY <1>2 DEF Inv, DevInv
<1>3. \A i, j \in Conns : HasDev(i)' /\ HasDev(j)' /\ h'[i].dev = h'[j].dev => i = j
  BY DEF Inv, DevInv
<1>4. QED
  BY <1>1, <1>2, <1>3 DEF DevInv

\* Firing a source starts a handler on its descriptor and nothing else.
LEMMA FireInv ==
  ASSUME DaemonTyped, Inv, NEW k \in Conns, Fire(k)
  PROVE  Inv' /\ wrong' = wrong
<1>1. /\ h'[k].at = "recv" /\ src'[k].state = "running" /\ src'[k].fd = src[k].fd
      /\ src'[k].slot = src[k].slot /\ src[k].state = "armed" /\ h[k].at = "idle"
      /\ \A j \in Conns \ {k} : h'[j] = h[j] /\ src'[j] = src[j]
      /\ UNCHANGED <<peer, backlog, fdt, g_clients, acc, wrong>>
  BY DEF Fire, outside, DaemonTyped, SrcSet, HSet, Inv, HandlerInv, NoHandler
<1>2. \A j \in Conns : /\ Owner(j)' <=> Owner(j)
                       /\ Sourced(j)' <=> Sourced(j)
                       /\ Cl(j)' = Cl(j) /\ src'[j].fd = src[j].fd /\ src'[j].slot = src[j].slot
  BY <1>1 DEF Owner, Sourced, Left, Cl
<1>3. HandlerInv'
  BY <1>1 DEF Inv, HandlerInv
<1>4. OwnerInv' /\ ConnInv'
  BY <1>1, <1>2 DEF Inv, OwnerInv, ConnInv
<1>5. AccInv'
  BY <1>1 DEF Inv, AccInv
<1>6. SlotInv' /\ FromInv'
  BY <1>1, <1>2 DEF Inv, SlotInv, FromInv
<1>7. DevInv'
  BY <1>1, DevKept DEF HasDev
<1>8. QED
  BY <1>1, <1>3, <1>4, <1>5, <1>6, <1>7 DEF Inv

\* A message is read from the connection the handler serves.
LEMMA RecvInv ==
  ASSUME DaemonTyped, Inv, NEW k \in Conns, RecvMsg(k) \/ RecvEnd(k)
  PROVE  Inv' /\ wrong' = wrong
<1>1. h[k].at = "recv" /\ At(Cl(k).fd) = k
  <2>1. h[k].at = "recv" /\ Owner(k)
    BY DEF RecvMsg, RecvEnd, Inv, HandlerInv, Owner, Sourced, Left
  <2>2. QED
    BY <2>1 DEF Inv, OwnerInv, At
<1>2. CASE RecvMsg(k)
  <2> DEFINE place == CASE inbox[k] = "open"    -> "open"
                        [] inbox[k] = "unknown" -> "check"
                        [] OTHER                -> "send"
             n == [at |-> place, from |-> k, dev |-> -1]
  <2>1. place \in {"open", "send", "check"}
    OBVIOUS
  <2>2. h' = [h EXCEPT ![k] = n]
    BY <1>1, <1>2 DEF RecvMsg
  <2> HIDE DEF place
  <2>3. n \in HSet /\ n.from = k /\ n.dev = -1 /\ n.at \in {"open", "send", "check"}
    BY <2>1 DEF HSet, Places
  <2> HIDE DEF n
  <2>4. QED
    BY <1>1, <1>2, <2>2, <2>3, GoesOn DEF RecvMsg, HasDev
<1>3. CASE RecvEnd(k)
  <2> DEFINE n == [h[k] EXCEPT !.at = "close", !.from = k]
  <2>1. h' = [h EXCEPT ![k] = n] /\ n \in HSet /\ n.at = "close" /\ n.from = k
    BY <1>1, <1>3 DEF RecvEnd, DaemonTyped, HSet, Places
  <2> HIDE DEF n
  <2>2. QED
    BY <1>1, <1>3, <2>1, GoesOn DEF RecvEnd, HasDev, outside
<1>4. QED
  BY <1>2, <1>3

\* An answer goes to the connection whose request is handled.
LEMMA SendInv ==
  ASSUME DaemonTyped, Inv, NEW k \in Conns, Send(k)
  PROVE  Inv' /\ wrong' = wrong
<1>1. h[k].at = "send" /\ Owner(k)
  BY DEF Send, Inv, HandlerInv, Owner, Sourced, Left
<1>2. At(Cl(k).fd) = k /\ h[k].from = k
  BY <1>1 DEF Inv, OwnerInv, At, FromInv
<1>3. h[k].dev # -1 => At(h[k].dev) = Device
  BY <1>1 DEF Inv, DevInv, HasDev, At
<1>4. wrong' = wrong
  BY <1>2, <1>3 DEF Send, DaemonTyped
<1> DEFINE n == [h[k] EXCEPT !.at = IF h[k].dev # -1 THEN "close_dev" ELSE "check"]
<1>5. /\ h' = [h EXCEPT ![k] = n] /\ n \in HSet /\ n.at \in {"close_dev", "check"}
      /\ n.dev = h[k].dev
      /\ n.at = "close_dev" <=> HasDev(k)
  BY <1>1 DEF Send, DaemonTyped, HSet, Places, HasDev
<1> HIDE DEF n
<1>6. QED
  BY <1>1, <1>4, <1>5, GoesOn DEF Send

\* At its end a handler gives up its slot's connection, and owns nothing.
LEMMA CloseClientInv ==
  ASSUME DaemonTyped, Inv, NEW k \in Conns, CloseClient(k)
  PROVE  Inv' /\ wrong' = wrong
<1>1. /\ h[k].at = "close" /\ h'[k].at = "clear_fd"
      /\ \A j \in Conns \ {k} : h'[j] = h[j]
      /\ UNCHANGED <<peer, backlog, g_clients, acc, src>>
  BY DEF CloseClient, outside, DaemonTyped, HSet
<1>2. Owner(k) /\ h[k].from = k
  BY <1>1 DEF Inv, HandlerInv, Owner, Sourced, Left, FromInv
<1>3. src[k].fd \in Fds /\ Cl(k).fd = src[k].fd /\ fdt[src[k].fd] = k
  BY <1>2 DEF Inv, OwnerInv
<1>4. wrong' = wrong /\ fdt' = [fdt EXCEPT ![src[k].fd] = Unused]
  BY <1>2, <1>3 DEF CloseClient, CloseFd, At, DaemonTyped
<1>5. \A f \in Fds : fdt'[f] = IF f = src[k].fd THEN Unused ELSE fdt[f]
  BY <1>4 DEF DaemonTyped
<1>6. \A j \in Conns : /\ Owner(j)' <=> Owner(j) /\ j # k
                       /\ Sourced(j)' <=> Sourced(j)
                       /\ Cl(j)' = Cl(j)
  BY <1>1 DEF Owner, Sourced, Left, Cl
<1>7. HandlerInv' /\ FromInv'
  BY <1>1 DEF Inv, HandlerInv, FromInv
<1>8. OwnerInv'
  BY <1>1, <1>3, <1>5, <1>6 DEF Inv, OwnerInv
<1>9. ConnInv'
  BY <1>1, <1>3, <1>5, <1>6, Apart DEF Inv, ConnInv
<1>10. AccInv'
  BY <1>1, <1>2, <1>3, <1>5 DEF Inv, AccInv, Owner, Sourced
<1>11. SlotInv'
  BY <1>1, <1>3, <1>6, Apart DEF Inv, SlotInv
<1>12. DevInv'
  BY <1>1, <1>3, <1>5, Apart, DevKept DEF HasDev
<1>13. QED
  BY <1>4, <1>7, <1>8, <1>9, <1>10, <1>11, <1>12 DEF Inv

\* Between fd = -1 and the test of it the slot is free, and still this handler's.
LEMMA ClearFdInv ==
  ASSUME DaemonTyped, Inv, NEW k \in Conns, ClearFd(k)
  PROVE  Inv' /\ wrong' = wrong
<1>1. /\ h[k].at = "clear_fd" /\ h'[k].at = "check" /\ src[k].slot \in Slots
      /\ \A j \in Conns \ {k} : h'[j] = h[j]
      /\ \A i \in Slots : g_clients'[i].fd = IF i = src[k].slot THEN -1 ELSE g_clients[i].fd
      /\ UNCHANGED <<peer, backlog, fdt, acc, src, wrong>>
  BY DEF ClearFd, outside, DaemonTyped, HSet, SrcSet, client
<1>2. Sourced(k) /\ \A j \in Conns : h[j].at # "idle" => Sourced(j)
  BY <1>1 DEF Inv, HandlerInv, Sourced
<1>3. \A j \in Conns \ {k} : Sourced(j) => Cl(j)'.fd = Cl(j).fd
  BY <1>1, <1>2 DEF Inv, SlotInv, Cl, DaemonTyped, SrcSet
<1>4. Cl(k)'.fd = -1
  BY <1>1 DEF Cl
<1>5. \A j \in Conns : (Owner(j)' <=> Owner(j)) /\ (Sourced(j)' <=> Sourced(j)) /\ ~Owner(k)
  BY <1>1, <1>3, <1>4 DEF Owner, Sourced, Left
<1>6. HandlerInv' /\ FromInv'
  BY <1>1 DEF Inv, HandlerInv, FromInv
<1>7. OwnerInv'
  BY <1>1, <1>3, <1>5 DEF Inv, OwnerInv, Owner
<1>8. ConnInv' /\ AccInv'
  BY <1>1, <1>5 DEF Inv, ConnInv, AccInv
<1>9. SlotInv'
  <2>1. \A j \in Conns : h'[j].at = "clear_fd" => Cl(j)'.fd # -1
    BY <1>1, <1>2, <1>3 DEF Inv, SlotInv
  <2>2. ASSUME NEW i \in Slots, g_clients'[i].fd # -1
        PROVE  \E j \in Conns : Sourced(j)' /\ src'[j].slot = i
    BY <1>1, <1>5, <2>2 DEF Inv, SlotInv
  <2>3. QED
    BY <1>1, <1>5, <2>1, <2>2 DEF Inv, SlotInv
<1>10. DevInv'
  BY <1>1, DevKept DEF HasDev
<1>11. QED
  BY <1>1, <1>6, <1>7, <1>8, <1>9, <1>10 DEF Inv

\* A device opened for a connection is in that connection's slot, and no other.
LEMMA OpenDeviceInv ==
  ASSUME DaemonTyped, Inv, NEW k \in Conns, OpenDevice(k)
  PROVE  Inv' /\ wrong' = wrong
<1>1. /\ h[k].at = "open" /\ h[k].dev = -1
      /\ UNCHANGED <<peer, backlog, acc, src, wrong>>
  BY DEF OpenDevice, outside, Inv, DevInv
<1>2. Owner(k) /\ h[k].from = k
  BY <1>1 DEF Inv, HandlerInv, Owner, Sourced, Left, FromInv
<1>3. CASE h' = [h EXCEPT ![k].at = "send"] /\ UNCHANGED <<fdt, g_clients>>
  <2> DEFINE n == [h[k] EXCEPT !.at = "send"]
  <2>1. /\ h' = [h EXCEPT ![k] = n] /\ n \in HSet /\ n.at = "send"
        /\ n.from = k /\ n.dev = -1
    BY <1>1, <1>2, <1>3 DEF DaemonTyped, HSet, Places
  <2> HIDE DEF n
  <2>2. QED
    BY <1>1, <1>3, <2>1, GoesOn DEF HasDev
<1>4. CASE FreeFds # {} /\ h' = [h EXCEPT ![k].at = "send", ![k].dev = LowestFd]
  <2>1. LowestFd \in Fds /\ fdt[LowestFd] = Unused /\ LowestFd # -1
    BY <1>4, LowestIsFree, Apart
  <2>2. fdt' = [fdt EXCEPT ![LowestFd] = Device]
    BY <1>1, <1>4, <2>1 DEF OpenDevice, DaemonTyped, HSet
  <2>3. \A f \in Fds : fdt'[f] = IF f = LowestFd THEN Device ELSE fdt[f]
    BY <2>2 DEF DaemonTyped
  <2>4. \A i \in Slots : g_clients'[i].fd = g_clients[i].fd
    <3>1. g_clients \in [Slots -> [fd : Fds \cup {-1}, held_fds : Held]]
      BY DEF DaemonTyped, client, Held
    <3>2. g_clients' = g_clients \/
            g_clients' = [g_clients EXCEPT ![src[k].slot].held_fds =
                            Append(g_clients[src[k].slot].held_fds, LowestFd)]
      BY DEF OpenDevice
    <3>3. QED
      BY <3>1, <3>2
  <2>5. /\ h'[k].at = "send" /\ h'[k].dev = LowestFd /\ h'[k].from = k
        /\ \A j \in Conns \ {k} : h'[j] = h[j]
    BY <1>2, <1>4 DEF DaemonTyped, HSet
  <2>6. \A j \in Conns : /\ Owner(j)' <=> Owner(j)
                         /\ Sourced(j)' <=> Sourced(j)
                         /\ Cl(j)'.fd = Cl(j).fd
    BY <1>1, <2>4, <2>5 DEF Owner, Sourced, Left, Cl, DaemonTyped, SrcSet
  <2>7. HandlerInv' /\ FromInv'
    BY <1>1, <2>5 DEF Inv, HandlerInv, FromInv
  <2>8. OwnerInv' /\ ConnInv' /\ AccInv'
    <3>1. OwnerInv'
      BY <1>1, <2>1, <2>3, <2>6, Apart DEF Inv, OwnerInv
    <3>2. ConnInv'
      BY <1>1, <2>3, <2>6, Apart DEF Inv, ConnInv
    <3>3. AccInv'
      BY <1>1, <2>1, <2>3, Apart DEF Inv, AccInv
    <3>4. QED
      BY <3>1, <3>2, <3>3
  <2>9. SlotInv'
    BY <1>1, <2>4, <2>5, <2>6 DEF Inv, SlotInv
  <2>10. DevInv'
    <3>1. HasDev(k)' /\ ~HasDev(k) /\ \A j \in Conns \ {k} : HasDev(j)' <=> HasDev(j)
      BY <1>1, <2>1, <2>5 DEF HasDev
    <3>2. \A j \in Conns : HasDev(j) => h[j].dev \in Fds /\ h[j].dev # LowestFd
      BY <2>1, Apart DEF Inv, DevInv
    <3>3. ASSUME NEW j \in Conns
          PROVE  /\ HasDev(j)' => h'[j].dev \in Fds /\ fdt'[h'[j].dev] = Device
                 /\ h'[j].at = "open" => h'[j].dev = -1
                 /\ h'[j].at = "close_dev" => h'[j].dev # -1
      BY <2>1, <2>3, <2>5, <3>1, <3>2 DEF Inv, DevInv
    <3>4. \A i, j \in Conns : HasDev(i)' /\ HasDev(j)' /\ h'[i].dev = h'[j].dev => i = j
      BY <2>5, <3>1, <3>2 DEF Inv, DevInv
    <3>5. ASSUME NEW f \in Fds, fdt'[f] = Device PROVE \E j \in Conns : HasDev(j)' /\ h'[j].dev = f
      <4>1. CASE f = LowestFd
        BY <2>5, <3>1, <4>1
      <4>2. CASE f # LowestFd
        <5>1. PICK j \in Conns : HasDev(j) /\ h[j].dev = f
          BY <2>3, <3>5, <4>2 DEF Inv, DevInv
        <5>2. QED
          BY <2>5, <3>1, <5>1
      <4>3. QED
        BY <4>1, <4>2
    <3>6. QED
      BY <3>3, <3>4, <3>5 DEF DevInv
  <2>11. QED
    BY <1>1, <2>7, <2>8, <2>9, <2>10 DEF Inv
<1>5. QED
  BY <1>3, <1>4 DEF OpenDevice

\* A handler closes only a device that is in the slot of its connection.
LEMMA CloseDeviceInv ==
  ASSUME DaemonTyped, Inv, NEW k \in Conns, CloseDevice(k)
  PROVE  Inv' /\ wrong' = wrong
<1>1. /\ h[k].at = "close_dev" /\ h'[k].at = "check"
      /\ \A j \in Conns \ {k} : h'[j] = h[j]
      /\ UNCHANGED <<peer, backlog, g_clients, acc, src>>
  BY DEF CloseDevice, outside, DaemonTyped, HSet
<1>2. HasDev(k) /\ h[k].dev \in Fds /\ fdt[h[k].dev] = Device
  BY <1>1 DEF Inv, DevInv, HasDev
<1>3. wrong' = wrong /\ fdt' = [fdt EXCEPT ![h[k].dev] = Unused]
  BY <1>2 DEF CloseDevice, CloseFd, At, DaemonTyped
<1>4. \A f \in Fds : fdt'[f] = IF f = h[k].dev THEN Unused ELSE fdt[f]
  BY <1>3 DEF DaemonTyped
<1>5. Owner(k) /\ Cl(k).fd # -1
  <2>1. Owner(k)
    BY <1>1 DEF Inv, HandlerInv, Owner, Sourced, Left
  <2>2. QED
    BY <2>1, Apart DEF Inv, OwnerInv
<1>6. \A j \in Conns : /\ Owner(j)' <=> Owner(j)
                       /\ Sourced(j)' <=> Sourced(j)
                       /\ Cl(j)' = Cl(j)
  BY <1>1, <1>5 DEF Owner, Sourced, Left, Cl
<1>7. HandlerInv' /\ FromInv'
  BY <1>1 DEF Inv, HandlerInv, FromInv
<1>8. OwnerInv' /\ ConnInv' /\ AccInv'
  <2>1. ASSUME NEW j \in Conns, Owner(j)'
        PROVE  src'[j].fd \in Fds /\ Cl(j)'.fd = src'[j].fd /\ fdt'[src'[j].fd] = j
    <3>1. src[j].fd \in Fds /\ Cl(j).fd = src[j].fd /\ fdt[src[j].fd] = j
      BY <1>6, <2>1 DEF Inv, OwnerInv
    <3>2. src[j].fd # h[k].dev
      BY <1>2, <3>1, Apart
    <3>3. QED
      BY <1>1, <1>4, <1>6, <3>1, <3>2
  <2>2. ConnInv'
    BY <1>1, <1>4, <1>6, Apart DEF Inv, ConnInv
  <2>3. AccInv'
    BY <1>1, <1>2, <1>4, Apart DEF Inv, AccInv
  <2>4. QED
    BY <2>1, <2>2, <2>3 DEF OwnerInv
<1>9. SlotInv'
  BY <1>1, <1>6 DEF Inv, SlotInv
<1>10. DevInv'
  <2>1. ~HasDev(k)' /\ \A j \in Conns \ {k} : HasDev(j)' <=> HasDev(j)
    BY <1>1 DEF HasDev
  <2>2. \A j \in Conns \ {k} : HasDev(j) => h[j].dev \in Fds /\ h[j].dev # h[k].dev
    BY <1>2 DEF Inv, DevInv
  <2>3. ASSUME NEW j \in Conns
        PROVE  /\ HasDev(j)' => h'[j].dev \in Fds /\ fdt'[h'[j].dev] = Device
               /\ h'[j].at = "open" => h'[j].dev = -1
               /\ h'[j].at = "close_dev" => h'[j].dev # -1
    BY <1>1, <1>4, <2>1, <2>2 DEF Inv, DevInv
  <2>4. \A i, j \in Conns : HasDev(i)' /\ HasDev(j)' /\ h'[i].dev = h'[j].dev => i = j
    BY <1>1, <2>1 DEF Inv, DevInv
  <2>5. ASSUME NEW f \in Fds, fdt'[f] = Device PROVE \E j \in Conns : HasDev(j)' /\ h'[j].dev = f
    <3>1. fdt[f] = Device /\ f # h[k].dev
      BY <1>4, <2>5, Apart
    <3>2. PICK j \in Conns : HasDev(j) /\ h[j].dev = f
      BY <3>1 DEF Inv, DevInv
    <3>3. QED
      BY <1>1, <2>1, <3>1, <3>2
  <2>6. QED
    BY <2>3, <2>4, <2>5 DEF DevInv
<1>11. QED
  BY <1>3, <1>7, <1>8, <1>9, <1>10 DEF Inv

\* The block's last look at the slot: its source is cancelled with its connection.
LEMMA CheckCancelInv ==
  ASSUME DaemonTyped, Inv, NEW k \in Conns, CheckCancel(k)
  PROVE  Inv' /\ wrong' = wrong
<1>1. /\ h[k].at = "check" /\ h'[k].at = "idle" /\ src[k].state = "running"
      /\ \A j \in Conns \ {k} : h'[j] = h[j] /\ src'[j] = src[j]
      /\ UNCHANGED <<peer, backlog, fdt, g_clients, acc, wrong>>
  BY DEF CheckCancel, outside, DaemonTyped, HSet, NoHandler, Inv, HandlerInv
<1>2. HandlerInv' /\ FromInv'
  BY <1>1 DEF CheckCancel, Cancelled, NoSrc, Inv, HandlerInv, FromInv, DaemonTyped, SrcSet
<1>3. AccInv'
  BY <1>1 DEF Inv, AccInv
<1>4. DevInv'
  BY <1>1, DevKept DEF HasDev
<1>5. Cl(k).fd < 0 <=> Cl(k).fd = -1
  BY SlotsAssumption DEF DaemonTyped, SrcSet, client, Cl, Fds
<1>6. OwnerInv' /\ ConnInv' /\ SlotInv'
  <2>1. CASE Cl(k).fd = -1
    <3>1. src'[k].state = "cancelled"
      BY <1>5, <2>1 DEF CheckCancel, DaemonTyped, Cancelled, NoSrc
    <3>2. /\ \A j \in Conns : Owner(j)' <=> Owner(j)
          /\ \A j \in Conns : Sourced(j)' <=> Sourced(j) /\ j # k
          /\ \A j \in Conns \ {k} : Cl(j)' = Cl(j)
          /\ ~Owner(k)
      BY <1>1, <2>1, <3>1 DEF Owner, Sourced, Left, Cl
    <3>3. OwnerInv' /\ ConnInv'
      BY <1>1, <3>2 DEF Inv, OwnerInv, ConnInv
    <3>4. ASSUME NEW i \in Slots, g_clients'[i].fd # -1
          PROVE  \E j \in Conns : Sourced(j)' /\ src'[j].slot = i
      <4>1. PICK j \in Conns : Sourced(j) /\ src[j].slot = i
        BY <1>1, <3>4 DEF Inv, SlotInv
      <4>2. j # k
        BY <1>1, <2>1, <3>4, <4>1 DEF Cl
      <4>3. QED
        BY <1>1, <3>2, <4>1, <4>2
    <3>5. QED
      BY <1>1, <3>2, <3>3, <3>4 DEF Inv, SlotInv
  <2>2. CASE Cl(k).fd # -1
    <3>1. src'[k].state = "armed" /\ src'[k].fd = src[k].fd /\ src'[k].slot = src[k].slot
      BY <1>5, <2>2 DEF CheckCancel, DaemonTyped, SrcSet
    <3>2. \A j \in Conns : /\ Owner(j)' <=> Owner(j)
                           /\ Sourced(j)' <=> Sourced(j)
                           /\ Cl(j)' = Cl(j) /\ src'[j].fd = src[j].fd /\ src'[j].slot = src[j].slot
      BY <1>1, <2>2, <3>1 DEF Owner, Sourced, Left, Cl
    <3>3. QED
      BY <1>1, <3>2 DEF Inv, OwnerInv, ConnInv, SlotInv
  <2>3. QED
    BY <2>1, <2>2
<1>7. QED
  BY <1>1, <1>2, <1>3, <1>4, <1>6 DEF Inv

\* The accept handler.
LEMMA AcceptInv ==
  ASSUME DaemonTyped, ClientsTyped, Inv, Accept
  PROVE  Inv' /\ wrong' = wrong
<1>1. PICK k \in backlog : /\ backlog' = backlog \ {k}
                           /\ fdt' = [fdt EXCEPT ![LowestFd] = k]
                           /\ acc' = [at |-> "scan", fd |-> LowestFd, conn |-> k, slot |-> 1]
  BY DEF Accept
<1>2. /\ k \in Conns /\ acc.at = "idle"
      /\ UNCHANGED <<peer, g_clients, src, h, wrong>>
  BY DEF Accept, ClientsTyped
<1>3. LowestFd \in Fds /\ fdt[LowestFd] = Unused
  BY LowestIsFree DEF Accept
<1>4. \A f \in Fds : fdt'[f] = IF f = LowestFd THEN k ELSE fdt[f]
  BY <1>1, <1>3 DEF DaemonTyped
<1>5. \A j \in Conns : /\ Owner(j)' <=> Owner(j)
                       /\ Sourced(j)' <=> Sourced(j)
                       /\ Cl(j)' = Cl(j)
  BY <1>2 DEF Owner, Sourced, Left, Cl
<1>6. OwnerInv'
  BY <1>2, <1>3, <1>4, <1>5, Apart DEF Inv, OwnerInv
<1>7. ConnInv'
  BY <1>1, <1>2, <1>4, <1>5 DEF Inv, ConnInv
<1>8. AccInv'
  BY <1>1, <1>2, <1>3, <1>4 DEF Inv, AccInv
<1>9. HandlerInv' /\ FromInv' /\ SlotInv'
  BY <1>2, <1>5 DEF Inv, HandlerInv, FromInv, SlotInv
<1>10. DevInv'
  BY <1>2, <1>3, <1>4, Apart, DevKept DEF HasDev
<1>11. QED
  BY <1>2, <1>6, <1>7, <1>8, <1>9, <1>10 DEF Inv

\* The accept handler passes a slot that is taken.
LEMMA ScanNextInv ==
  ASSUME DaemonTyped, Inv, ScanNext
  PROVE  Inv' /\ wrong' = wrong
<1>1. /\ acc'.at = "scan" /\ acc.at = "scan" /\ acc'.fd = acc.fd /\ acc'.conn = acc.conn
      /\ UNCHANGED <<peer, backlog, fdt, g_clients, src, h, wrong>>
  BY DEF ScanNext, outside, DaemonTyped, AccSet
<1>2. \A j \in Conns : /\ Owner(j)' <=> Owner(j)
                       /\ Sourced(j)' <=> Sourced(j)
                       /\ Cl(j)' = Cl(j)
  BY <1>1 DEF Owner, Sourced, Left, Cl
<1>3. OwnerInv' /\ HandlerInv' /\ FromInv' /\ SlotInv'
  BY <1>1, <1>2 DEF Inv, OwnerInv, HandlerInv, FromInv, SlotInv
<1>4. ConnInv' /\ AccInv'
  BY <1>1, <1>2 DEF Inv, ConnInv, AccInv
<1>5. DevInv'
  BY <1>1, DevKept DEF HasDev
<1>6. QED
  BY <1>1, <1>3, <1>4, <1>5 DEF Inv

\* With all slots taken the new connection is closed and belongs to nobody.
LEMMA ScanFullInv ==
  ASSUME DaemonTyped, ClientsTyped, Inv, ScanFull
  PROVE  Inv' /\ wrong' = wrong
<1>1. /\ acc.at = "scan" /\ acc'.at = "idle"
      /\ UNCHANGED <<backlog, g_clients, src, h, wrong>>
  BY DEF ScanFull, NoAcc
<1>2. acc.fd \in Fds /\ acc.conn \in Conns /\ fdt[acc.fd] = acc.conn /\ src[acc.conn].state = "none"
  BY <1>1 DEF Inv, AccInv
<1>3. \A f \in Fds : fdt'[f] = IF f = acc.fd THEN Unused ELSE fdt[f]
  BY <1>2 DEF ScanFull, CloseFd, DaemonTyped
<1>4. \A j \in Conns : peer'[j] = "new" => peer[j] = "new"
  BY DEF ScanFull, ClientsTyped
<1>5. \A j \in Conns : /\ Owner(j)' <=> Owner(j)
                       /\ Sourced(j)' <=> Sourced(j)
                       /\ Cl(j)' = Cl(j)
  BY <1>1 DEF Owner, Sourced, Left, Cl
<1>6. OwnerInv'
  BY <1>1, <1>2, <1>3, <1>5 DEF Inv, OwnerInv, Owner, Sourced
<1>7. ConnInv'
  BY <1>1, <1>2, <1>3, <1>5, Apart DEF Inv, ConnInv
<1>8. AccInv'
  BY <1>1, <1>4 DEF Inv, AccInv, ClientsTyped
<1>9. HandlerInv' /\ FromInv' /\ SlotInv'
  BY <1>1, <1>5 DEF Inv, HandlerInv, FromInv, SlotInv
<1>10. DevInv'
  BY <1>1, <1>2, <1>3, Apart, DevKept DEF HasDev
<1>11. QED
  BY <1>1, <1>6, <1>7, <1>8, <1>9, <1>10 DEF Inv

\* A slot is taken, and not too early.
LEMMA ScanTakeInv ==
  ASSUME DaemonTyped, Inv, ScanTake, ~raced'
  PROVE  Inv' /\ wrong' = wrong
<1>0. PICK c \in Conns, i \in Slots : c = acc.conn /\ i = acc.slot
  BY DEF ScanTake, Inv, AccInv, DaemonTyped, AccSet
<1>1. /\ acc.at = "scan" /\ acc'.at = "idle"
      /\ UNCHANGED <<peer, backlog, fdt, h, wrong>>
  BY DEF ScanTake, NoAcc, outside
<1>2. /\ acc.fd \in Fds /\ acc.fd # -1 /\ fdt[acc.fd] = c
      /\ src[c].state = "none" /\ h[c].at = "idle"
  <2>1. acc.fd \in Fds /\ fdt[acc.fd] = c /\ src[c].state = "none"
    BY <1>0, <1>1 DEF Inv, AccInv
  <2>2. QED
    BY <2>1, Apart DEF Inv, HandlerInv
<1>3. g_clients[i].fd = -1
  BY <1>0, SlotsAssumption DEF ScanTake, DaemonTyped, client, Fds
<1>4. /\ src'[c] = [state |-> "armed", fd |-> acc.fd, slot |-> i]
      /\ \A j \in Conns \ {c} : src'[j] = src[j]
      /\ g_clients'[i].fd = acc.fd /\ \A j \in Slots \ {i} : g_clients'[j].fd = g_clients[j].fd
  <2>1. g_clients \in [Slots -> [fd : Fds \cup {-1}, held_fds : Held]]
    BY DEF DaemonTyped, client, Held
  <2>2. QED
    BY <1>0, <1>2, <2>1 DEF ScanTake, DaemonTyped
<1>5. \A j \in Conns : Sourced(j) => src[j].slot # i
  <2>1. SUFFICES ASSUME NEW j \in Conns, Sourced(j), src[j].slot = i PROVE FALSE
    OBVIOUS
  <2>2. Cl(j).fd = -1
    BY <1>3, <2>1 DEF Cl
  <2>3. ~Left(j)
    <3>1. Leaving(i) = {}
      BY <1>0 DEF ScanTake, DaemonTyped
    <3>2. -1 < 0
      OBVIOUS
    <3>3. QED
      BY <2>1, <2>2, <3>1, <3>2 DEF Leaving, Left
  <2>4. h[j].at # "clear_fd"
    BY <2>2 DEF Inv, SlotInv
  <2>5. Owner(j)
    BY <2>1, <2>3, <2>4 DEF Owner
  <2>6. QED
    BY <2>2, <2>5, Apart DEF Inv, OwnerInv
<1>6. \A j \in Conns \ {c} : Sourced(j) => Cl(j)'.fd = Cl(j).fd
  BY <1>4, <1>5 DEF Cl, DaemonTyped, SrcSet
<1>7. Cl(c)'.fd = acc.fd
  BY <1>2, <1>4 DEF Cl
<1>8. /\ \A j \in Conns \ {c} : (Owner(j)' <=> Owner(j)) /\ (Sourced(j)' <=> Sourced(j))
      /\ Owner(c)' /\ Sourced(c)' /\ ~Owner(c) /\ ~Sourced(c)
  BY <1>1, <1>2, <1>4, <1>6 DEF Owner, Sourced, Left
<1>9. HandlerInv' /\ FromInv'
  BY <1>1, <1>2, <1>4 DEF Inv, HandlerInv, FromInv
<1>10. OwnerInv'
  BY <1>1, <1>2, <1>4, <1>6, <1>7, <1>8 DEF Inv, OwnerInv, Owner
<1>11. ConnInv'
  <2>1. SUFFICES ASSUME NEW f \in Fds, fdt'[f] \in Conns PROVE Owner(fdt[f])' /\ src'[fdt[f]].fd = f
    BY <1>1 DEF ConnInv
  <2>2. CASE fdt[f] = c
    BY <1>0, <1>1, <1>2, <1>4, <1>8, <2>1, <2>2 DEF Inv, ConnInv
  <2>3. CASE fdt[f] # c
    BY <1>0, <1>1, <1>4, <1>8, <2>1, <2>3 DEF Inv, ConnInv
  <2>4. QED
    BY <2>2, <2>3
<1>12. AccInv'
  BY <1>0, <1>1, <1>4 DEF Inv, AccInv
<1>13. SlotInv'
  <2>1. \A k, j \in Conns : Sourced(k)' /\ Sourced(j)' /\ src'[k].slot = src'[j].slot => k = j
    BY <1>4, <1>5, <1>8 DEF Inv, SlotInv
  <2>2. \A k \in Conns : h'[k].at = "clear_fd" => Cl(k)'.fd # -1
    BY <1>1, <1>2, <1>6 DEF Inv, SlotInv, HandlerInv, Sourced
  <2>3. ASSUME NEW s \in Slots, g_clients'[s].fd # -1
        PROVE  \E k \in Conns : Sourced(k)' /\ src'[k].slot = s
    <3>1. CASE s = i
      BY <1>2, <1>4, <1>8, <3>1
    <3>2. CASE s # i
      <4>1. PICK k \in Conns : Sourced(k) /\ src[k].slot = s
        BY <1>4, <2>3, <3>2 DEF Inv, SlotInv
      <4>2. QED
        BY <1>4, <1>8, <4>1
    <3>3. QED
      BY <3>1, <3>2
  <2>4. QED
    BY <2>1, <2>2, <2>3 DEF SlotInv
<1>14. DevInv'
  BY <1>1, DevKept DEF HasDev
<1>15. QED
  BY <1>1, <1>9, <1>10, <1>11, <1>12, <1>13, <1>14 DEF Inv

\* Clients, who only connect, ask and hang up.
LEMMA OutsideInv ==
  ASSUME ClientsTyped, Inv, UNCHANGED daemon,
         \A k \in Conns : k \in backlog' \/ peer'[k] = "new" => k \in backlog \/ peer[k] = "new",
         \A k \in backlog' : peer'[k] # "new", backlog' \subseteq Conns
  PROVE  Inv' /\ wrong' = wrong
<1>1. UNCHANGED <<fdt, g_clients, acc, src, h, wrong>>
  BY DEF daemon
<1>2. \A j \in Conns : /\ Owner(j)' <=> Owner(j)
                       /\ Sourced(j)' <=> Sourced(j)
                       /\ Cl(j)' = Cl(j)
  BY <1>1 DEF Owner, Sourced, Left, Cl
<1>3. OwnerInv' /\ HandlerInv' /\ FromInv' /\ SlotInv' /\ ConnInv'
  <2>1. OwnerInv' /\ HandlerInv'
    BY <1>1, <1>2 DEF Inv, OwnerInv, HandlerInv
  <2>2. FromInv' /\ SlotInv'
    BY <1>1, <1>2 DEF Inv, FromInv, SlotInv
  <2>3. ConnInv'
    BY <1>1, <1>2 DEF Inv, ConnInv
  <2>4. QED
    BY <2>1, <2>2, <2>3
<1>4. AccInv'
  BY <1>1 DEF Inv, AccInv
<1>5. DevInv'
  BY <1>1, DevKept DEF HasDev
<1>6. QED
  BY <1>1, <1>3, <1>4, <1>5 DEF Inv

-----------------------------------------------------------------------------
(* The properties.                                                          *)

\* Types always; who owns which slot, descriptor and device, until a slot was
\* reused too early.
IInv == /\ DaemonTyped /\ ClientsTyped
        /\ ~raced => Inv /\ ~wrong

\* A slot that was reused too early stays so.
LEMMA RacedForGood == DaemonTyped /\ [Next]_vars /\ ~raced' => ~raced
  BY ZenonT(30)
     DEF DaemonTyped, Next, vars, accept_client, Accept, ScanNext, ScanFull, ScanTake, sig_handler,
         daemon, Connect, Request, Hangup, Fire, Handler, RecvMsg, RecvEnd, CloseClient, ClearFd,
         OpenDevice, Send, CloseDevice, CheckCancel

\* The daemon starts in the invariant.
LEMMA IInvInit == Init => IInv
<1>1. ASSUME Init PROVE Inv /\ ~wrong
  <2>1. \A k \in Conns : ~Owner(k) /\ ~Sourced(k) /\ ~HasDev(k)
    BY <1>1 DEF Init, NoSrc, NoHandler, Owner, Sourced, HasDev
  <2>2. HandlerInv /\ OwnerInv /\ FromInv
    BY <1>1, <2>1 DEF Init, NoSrc, NoHandler, HandlerInv, OwnerInv, FromInv
  <2>3. SlotInv /\ ConnInv /\ AccInv /\ DevInv
    BY <1>1, <2>1, Apart DEF Init, NoSrc, NoHandler, NoAcc, EmptySlot, SlotInv, ConnInv, AccInv, DevInv
  <2>4. QED
    BY <1>1, <2>2, <2>3 DEF Inv, Init
<1>2. Init => DaemonTyped /\ ClientsTyped
  BY InitTyped
<1>3. QED
  BY <1>1, <1>2 DEF IInv

\* Every step keeps the invariant, one lemma per handler step.
LEMMA IInvStep == IInv /\ [Next]_vars => IInv'
<1>1. SUFFICES ASSUME IInv, [Next]_vars, ~raced' PROVE Inv' /\ ~wrong'
  BY StepTyped DEF IInv
<1>2. DaemonTyped /\ ClientsTyped /\ Inv /\ ~wrong
  BY <1>1, RacedForGood DEF IInv
<1>3. CASE accept_client
  BY <1>1, <1>2, <1>3, AcceptInv, ScanNextInv, ScanFullInv, ScanTakeInv DEF accept_client
<1>4. CASE sig_handler
  BY <1>2, <1>4, OutsideInv DEF sig_handler, outside, Inv, AccInv, ClientsTyped
<1>5. ASSUME NEW k \in Conns, Connect(k) \/ Request(k) \/ Hangup(k) PROVE Inv' /\ ~wrong'
  BY <1>2, <1>5, OutsideInv DEF Connect, Request, Hangup, Inv, AccInv, ClientsTyped
<1>6. ASSUME NEW k \in Conns, Fire(k) PROVE Inv' /\ ~wrong'
  BY <1>2, <1>6, FireInv
<1>7. ASSUME NEW k \in Conns, Handler(k) PROVE Inv' /\ ~wrong'
  BY <1>2, <1>7, RecvInv, SendInv, CloseClientInv, ClearFdInv, OpenDeviceInv, CloseDeviceInv,
     CheckCancelInv DEF Handler
<1>8. CASE UNCHANGED vars
  BY <1>2, <1>8, OutsideInv DEF vars, outside, daemon, Inv, AccInv, ClientsTyped
<1>9. QED
  BY <1>1, <1>3, <1>4, <1>5, <1>6, <1>7, <1>8 DEF Next

\* The invariant holds in every behaviour.
LEMMA IInvAlways == Spec => []IInv
  BY IInvInit, IInvStep, PTL DEF Spec

\* No handler ever closes, or sends a device to, a descriptor that is not the one it
\* received from, short of a slot that was reused too early.
THEOREM OnlyOwnDescriptorsAlways == Spec => []OnlyOwnDescriptors
<1>1. IInv => OnlyOwnDescriptors
  BY DEF IInv, OnlyOwnDescriptors
<1>2. QED
  BY <1>1, IInvAlways, PTL

\* The source of a slot that serves a connection.
LEMMA ServingOwner ==
  ASSUME DaemonTyped, Inv, NEW i \in Serving
  PROVE  \E k \in Conns : /\ Owner(k) /\ src[k].slot = i /\ src[k].fd = g_clients[i].fd
                          /\ g_clients[i].fd \in Fds /\ fdt[g_clients[i].fd] = k
<1>1. i \in Slots /\ g_clients[i].fd # -1
  BY DEF Serving
<1>2. PICK k \in Conns : Sourced(k) /\ src[k].slot = i
  BY <1>1 DEF Inv, SlotInv
<1>3. Owner(k)
  BY <1>1, <1>2 DEF Serving, Owner, Left, Cl
<1>4. QED
  BY <1>2, <1>3 DEF Inv, OwnerInv, Cl

\* Each served connection has one slot and one source of its own.
THEOREM OneSourceEachAlways == Spec => []OneSourceEach
<1>1. ASSUME IInv, ~raced, NEW i \in Serving
      PROVE  LET c == At(g_clients[i].fd) IN
               /\ c \in Conns
               /\ src[c].slot = i /\ src[c].fd = g_clients[i].fd
               /\ src[c].state \in {"armed", "running"}
               /\ LiveSources(i) \subseteq {c}
  <2>1. PICK k \in Conns : /\ Owner(k) /\ src[k].slot = i /\ src[k].fd = g_clients[i].fd
                           /\ g_clients[i].fd \in Fds /\ fdt[g_clients[i].fd] = k
    BY <1>1, ServingOwner DEF IInv
  <2>2. At(g_clients[i].fd) = k
    BY <2>1 DEF At
  <2>3. LiveSources(i) \subseteq {k}
    BY <1>1, <2>1 DEF LiveSources, IInv, Inv, SlotInv, Owner, Sourced
  <2>4. QED
    BY <2>1, <2>2, <2>3 DEF Owner, Sourced
<1>2. ASSUME IInv, ~raced, NEW i \in Serving, NEW j \in Serving, g_clients[i].fd = g_clients[j].fd
      PROVE  i = j
  BY <1>1, <1>2
<1>3. IInv => OneSourceEach
  BY <1>1, <1>2 DEF OneSourceEach
<1>4. QED
  BY <1>3, IInvAlways, PTL

\* A descriptor that is open is served, being accepted, or about to be handed over.
THEOREM NoDescriptorLeakAlways == Spec => []NoDescriptorLeak
<1>1. ASSUME IInv, ~raced, NEW f \in Fds, fdt[f] \in Conns
      PROVE  (\E i \in Serving : g_clients[i].fd = f) \/ (acc.at = "scan" /\ acc.fd = f)
  <2>1. SUFFICES ASSUME Owner(fdt[f]), src[fdt[f]].fd = f PROVE \E i \in Serving : g_clients[i].fd = f
    BY <1>1 DEF IInv, Inv, ConnInv
  <2>2. PICK k \in Conns : k = fdt[f]
    BY <1>1
  <2>3. src[k].slot \in Slots /\ g_clients[src[k].slot].fd = f /\ f # -1
    BY <1>1, <2>1, <2>2, Apart DEF IInv, Inv, OwnerInv, Cl, DaemonTyped, SrcSet
  <2>4. ASSUME NEW j \in Conns, h[j].at = "clear_fd" PROVE src[j].slot # src[k].slot
    BY <1>1, <2>1, <2>2, <2>4 DEF IInv, Inv, SlotInv, HandlerInv, Owner, Sourced
  <2>5. QED
    BY <2>3, <2>4 DEF Serving
<1>2. ASSUME IInv, ~raced, NEW f \in Fds, fdt[f] = Device
      PROVE  \E k \in Conns : h[k].dev = f /\ h[k].at \in {"send", "close_dev"}
  BY <1>1, <1>2 DEF IInv, Inv, DevInv, HasDev
<1>3. IInv => NoDescriptorLeak
  BY <1>1, <1>2 DEF NoDescriptorLeak
<1>4. QED
  BY <1>3, IInvAlways, PTL

-----------------------------------------------------------------------------
(* Connections that are open are with the daemon.                           *)

\* A connection whose peer has not hung up waits to be accepted or has a descriptor.
Reached == /\ \A k \in Conns : h[k].at = "close" => peer[k] = "hungup"
           /\ \A k \in Conns : peer[k] = "open" => k \in backlog \/ \E f \in Fds : fdt[f] = k

\* A step that closes no connection leaves them there.
LEMMA ReachedKept ==
  ASSUME Reached, UNCHANGED <<peer, backlog>>, NEW k \in Conns,
         \A j \in Conns \ {k} : h'[j] = h[j], h'[k].at # "close",
         \A f \in Fds : fdt[f] \in Conns => fdt'[f] = fdt[f]
  PROVE  Reached'
  BY DEF Reached

\* What the accept handler does with them.
LEMMA AcceptReached ==
  ASSUME DaemonTyped, ClientsTyped, Inv, Reached, accept_client
  PROVE  Reached'
<1>1. CASE Accept
  <2>1. PICK k \in backlog : /\ backlog' = backlog \ {k}
                             /\ fdt' = [fdt EXCEPT ![LowestFd] = k]
    BY <1>1 DEF Accept
  <2>2. LowestFd \in Fds /\ fdt[LowestFd] = Unused
    BY <1>1, LowestIsFree DEF Accept
  <2>3. \A f \in Fds : fdt'[f] = IF f = LowestFd THEN k ELSE fdt[f]
    BY <2>1, <2>2 DEF DaemonTyped
  <2>4. UNCHANGED <<peer, h>>
    BY <1>1 DEF Accept
  <2>5. ASSUME NEW j \in Conns, peer[j] = "open"
        PROVE  j \in backlog' \/ \E f \in Fds : fdt'[f] = j
    <3>1. CASE j = k
      BY <2>2, <2>3, <3>1
    <3>2. CASE j # k
      BY <2>1, <2>2, <2>3, <2>5, <3>2, Apart DEF Reached
    <3>3. QED
      BY <3>1, <3>2
  <2>6. QED
    BY <2>4, <2>5 DEF Reached
<1>2. CASE ScanNext
  BY <1>2 DEF ScanNext, outside, Reached
<1>3. CASE ScanFull
  <2>1. /\ acc.fd \in Fds /\ acc.conn \in Conns /\ fdt[acc.fd] = acc.conn
        /\ src[acc.conn].state = "none" /\ h[acc.conn].at = "idle"
    BY <1>3 DEF ScanFull, Inv, AccInv, HandlerInv
  <2>2. \A f \in Fds : f # acc.fd => fdt'[f] = fdt[f]
    BY <1>3, <2>1 DEF ScanFull, CloseFd, DaemonTyped
  <2>3. /\ peer'[acc.conn] = "refused" /\ \A j \in Conns : j # acc.conn => peer'[j] = peer[j]
        /\ UNCHANGED <<backlog, h>>
    BY <1>3, <2>1 DEF ScanFull, ClientsTyped
  <2>4. QED
    BY <2>1, <2>2, <2>3 DEF Reached
<1>4. CASE ScanTake
  BY <1>4 DEF ScanTake, outside, Reached
<1>5. QED
  BY <1>1, <1>2, <1>3, <1>4 DEF accept_client

\* What the handlers of read sources do with them.
LEMMA HandlerReached ==
  ASSUME DaemonTyped, ClientsTyped, Inv, Reached, NEW k \in Conns, Fire(k) \/ Handler(k)
  PROVE  Reached'
<1>1. CASE Fire(k)
  BY <1>1, ReachedKept DEF Fire, outside, NoHandler, DaemonTyped, HSet
<1>2. CASE RecvMsg(k)
  <2>1. h'[k].at # "close" /\ \A j \in Conns \ {k} : h'[j] = h[j]
    BY <1>2 DEF RecvMsg, DaemonTyped
  <2>2. QED
    BY <1>2, <2>1, ReachedKept DEF RecvMsg
<1>3. CASE RecvEnd(k)
  <2>1. h[k].at = "recv" /\ Owner(k)
    BY <1>3 DEF RecvEnd, Inv, HandlerInv, Owner, Sourced, Left
  <2>2. At(Cl(k).fd) = k
    BY <2>1 DEF Inv, OwnerInv, At
  <2>3. peer[k] = "hungup" /\ UNCHANGED <<peer, backlog, fdt>> /\ \A j \in Conns \ {k} : h'[j] = h[j]
    BY <1>3, <2>2 DEF RecvEnd, DaemonTyped, outside
  <2>4. QED
    BY <2>3 DEF Reached
<1>4. CASE CloseClient(k)
  <2>1. h[k].at = "close" /\ Owner(k)
    BY <1>4 DEF CloseClient, Inv, HandlerInv, Owner, Sourced, Left
  <2>2. src[k].fd \in Fds /\ Cl(k).fd = src[k].fd /\ fdt[src[k].fd] = k
    BY <2>1 DEF Inv, OwnerInv
  <2>3. peer[k] = "hungup" /\ \A f \in Fds : fdt'[f] = IF f = src[k].fd THEN Unused ELSE fdt[f]
    BY <1>4, <2>1, <2>2 DEF CloseClient, CloseFd, DaemonTyped, Reached
  <2>4. /\ h'[k].at = "clear_fd" /\ \A j \in Conns \ {k} : h'[j] = h[j]
        /\ UNCHANGED <<peer, backlog>>
    BY <1>4 DEF CloseClient, DaemonTyped, HSet, outside
  <2>5. QED
    BY <2>2, <2>3, <2>4 DEF Reached
<1>5. CASE ClearFd(k)
  BY <1>5, ReachedKept DEF ClearFd, outside, DaemonTyped, HSet
<1>6. CASE OpenDevice(k)
  <2>1. \A f \in Fds : fdt[f] \in Conns => fdt'[f] = fdt[f]
    BY <1>6, LowestIsFree, Apart DEF OpenDevice, DaemonTyped
  <2>2. h'[k].at # "close" /\ \A j \in Conns \ {k} : h'[j] = h[j]
    BY <1>6 DEF OpenDevice, DaemonTyped, HSet
  <2>3. QED
    BY <1>6, <2>1, <2>2, ReachedKept DEF OpenDevice, outside
<1>7. CASE Send(k)
  <2>1. h'[k].at # "close" /\ \A j \in Conns \ {k} : h'[j] = h[j]
    BY <1>7 DEF Send, DaemonTyped, HSet
  <2>2. QED
    BY <1>7, <2>1, ReachedKept DEF Send
<1>8. CASE CloseDevice(k)
  <2>1. h[k].dev \in Fds /\ fdt[h[k].dev] = Device
    BY <1>8 DEF CloseDevice, Inv, DevInv, HasDev
  <2>2. \A f \in Fds : fdt[f] \in Conns => fdt'[f] = fdt[f]
    BY <1>8, <2>1, Apart DEF CloseDevice, CloseFd, DaemonTyped
  <2>3. h'[k].at # "close" /\ \A j \in Conns \ {k} : h'[j] = h[j]
    BY <1>8 DEF CloseDevice, DaemonTyped, HSet
  <2>4. QED
    BY <1>8, <2>2, <2>3, ReachedKept DEF CloseDevice, outside
<1>9. CASE CheckCancel(k)
  BY <1>9, ReachedKept DEF CheckCancel, outside, DaemonTyped, NoHandler
<1>10. QED
  BY <1>1, <1>2, <1>3, <1>4, <1>5, <1>6, <1>7, <1>8, <1>9 DEF Handler

\* A step of the daemon or of its peers.
LEMMA ReachedStep ==
  ASSUME DaemonTyped, ClientsTyped, Inv, Reached, [Next]_vars
  PROVE  Reached'
<1>1. CASE sig_handler
  BY <1>1 DEF sig_handler, outside, daemon, Reached
<1>2. ASSUME NEW k \in Conns, Connect(k) \/ Request(k) \/ Hangup(k) PROVE Reached'
  <2>1. CASE Connect(k)
    <3>1. h[k].at # "close"
      BY <2>1 DEF Connect, Reached
    <3>2. QED
      BY <2>1, <3>1 DEF Connect, daemon, Reached, ClientsTyped
  <2>2. CASE Request(k)
    BY <2>2 DEF Request, daemon, Reached
  <2>3. CASE Hangup(k)
    BY <2>3 DEF Hangup, daemon, Reached, ClientsTyped
  <2>4. QED
    BY <1>2, <2>1, <2>2, <2>3
<1>3. CASE UNCHANGED vars
  BY <1>3 DEF vars, outside, Reached
<1>4. QED
  BY <1>1, <1>2, <1>3, AcceptReached, HandlerReached DEF Next

-----------------------------------------------------------------------------
(* The composition: each step is one of the daemon and its peers, or one    *)
(* that only sends a request, or the end of the daemon.                     *)

Pcs == {"none", "connect", "send", "recv", "open", "destroy", "active", "over", "killed"}

SessionTyped ==
  /\ up \in BOOLEAN /\ pc \in [Sessions -> Pcs] /\ drm \in [Sessions -> {"none", "seatd", "itself"}]
  /\ reply \in [Sessions -> {"none", "device", "error"}]
  /\ \A k \in Sessions : /\ drm[k] # "none" <=> pc[k] = "active"
                         /\ drm[k] = "seatd" => reply[k] = "device"

\* A request is sent; nothing the daemon owns changes.
Sends == /\ ClientsTyped => ClientsTyped'
         /\ UNCHANGED <<peer, backlog, g_running, daemon>>

SStep == [Next]_vars \/ Sends

\* Any step of the composition is such a step, as far as the daemon is concerned.
LEMMA SNextSteps ==
  ASSUME SNext, ~Kill
  PROVE  SStep /\ UNCHANGED up
<1>1. ASSUME NEW k \in Conns, Handles(k) PROVE Next /\ UNCHANGED up
  BY <1>1 DEF Handles, Handler, Next
<1>2. ASSUME NEW k \in Sessions, Session(k) PROVE SStep /\ UNCHANGED up
  <2>1. k \in Conns
    BY SessionsAssumption
  <2>2. CASE SendRequest(k)
    <3>1. CASE Gone(k)
      BY <2>2, <3>1 DEF SendRequest, SStep
    <3>2. CASE ~Gone(k)
      <4>1. /\ inbox' = [inbox EXCEPT ![k] = "open"] /\ waiting' = [waiting EXCEPT ![k] = TRUE]
            /\ UNCHANGED <<peer, backlog, fdt, g_clients, acc, src, h, g_running, raced, wrong, up>>
        BY <2>2, <3>2 DEF SendRequest
      <4>2. ClientsTyped => ClientsTyped'
        BY <4>1, <2>1 DEF ClientsTyped, Msgs, Answered
      <4>3. QED
        BY <4>1, <4>2 DEF SStep, Sends, daemon
    <3>3. QED
      BY <3>1, <3>2
  <2>3. CASE Create(k) \/ Recv(k) \/ OpenDirect(k)
    BY <2>3 DEF Create, Recv, OpenDirect, SStep
  <2>4. CASE ConnectSeatd(k)
    BY <2>1, <2>4 DEF ConnectSeatd, SStep, Next
  <2>5. CASE Close(k)
    BY <2>1, <2>5 DEF Close, SStep, Next
  <2>6. QED
    BY <1>2, <2>2, <2>3, <2>4, <2>5 DEF Session, Creating
<1>3. CASE Accepts
  BY <1>3 DEF Accepts, SStep, Next, svars
<1>4. ASSUME NEW k \in Conns, Fires(k) PROVE SStep /\ UNCHANGED up
  BY <1>4 DEF Fires, SStep, Next, svars
<1>5. CASE Others
  BY <1>5 DEF Others, SStep, Next, svars
<1>6. QED
  BY <1>1, <1>2, <1>3, <1>4, <1>5 DEF SNext, Daemon, SStep

\* Sessions know whether they have a device, and their types are kept.
LEMMA SessionStep ==
  ASSUME SessionTyped, [SNext]_<<vars, svars>>
  PROVE  SessionTyped'
<1>1. CASE UNCHANGED <<vars, svars>>
  BY <1>1 DEF svars, SessionTyped
<1>2. CASE Accepts \/ Others \/ \E k \in Conns : Fires(k)
  BY <1>2 DEF Accepts, Others, Fires, svars, SessionTyped
<1>3. CASE Kill
  BY <1>3 DEF Kill, SessionTyped
<1>4. ASSUME NEW k \in Conns, Handles(k) PROVE SessionTyped'
  <2>1. UNCHANGED <<up, pc, drm>>
    BY <1>4 DEF Handles
  <2>2. /\ reply' \in [Sessions -> {"none", "device", "error"}]
        /\ \A s \in Sessions : reply[s] # "none" => reply'[s] = reply[s]
    BY <1>4 DEF Handles, SessionTyped
  <2>3. QED
    BY <2>1, <2>2 DEF SessionTyped
<1>5. ASSUME NEW k \in Sessions, Session(k) PROVE SessionTyped'
  <2>1. CASE Create(k)
    BY <2>1 DEF Create, At_, SessionTyped, Pcs
  <2>2. CASE ConnectSeatd(k)
    BY <2>2 DEF ConnectSeatd, At_, SessionTyped, Pcs
  <2>3. CASE SendRequest(k)
    BY <2>3 DEF SendRequest, At_, SessionTyped, Pcs
  <2>4. CASE Recv(k)
    BY <2>4 DEF Recv, At_, SessionTyped, Pcs
  <2>5. CASE OpenDirect(k)
    BY <2>5 DEF OpenDirect, At_, SessionTyped, Pcs
  <2>6. CASE Close(k)
    BY <2>6 DEF Close, SessionTyped, Pcs
  <2>7. QED
    BY <1>5, <2>1, <2>2, <2>3, <2>4, <2>5, <2>6 DEF Session, Creating
<1>6. QED
  BY <1>1, <1>2, <1>3, <1>4, <1>5 DEF SNext, Daemon

\* The end of the daemon leaves everything well typed.
LEMMA KillTyped ==
  ASSUME DaemonTyped, ClientsTyped, Kill
  PROVE  DaemonTyped' /\ ClientsTyped'
<1>1. NoAcc \in AccSet /\ NoSrc \in SrcSet /\ Cancelled \in SrcSet /\ NoHandler \in HSet
  BY SlotsAssumption DEF NoAcc, AccSet, NoSrc, Cancelled, SrcSet, States, NoHandler, HSet, Places, Slots
<1>2. fdt' \in [Fds -> Entries] /\ waiting' \in [Conns -> BOOLEAN]
  BY DEF Kill, Entries
<1>3. src' \in [Conns -> SrcSet] /\ h' \in [Conns -> HSet]
  BY <1>1 DEF Kill
<1>4. QED
  BY <1>1, <1>2, <1>3 DEF Kill, DaemonTyped, ClientsTyped

\* As long as the daemon runs it is the daemon of SeatdDarwin.
SInv == /\ DaemonTyped /\ ClientsTyped /\ SessionTyped
        /\ up /\ ~raced => Inv /\ Reached /\ ~wrong
        /\ \A k \in Sessions : pc[k] = "send" => peer[k] \in {"open", "refused"}
        /\ KilledOnlyIfTurnedAway

\* A request that is sent changes nothing the invariants speak of.
LEMMA SendsKeeps ==
  ASSUME ClientsTyped, Sends
  PROVE  /\ DaemonTyped => DaemonTyped'
         /\ Inv => Inv'
         /\ Reached => Reached'
         /\ raced' = raced /\ wrong' = wrong
<1>1. UNCHANGED <<peer, backlog, fdt, g_clients, acc, src, h, raced, wrong>>
  BY DEF Sends, daemon
<1>2. Inv => Inv'
  BY OutsideInv DEF Sends, Inv, AccInv, ClientsTyped
<1>3. QED
  BY <1>1, <1>2 DEF DaemonTyped, Reached

\* The other end of a connection is never opened again, and is closed by itself only.
LEMMA PeerSteps ==
  ASSUME ClientsTyped, SInv, [SNext]_<<vars, svars>>, NEW k \in Sessions, ~Close(k), ~ConnectSeatd(k)
  PROVE  peer'[k] = peer[k] \/ peer'[k] = "refused"
<1>1. k \in Conns
  BY SessionsAssumption
<1>2. ASSUME NEW j \in Conns, j # k, Connect(j) \/ Request(j) \/ Hangup(j) PROVE peer'[k] = peer[k]
  BY <1>1, <1>2 DEF Connect, Request, Hangup, ClientsTyped
<1>3. CASE Others
  BY <1>2, <1>3 DEF Others
<1>4. CASE Daemon
  <2>1. CASE Accepts
    BY <1>1, <2>1 DEF Accepts, accept_client, Accept, ScanNext, ScanFull, ScanTake, outside, ClientsTyped
  <2>2. CASE Kill
    BY <2>2 DEF Kill
  <2>3. ASSUME NEW j \in Conns, Fires(j) \/ Handles(j) PROVE peer'[k] = peer[k]
    BY <2>3 DEF Fires, Handles, Fire, RecvMsg, RecvEnd, CloseClient, ClearFd, OpenDevice, Send,
                CloseDevice, CheckCancel, outside
  <2>4. QED
    BY <1>4, <2>1, <2>2, <2>3 DEF Daemon
<1>5. ASSUME NEW j \in Sessions, Session(j) PROVE peer'[k] = peer[k]
  <2>1. j \in Conns
    BY SessionsAssumption
  <2>2. CASE ConnectSeatd(j) \/ Close(j)
    BY <1>2, <2>1, <2>2 DEF ConnectSeatd, Close, vars, outside
  <2>3. CASE Create(j) \/ SendRequest(j) \/ Recv(j) \/ OpenDirect(j)
    BY <2>3 DEF Create, SendRequest, Recv, OpenDirect, vars, outside
  <2>4. QED
    BY <1>5, <2>2, <2>3 DEF Session, Creating
<1>6. CASE UNCHANGED <<vars, svars>>
  BY <1>6 DEF vars, outside
<1>7. QED
  BY <1>3, <1>4, <1>5, <1>6 DEF SNext

\* What a session is doing when it sends, and when SIGPIPE ends it.
LEMMA PcSteps ==
  ASSUME SessionTyped, [SNext]_<<vars, svars>>, NEW k \in Sessions
  PROVE  /\ pc'[k] = "send" => pc[k] = "send" \/ ConnectSeatd(k)
         /\ pc'[k] = "killed" => pc[k] = "killed" \/ (SendRequest(k) /\ Gone(k))
         /\ pc[k] \in {"send", "killed"} => ~Close(k) /\ ~ConnectSeatd(k)
<1>1. pc[k] \in {"send", "killed"} => ~Close(k) /\ ~ConnectSeatd(k)
  BY DEF Close, ConnectSeatd, At_
<1>2. CASE UNCHANGED pc
  BY <1>1, <1>2
<1>3. ASSUME NEW j \in Sessions, Session(j), j # k PROVE pc'[k] = pc[k]
  BY <1>3 DEF Session, Creating, Create, ConnectSeatd, SendRequest, Recv, OpenDirect, Close, At_,
              SessionTyped
<1>4. CASE Session(k)
  BY <1>1, <1>4 DEF Session, Creating, Create, ConnectSeatd, SendRequest, Recv, OpenDirect, Close, At_,
                    SessionTyped
<1>5. CASE Daemon \/ Others
  BY <1>2, <1>5 DEF Daemon, Others, Accepts, Kill, Fires, Handles, svars
<1>6. QED
  BY <1>1, <1>2, <1>3, <1>4, <1>5 DEF SNext, svars

\* A slot that was reused too early stays so, whatever the sessions do.
LEMMA SRacedForGood ==
  ASSUME SInv, [SNext]_<<vars, svars>>
  PROVE  raced => raced'
<1>1. Kill \/ SStep
  BY SNextSteps DEF SStep, svars
<1>2. CASE Kill
  BY <1>2 DEF Kill
<1>3. CASE Sends
  BY <1>3, SendsKeeps DEF SInv
<1>4. CASE [Next]_vars
  BY <1>4, RacedForGood DEF SInv
<1>5. QED
  BY <1>1, <1>2, <1>3, <1>4 DEF SStep

\* Every step keeps it: a step of the daemon, a session's step, or the kill.
LEMMA SInvStep ==
  ASSUME SInv, [SNext]_<<vars, svars>>
  PROVE  SInv'
<1>1. SessionTyped'
  BY SessionStep DEF SInv
<1>2. Kill \/ (SStep /\ UNCHANGED up)
  BY SNextSteps DEF SStep, svars
<1>3. DaemonTyped' /\ ClientsTyped'
  BY <1>2, KillTyped, StepTyped, SendsKeeps DEF SInv, SStep, Sends
<1>4. raced => raced'
  BY SRacedForGood
<1>5. up' => up /\ SStep
  BY <1>2 DEF Kill
<1>6. ASSUME up', ~raced' PROVE Inv' /\ Reached' /\ ~wrong'
  <2>1. Inv /\ Reached /\ ~wrong /\ DaemonTyped /\ ClientsTyped
    BY <1>4, <1>5, <1>6 DEF SInv
  <2>2. CASE Sends
    BY <2>1, <2>2, SendsKeeps
  <2>3. CASE [Next]_vars
    BY <1>6, <2>1, <2>3, ReachedStep, IInvStep DEF IInv
  <2>4. QED
    BY <1>5, <1>6, <2>2, <2>3 DEF SStep
<1>7. ASSUME NEW k \in Sessions, pc'[k] = "send" PROVE peer'[k] \in {"open", "refused"}
  <2>1. CASE pc[k] = "send"
    BY <2>1, PcSteps, PeerSteps DEF SInv
  <2>2. CASE ConnectSeatd(k)
    <3>1. k \in Conns /\ Connect(k)
      BY <1>7, <2>2, SessionsAssumption DEF ConnectSeatd, At_, SInv, SessionTyped
    <3>2. QED
      BY <3>1 DEF Connect, SInv, ClientsTyped
  <2>3. QED
    BY <1>7, <2>1, <2>2, PcSteps DEF SInv
<1>8. ASSUME NEW k \in Sessions, pc'[k] = "killed" PROVE ~up' \/ peer'[k] = "refused" \/ raced'
  <2>1. CASE pc[k] = "killed"
    BY <1>4, <1>5, <2>1, PcSteps, PeerSteps DEF SInv, KilledOnlyIfTurnedAway
  <2>2. CASE SendRequest(k) /\ Gone(k)
    <3>1. pc[k] = "send" /\ UNCHANGED <<vars, up>>
      BY <2>2 DEF SendRequest, At_
    <3>2. up /\ ~raced => peer[k] # "open"
      BY <2>2, SessionsAssumption DEF SInv, Reached, Gone
    <3>3. QED
      BY <3>1, <3>2 DEF SInv, vars, outside
  <2>3. QED
    BY <1>8, <2>1, <2>2, PcSteps DEF SInv
<1>9. QED
  BY <1>1, <1>3, <1>6, <1>7, <1>8 DEF SInv, KilledOnlyIfTurnedAway

\* The invariant holds in every behaviour.
LEMMA SInvAlways == SSpec => []SInv
<1>1. SInit => SInv
  <2>1. SInit => DaemonTyped /\ ClientsTyped /\ (~raced => Inv /\ ~wrong)
    BY IInvInit DEF SInit, IInv
  <2>2. SInit => SessionTyped
    BY DEF SInit, SessionTyped, Pcs
  <2>3. SInit => Reached
    BY DEF SInit, Init, Reached, NoHandler
  <2>4. QED
    BY <2>1, <2>2, <2>3 DEF SInv, SInit, KilledOnlyIfTurnedAway
<1>2. QED
  BY <1>1, SInvStep, PTL DEF SSpec

-----------------------------------------------------------------------------
(* The properties.                                                          *)

\* The types of daemon and sessions, that a session holds a device exactly while it is
\* active, and one from seatd only if seatd said so, with a daemon that may be killed.
THEOREM SessionTypeCorrect == SSpec => []STypeOK
<1>1. SInv => STypeOK
  BY TypedIsTypeOK DEF SInv, SessionTyped, STypeOK, Pcs
<1>2. QED
  BY <1>1, SInvAlways, PTL

\* SIGPIPE ends a session only if the daemon is gone, or had no slot for it, or once
\* reused a slot too early.
THEOREM KilledOnlyIfTurnedAwayAlways == SSpec => []KilledOnlyIfTurnedAway
<1>1. SInv => KilledOnlyIfTurnedAway
  BY DEF SInv
<1>2. QED
  BY <1>1, SInvAlways, PTL

-----------------------------------------------------------------------------
(* What the sessions promise the DRM backend, without the promise that a    *)
(* creation ends.                                                           *)

\* The state of SeatSession, as DarwinSession instantiates it.
AbsState == [k \in Sessions |-> StateOf(pc[k])]

\* Where a session is, as the backend sees it.
LEMMA StateFacts ==
  /\ StateOf("none") = "none" /\ StateOf("active") = "active"
  /\ StateOf("over") = "over" /\ StateOf("killed") = "over"
  /\ \A p \in {"connect", "send", "recv", "open", "destroy"} : StateOf(p) = "creating"
  BY DEF StateOf

\* The backend sees a session go on.
LEMMA AbsGoes ==
  ASSUME SessionTyped, NEW k \in Sessions, NEW from, NEW to, At_(k, from, to), UNCHANGED raced
  PROVE  Abstract!Goes(k, StateOf(from), StateOf(to))
<1>1. pc[k] = from /\ pc' = [pc EXCEPT ![k] = to] /\ DOMAIN pc = Sessions
  BY DEF At_, SessionTyped
<1>2. AbsState' = [AbsState EXCEPT ![k] = StateOf(to)]
  BY <1>1 DEF AbsState
<1>3. AbsState[k] = StateOf(from)
  BY <1>1 DEF AbsState
<1>4. QED
  BY <1>2, <1>3 DEF Abstract!Goes, AbsState

\* Or nothing of it.
LEMMA AbsStays ==
  ASSUME SessionTyped, NEW k \in Sessions, NEW from, NEW to, At_(k, from, to),
         UNCHANGED raced, StateOf(from) = StateOf(to)
  PROVE  UNCHANGED <<AbsState, raced>>
<1>1. pc[k] = from /\ pc' = [pc EXCEPT ![k] = to] /\ DOMAIN pc = Sessions
  BY DEF At_, SessionTyped
<1>2. AbsState' = AbsState
  BY <1>1 DEF AbsState
<1>3. QED
  BY <1>2

\* Every step of a session is one the backend may see, or none.
LEMMA RefineSession ==
  ASSUME SessionTyped, NEW k \in Sessions, Session(k)
  PROVE  [Abstract!Next]_<<AbsState, raced>>
<1>1. Abstract!Begin(k) \/ Abstract!Return(k) \/ Abstract!Destroy(k) => Abstract!Next
  BY DEF Abstract!Next
<1>2. CASE Create(k)
  <2>1. At_(k, "none", "connect") /\ UNCHANGED raced
    BY <1>2 DEF Create, vars
  <2>2. Abstract!Begin(k)
    BY <2>1, AbsGoes, StateFacts DEF Abstract!Begin
  <2>3. QED
    BY <1>1, <2>2
<1>3. ASSUME NEW from \in {"connect", "send", "recv", "open", "destroy"},
             NEW to \in {"active", "over", "killed"}, At_(k, from, to), UNCHANGED raced
      PROVE  Abstract!Next
  <2>1. Abstract!Goes(k, "creating", StateOf(to)) /\ StateOf(to) \in {"active", "over"}
    BY <1>3, AbsGoes, StateFacts
  <2>2. QED
    BY <1>1, <2>1 DEF Abstract!Return
<1>4. ASSUME NEW from \in {"connect", "send", "recv", "open", "destroy"},
             NEW to \in {"connect", "send", "recv", "open", "destroy"},
             At_(k, from, to), UNCHANGED raced
      PROVE  UNCHANGED <<AbsState, raced>>
  BY <1>4, AbsStays, StateFacts
<1>5. CASE ConnectSeatd(k)
  <2>1. /\ At_(k, "connect", "send") \/ At_(k, "connect", "over")
        /\ UNCHANGED raced
    BY <1>5 DEF ConnectSeatd, Connect, vars, daemon
  <2>2. QED
    BY <1>3, <1>4, <2>1
<1>6. CASE SendRequest(k)
  <2>1. /\ At_(k, "send", "killed") \/ At_(k, "send", "recv")
        /\ UNCHANGED raced
    BY <1>6 DEF SendRequest, vars, daemon
  <2>2. QED
    BY <1>3, <1>4, <2>1
<1>7. CASE Recv(k)
  <2>1. /\ At_(k, "recv", "active") \/ At_(k, "recv", "open")
        /\ UNCHANGED raced
    BY <1>7 DEF Recv, vars, daemon
  <2>2. QED
    BY <1>3, <1>4, <2>1
<1>8. CASE OpenDirect(k)
  <2>1. /\ At_(k, "open", "active") \/ At_(k, "open", "destroy")
        /\ UNCHANGED raced
    BY <1>8 DEF OpenDirect, vars, daemon
  <2>2. QED
    BY <1>3, <1>4, <2>1
<1>9. CASE Close(k)
  <2>1. /\ At_(k, "active", "over") \/ At_(k, "destroy", "over")
        /\ UNCHANGED raced
    BY <1>9 DEF Close, At_, Hangup, vars, daemon
  <2>2. At_(k, "active", "over") => Abstract!Destroy(k)
    BY <2>1, AbsGoes, StateFacts DEF Abstract!Destroy
  <2>3. QED
    BY <1>1, <1>3, <2>1, <2>2
<1>10. QED
  BY <1>2, <1>5, <1>6, <1>7, <1>8, <1>9 DEF Session, Creating

\* Sessions begin, get their device or do not, and keep it until they are destroyed,
\* as SeatSession says; whether a creation ends is left to TLC.
THEOREM SafetyRefinement == SSpec => Abstract!Init /\ [][Abstract!Next]_<<AbsState, raced>>
<1>1. SInit => Abstract!Init
  BY StateFacts DEF SInit, Init, Abstract!Init
<1>2. SInv /\ [SNext]_<<vars, svars>> => [Abstract!Next]_<<AbsState, raced>>
  <2>1. SUFFICES ASSUME SInv, [SNext]_<<vars, svars>> PROVE [Abstract!Next]_<<AbsState, raced>>
    OBVIOUS
  <2>2. DaemonTyped /\ SessionTyped
    BY <2>1 DEF SInv
  <2>3. ASSUME NEW k \in Sessions, Session(k) PROVE [Abstract!Next]_<<AbsState, raced>>
    BY <2>2, <2>3, RefineSession
  <2>4. ASSUME Daemon \/ Others \/ UNCHANGED <<vars, svars>>
        PROVE  [Abstract!Next]_<<AbsState, raced>>
    <3>1. UNCHANGED pc
      BY <2>4 DEF Daemon, Others, Accepts, Kill, Fires, Handles, svars
    <3>2. UNCHANGED AbsState
      BY <3>1 DEF AbsState
    <3>3. UNCHANGED raced \/ (~raced /\ raced')
      <4>1. SInv'
        BY <2>1, SInvStep
      <4>2. raced \in BOOLEAN /\ raced' \in BOOLEAN
        BY <2>2, <4>1 DEF SInv, DaemonTyped
      <4>3. raced => raced'
        BY <2>1, SRacedForGood
      <4>4. QED
        BY <4>2, <4>3
    <3>4. QED
      BY <3>2, <3>3 DEF Abstract!Next, Abstract!Lose, AbsState
  <2>5. QED
    BY <2>1, <2>3, <2>4 DEF SNext
<1>3. QED
  BY <1>1, <1>2, SInvAlways, PTL DEF SSpec

-----------------------------------------------------------------------------
(* No session is forgotten in recvmsg.                                      *)

\* What a session and the daemon know of each other: before its request nothing was sent
\* and no handler runs; then the request is in hand, unless it is answered or the
\* connection has ended, as all have when the daemon is gone.
AskOK(k) ==
  /\ pc[k] \in {"none", "connect"} => peer[k] = "new"
  /\ pc[k] \in {"none", "connect", "send"} => inbox[k] = NoMsg /\ h[k].at = "idle"
  /\ pc[k] = "recv" => /\ peer[k] # "hungup" /\ inbox[k] \in {NoMsg, "open"}
                       /\ reply[k] # "none" \/ Gone(k) \/ InHand(k)
  /\ ~up => Gone(k)

\* When a step that is not the session's own keeps that.
LEMMA AskKept ==
  ASSUME NEW k, AskOK(k), UNCHANGED <<up, pc[k]>>,
         peer'[k] = peer[k] \/ (peer[k] # "new" /\ peer'[k] = "refused"),
         inbox'[k] \in {inbox[k], NoMsg},
         pc[k] \in {"none", "connect", "send"} => h'[k].at = "idle",
         Gone(k) => Gone(k)',
         pc[k] = "recv" /\ (reply[k] # "none" \/ InHand(k)) =>
           reply'[k] # "none" \/ Gone(k)' \/ InHand(k)'
  PROVE  AskOK(k)'
  BY DEF AskOK

\* The accept handler takes a connection with its request from one place to another.
LEMMA AskAccept ==
  ASSUME SInv, ~raced, Accepts, NEW k \in Sessions, AskOK(k)
  PROVE  AskOK(k)'
<1>1. /\ up /\ accept_client /\ UNCHANGED <<up, pc, reply, h>> /\ k \in Conns
      /\ Inv /\ DaemonTyped /\ ClientsTyped
  BY SessionsAssumption DEF SInv, Accepts, svars, accept_client, Accept, ScanNext, ScanFull, ScanTake
<1>2. pc[k] \in {"none", "connect", "send"} => h'[k].at = "idle"
  BY <1>1 DEF AskOK
<1>3. CASE Accept
  <2>1. PICK j \in backlog : /\ backlog' = backlog \ {j}
                             /\ fdt' = [fdt EXCEPT ![LowestFd] = j]
                             /\ acc' = [at |-> "scan", fd |-> LowestFd, conn |-> j, slot |-> 1]
    BY <1>3 DEF Accept
  <2>2. LowestFd \in Fds /\ fdt[LowestFd] = Unused /\ acc.at = "idle" /\ UNCHANGED <<peer, inbox, src>>
    BY <1>3, LowestIsFree DEF Accept
  <2>3. Gone(k) => Gone(k)'
    BY <1>1, <2>1, <2>2 DEF Gone, DaemonTyped
  <2>4. InHand(k) => InHand(k)'
    BY <1>1, <2>1, <2>2 DEF InHand
  <2>5. QED
    BY <1>1, <1>2, <2>2, <2>3, <2>4, AskKept
<1>4. CASE ScanNext
  <2>1. UNCHANGED <<peer, inbox, backlog, fdt, src>> /\ acc'.at = acc.at /\ acc'.conn = acc.conn
    BY <1>1, <1>4 DEF ScanNext, outside, DaemonTyped, AccSet
  <2>2. (Gone(k) => Gone(k)') /\ (InHand(k) => InHand(k)')
    BY <1>1, <2>1 DEF Gone, InHand
  <2>3. QED
    BY <1>1, <1>2, <2>1, <2>2, AskKept
<1>5. CASE ScanFull
  <2>1. /\ acc.fd \in Fds /\ acc.conn \in Conns /\ fdt[acc.fd] = acc.conn
        /\ src[acc.conn].state = "none" /\ acc.conn \notin backlog /\ peer[acc.conn] # "new"
    BY <1>1, <1>5 DEF ScanFull, Inv, AccInv
  <2>2. /\ fdt' = [fdt EXCEPT ![acc.fd] = Unused] /\ peer' = [peer EXCEPT ![acc.conn] = "refused"]
        /\ inbox' = [inbox EXCEPT ![acc.conn] = NoMsg] /\ acc' = NoAcc /\ UNCHANGED <<backlog, src>>
    BY <1>5, <2>1 DEF ScanFull, CloseFd
  <2>3. Gone(k) => Gone(k)'
    BY <1>1, <2>1, <2>2, Apart DEF Gone, DaemonTyped
  <2>4. CASE k = acc.conn
    <3>1. \A f \in Fds : fdt[f] = k => f = acc.fd
      BY <1>1, <2>1, <2>4 DEF Inv, ConnInv, Owner, Sourced
    <3>2. Gone(k)'
      BY <1>1, <2>1, <2>2, <2>4, <3>1, Apart DEF Gone, DaemonTyped
    <3>3. peer[k] # "new" /\ peer'[k] = "refused" /\ inbox'[k] = NoMsg
      BY <1>1, <2>1, <2>2, <2>4 DEF ClientsTyped
    <3>4. QED
      BY <1>1, <1>2, <3>2, <3>3, AskKept
  <2>5. CASE k # acc.conn
    <3>1. InHand(k) => InHand(k)'
      BY <1>1, <2>1, <2>2, <2>5 DEF InHand, ClientsTyped
    <3>2. peer'[k] = peer[k] /\ inbox'[k] = inbox[k]
      BY <1>1, <2>2, <2>5 DEF ClientsTyped
    <3>3. QED
      BY <1>1, <1>2, <2>3, <3>1, <3>2, AskKept
  <2>6. QED
    BY <2>4, <2>5
<1>6. CASE ScanTake
  <2>1. /\ UNCHANGED <<peer, inbox, backlog, fdt>> /\ acc.at = "scan" /\ acc.conn \in Conns
        /\ src' = [src EXCEPT ![acc.conn] = [state |-> "armed", fd |-> acc.fd, slot |-> acc.slot]]
    BY <1>1, <1>6 DEF ScanTake, outside, Inv, AccInv
  <2>2. (k = acc.conn => src'[k].state = "armed") /\ (k # acc.conn => src'[k] = src[k])
    BY <1>1, <2>1 DEF DaemonTyped
  <2>3. (Gone(k) => Gone(k)') /\ (InHand(k) => InHand(k)')
    BY <1>1, <2>1, <2>2 DEF Gone, InHand
  <2>4. QED
    BY <1>1, <1>2, <2>1, <2>3, AskKept
<1>7. QED
  BY <1>1, <1>3, <1>4, <1>5, <1>6 DEF accept_client

\* A source fires for its own connection, and not before the session has sent.
LEMMA AskFire ==
  ASSUME SInv, ~raced, NEW j \in Conns, Fires(j), NEW k \in Sessions, AskOK(k)
  PROVE  AskOK(k)'
<1>1. /\ up /\ UNCHANGED <<up, pc, reply, peer, inbox, backlog, fdt, acc>> /\ k \in Conns
      /\ Inv /\ DaemonTyped
  BY SessionsAssumption DEF SInv, Fires, Fire, svars, outside
<1>2. /\ src[j].state = "armed" /\ Readable(At(src[j].fd))
      /\ h'[j].at = "recv" /\ \A i \in Conns \ {j} : h'[i] = h[i] /\ src'[i] = src[i]
  BY <1>1 DEF Fires, Fire, NoHandler, DaemonTyped
<1>3. h[j].at = "idle" /\ At(src[j].fd) = j
  <2>1. h[j].at = "idle" /\ Owner(j)
    BY <1>1, <1>2 DEF Inv, HandlerInv, Owner, Sourced, Left
  <2>2. QED
    BY <1>1, <2>1 DEF Inv, OwnerInv, At
<1>4. j = k => pc[k] \notin {"none", "connect", "send"}
  BY <1>2, <1>3 DEF Readable, AskOK, SInv
<1>5. pc[k] \in {"none", "connect", "send"} => h'[k].at = "idle"
  BY <1>1, <1>2, <1>4 DEF AskOK
<1>6. InHand(k) => InHand(k)'
  <2>1. CASE j = k
    BY <1>1, <1>2, <1>3, <2>1 DEF InHand
  <2>2. CASE j # k
    BY <1>1, <1>2, <2>2 DEF InHand
  <2>3. QED
    BY <2>1, <2>2
<1>7. Gone(k) => Gone(k)'
  BY <1>1 DEF Gone
<1>8. QED
  BY <1>1, <1>5, <1>6, <1>7, AskKept

\* The handler of another connection does not touch what is the session's.
LEMMA AskOtherHandler ==
  ASSUME SInv, ~raced, NEW j \in Conns, Handles(j), NEW k \in Sessions, AskOK(k), j # k
  PROVE  AskOK(k)'
<1>1. /\ up /\ UNCHANGED <<up, pc>> /\ k \in Conns /\ Inv /\ DaemonTyped /\ ClientsTyped /\ SessionTyped
  BY SessionsAssumption DEF SInv, Handles
<1>2. /\ UNCHANGED <<peer, backlog, acc>> /\ h'[k] = h[k] /\ src'[k] = src[k]
  BY <1>1 DEF Handles, Send, RecvMsg, RecvEnd, CloseClient, ClearFd, OpenDevice, CloseDevice,
              CheckCancel, outside, DaemonTyped
<1>3. reply[k] # "none" => reply'[k] # "none"
  BY <1>1 DEF Handles
<1>4. Gone(k) => Gone(k)'
  <2>1. \A f \in Fds : fdt'[f] \in {fdt[f], Unused, Device}
    BY <1>1 DEF Handles, Send, RecvMsg, RecvEnd, CloseClient, ClearFd, OpenDevice, CloseDevice,
                CheckCancel, CloseFd, DaemonTyped
  <2>2. QED
    BY <1>1, <1>2, <2>1, Apart DEF Gone
<1>5. inbox'[k] = inbox[k]
  <2>1. CASE RecvMsg(j)
    <3>1. At(Cl(j).fd) = j
      <4>1. Owner(j)
        BY <1>1, <2>1 DEF RecvMsg, Inv, HandlerInv, Owner, Sourced, Left
      <4>2. QED
        BY <1>1, <4>1 DEF Inv, OwnerInv, At
    <3>2. QED
      BY <1>1, <2>1, <3>1 DEF RecvMsg, ClientsTyped
  <2>2. QED
    BY <2>1 DEF Handles, Send, RecvEnd, CloseClient, ClearFd, OpenDevice, CloseDevice, CheckCancel, outside
<1>6. InHand(k) => InHand(k)'
  BY <1>2, <1>5 DEF InHand
<1>7. QED
  BY <1>1, <1>2, <1>3, <1>4, <1>5, <1>6, AskKept DEF AskOK

\* The session's own handler answers the request it has read.
LEMMA AskHandler ==
  ASSUME SInv, ~raced, NEW k \in Sessions, Handles(k), AskOK(k)
  PROVE  AskOK(k)'
<1>1. /\ up /\ UNCHANGED <<up, pc, peer, backlog, acc>> /\ k \in Conns
      /\ Inv /\ Reached /\ DaemonTyped /\ ClientsTyped /\ SessionTyped
  BY SessionsAssumption DEF SInv, Handles, Send, RecvMsg, RecvEnd, CloseClient, ClearFd, OpenDevice,
                            CloseDevice, CheckCancel, outside
<1>2. h[k].at # "idle" /\ pc[k] \notin {"none", "connect", "send"}
  BY DEF Handles, Send, RecvMsg, RecvEnd, CloseClient, ClearFd, OpenDevice, CloseDevice,
         CheckCancel, AskOK
<1>3. src[k].state = "running" /\ k \notin backlog /\ ~(acc.at = "scan" /\ acc.conn = k)
  BY <1>1, <1>2 DEF Inv, HandlerInv, AccInv
<1>4. reply[k] # "none" => reply'[k] # "none"
  BY <1>1 DEF Handles
<1>5. Gone(k) => Gone(k)'
  <2>1. \A f \in Fds : fdt'[f] \in {fdt[f], Unused, Device}
    BY <1>1 DEF Handles, Send, RecvMsg, RecvEnd, CloseClient, ClearFd, OpenDevice, CloseDevice,
                CheckCancel, CloseFd, DaemonTyped
  <2>2. QED
    BY <1>1, <2>1, Apart DEF Gone
<1>6. h[k].at \in {"recv", "send"} => At(Cl(k).fd) = k
  BY <1>1, <1>2, <1>3 DEF Inv, OwnerInv, Owner, Sourced, Left, At
<1>7. /\ inbox'[k] \in {inbox[k], NoMsg}
      /\ pc[k] = "recv" /\ InHand(k) => reply'[k] # "none" \/ InHand(k)'
  <2>1. CASE RecvMsg(k)
    <3>1. inbox'[k] = NoMsg /\ h[k].at = "recv"
      BY <1>1, <1>6, <2>1 DEF RecvMsg, ClientsTyped
    <3>2. pc[k] = "recv" => h'[k].at = "open"
      BY <1>1, <1>6, <2>1 DEF RecvMsg, DaemonTyped, AskOK
    <3>3. QED
      BY <3>1, <3>2 DEF InHand
  <2>2. CASE RecvEnd(k)
    BY <1>1, <1>6, <2>2 DEF RecvEnd, AskOK, outside
  <2>3. CASE CloseClient(k)
    BY <1>1, <2>3 DEF CloseClient, Reached, AskOK, outside
  <2>4. CASE OpenDevice(k)
    <3>1. h[k] \in HSet /\ UNCHANGED inbox
      BY <1>1, <2>4 DEF OpenDevice, DaemonTyped, outside
    <3>2. h'[k].at = "send"
      BY <1>1, <2>4, <3>1 DEF OpenDevice, DaemonTyped, HSet
    <3>3. QED
      BY <3>1, <3>2 DEF InHand
  <2>5. CASE Send(k)
    <3>1. reply'[k] # "none"
      BY <1>1, <1>6, <2>5 DEF Send, Handles, RecvMsg, RecvEnd, CloseClient, ClearFd, OpenDevice,
                              CloseDevice, CheckCancel
    <3>2. QED
      BY <2>5, <3>1 DEF Send
  <2>6. CASE ClearFd(k) \/ CloseDevice(k) \/ CheckCancel(k)
    BY <1>3, <2>6 DEF ClearFd, CloseDevice, CheckCancel, InHand, outside
  <2>7. QED
    BY <2>1, <2>2, <2>3, <2>4, <2>5, <2>6 DEF Handles
<1>8. QED
  BY <1>1, <1>2, <1>4, <1>5, <1>7, AskKept DEF AskOK

\* What other clients and sessions do is nothing to this one.
LEMMA AskOthers ==
  ASSUME SInv, NEW k \in Sessions, AskOK(k), Others \/ \E j \in Sessions \ {k} : Session(j)
  PROVE  AskOK(k)'
<1>1. k \in Conns /\ ClientsTyped /\ SessionTyped
  BY SessionsAssumption DEF SInv
<1>2. ASSUME NEW j \in Conns, j # k, Connect(j) \/ Request(j) \/ Hangup(j)
      PROVE  /\ UNCHANGED <<fdt, acc, src, h>> /\ peer'[k] = peer[k] /\ inbox'[k] = inbox[k]
             /\ k \in backlog' <=> k \in backlog
  BY <1>1, <1>2 DEF Connect, Request, Hangup, daemon, ClientsTyped
<1>3. /\ UNCHANGED <<up, reply, fdt, acc, src, h>> /\ pc'[k] = pc[k]
      /\ peer'[k] = peer[k] /\ inbox'[k] = inbox[k] /\ (k \in backlog' <=> k \in backlog)
  <2>1. CASE Others
    BY <1>2, <2>1 DEF Others, svars
  <2>2. ASSUME NEW j \in Sessions \ {k}, Session(j)
        PROVE  /\ UNCHANGED <<up, reply, fdt, acc, src, h>> /\ pc'[k] = pc[k]
               /\ peer'[k] = peer[k] /\ inbox'[k] = inbox[k] /\ (k \in backlog' <=> k \in backlog)
    <3>1. j \in Conns /\ j # k
      BY SessionsAssumption
    <3>2. CASE Create(j) \/ Recv(j) \/ OpenDirect(j)
      BY <1>1, <3>1, <3>2 DEF Create, Recv, OpenDirect, At_, vars, outside, SessionTyped
    <3>3. CASE SendRequest(j)
      BY <1>1, <3>1, <3>3 DEF SendRequest, At_, vars, outside, SessionTyped, ClientsTyped
    <3>4. CASE ConnectSeatd(j) \/ Close(j)
      BY <1>1, <1>2, <3>1, <3>4 DEF ConnectSeatd, Close, At_, vars, outside, SessionTyped
    <3>5. QED
      BY <2>2, <3>2, <3>3, <3>4 DEF Session, Creating
  <2>3. QED
    BY <2>1, <2>2
<1>4. (Gone(k) <=> Gone(k)') /\ (InHand(k) <=> InHand(k)')
  BY <1>3 DEF Gone, InHand
<1>5. QED
  BY <1>3, <1>4, AskKept DEF AskOK

\* A session sends once, on a connection that is open at the other end: so there is
\* somebody to read its request.
LEMMA AskOwn ==
  ASSUME SInv, ~raced, NEW k \in Sessions, AskOK(k), Session(k)
  PROVE  AskOK(k)'
<1>1. k \in Conns /\ ClientsTyped /\ SessionTyped
  BY SessionsAssumption DEF SInv
<1>2. CASE SendRequest(k) /\ ~Gone(k)
  <2>1. /\ pc[k] = "send" /\ pc'[k] = "recv" /\ inbox'[k] = "open"
        /\ UNCHANGED <<up, peer, backlog, fdt, acc, src, h>>
    BY <1>1, <1>2 DEF SendRequest, At_, SessionTyped, ClientsTyped
  <2>2. up /\ Inv /\ h[k].at = "idle" /\ peer[k] # "hungup"
    BY <1>2, <2>1 DEF AskOK, SInv
  <2>3. k \in backlog \/ (acc.at = "scan" /\ acc.conn = k) \/ src[k].state = "armed"
    BY <1>1, <1>2, <2>2 DEF Gone, Inv, ConnInv, HandlerInv, Owner, Sourced
  <2>4. InHand(k)'
    BY <2>1, <2>3 DEF InHand, NoMsg
  <2>5. QED
    BY <2>1, <2>2, <2>4 DEF AskOK
<1>3. CASE SendRequest(k) /\ Gone(k)
  BY <1>1, <1>3 DEF SendRequest, At_, SessionTyped, AskOK, vars, outside, Gone
<1>4. CASE Create(k) \/ Recv(k) \/ OpenDirect(k)
  BY <1>1, <1>4 DEF Create, Recv, OpenDirect, At_, SessionTyped, AskOK, vars, outside, Gone
<1>5. CASE ConnectSeatd(k)
  BY <1>1, <1>5 DEF ConnectSeatd, Connect, daemon, At_, SessionTyped, AskOK, vars, outside, Gone
<1>6. CASE Close(k)
  BY <1>1, <1>6 DEF Close, Hangup, daemon, SessionTyped, AskOK, vars, outside, Gone
<1>7. QED
  BY <1>2, <1>3, <1>4, <1>5, <1>6 DEF Session, Creating

\* The end of the daemon ends every connection.
LEMMA AskKill ==
  ASSUME NEW k \in Sessions, AskOK(k), Kill
  PROVE  AskOK(k)'
<1>1. Gone(k)'
  BY SessionsAssumption, EntryAssumption DEF Kill, Gone
<1>2. UNCHANGED <<peer, inbox, pc>> /\ h'[k].at = "idle"
  BY SessionsAssumption DEF Kill, NoHandler
<1>3. QED
  BY <1>1, <1>2 DEF AskOK

\* What sessions and daemon know of each other, as long as no slot was reused too early.
AskInv == ~raced => \A k \in Sessions : AskOK(k)

LEMMA AskStep == SInv /\ AskInv /\ [SNext]_<<vars, svars>> => AskInv'
<1> SUFFICES ASSUME SInv, AskInv, [SNext]_<<vars, svars>>, ~raced', NEW k \in Sessions
             PROVE  AskOK(k)'
  BY DEF AskInv
<1>1. ~raced /\ AskOK(k)
  BY SRacedForGood DEF AskInv
<1>2. CASE UNCHANGED <<vars, svars>>
  BY <1>1, <1>2 DEF AskOK, Gone, InHand, vars, outside, svars
<1>3. CASE Daemon
  <2>1. ASSUME NEW j \in Conns, Fires(j) PROVE AskOK(k)'
    BY <1>1, <2>1, AskFire
  <2>2. ASSUME NEW j \in Conns, Handles(j) PROVE AskOK(k)'
    BY <1>1, <2>2, AskHandler, AskOtherHandler
  <2>3. QED
    BY <1>1, <1>3, <2>1, <2>2, AskAccept, AskKill DEF Daemon
<1>4. CASE Others
  BY <1>1, <1>4, AskOthers
<1>5. ASSUME NEW j \in Sessions, Session(j) PROVE AskOK(k)'
  BY <1>1, <1>5, AskOthers, AskOwn
<1>6. QED
  BY <1>2, <1>3, <1>4, <1>5 DEF SNext

\* A session that blocks in recvmsg, which has no timeout, has its request in hand of the
\* daemon, or an answer, or the end of its connection to read: also when there are no
\* slots or descriptors, and when the daemon is killed.
THEOREM NeverForgottenAlways == SSpec => []NeverForgotten
<1>1. SInit => AskInv
  <2>1. ASSUME SInit, NEW k \in Sessions PROVE AskOK(k)
    <3>1. up /\ pc[k] = "none" /\ peer[k] = "new" /\ inbox[k] = NoMsg /\ h[k].at = "idle"
      BY <2>1, SessionsAssumption DEF SInit, Init, NoHandler
    <3>2. QED
      BY <3>1 DEF AskOK
  <2>2. QED
    BY <2>1 DEF AskInv
<1>2. AskInv => NeverForgotten
  BY DEF AskInv, AskOK, NeverForgotten
<1>3. QED
  BY <1>1, <1>2, AskStep, SInvAlways, PTL DEF SSpec
=============================================================================
