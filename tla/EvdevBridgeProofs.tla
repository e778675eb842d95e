------------------------- MODULE EvdevBridgeProofs -------------------------
(***************************************************************************)
(* What holds of the evdev bridge for any number of devices, pipes of any  *)
(* size and any contacts and positions.                                    *)
(*                                                                         *)
(* What the reader will know once it has read all that is on its way is    *)
(* the last of a row of states, each of which follows from the one before  *)
(* by one event.  The callback lengthens the row, a read takes its first   *)
(* state away, a write leaves it as it is.                                 *)
(***************************************************************************)
EXTENDS EvdevBridge, SequenceTheorems, TLAPS

-----------------------------------------------------------------------------
(* The invariant.                                                           *)

\* The types of the state.
Kinds   == {"keyboard", "pointer", "touch"}
Indices == 0..(NumContacts - 1)
Devices == [kind : Kinds, mt_slot : Indices, mt_x : [Indices -> Positions]]
Events  == [type : {"EV_SYN", "EV_KEY", "EV_REL", "EV_ABS"},
            code : Codes \cup {"SYN_REPORT", "REL_X", "ABS_MT_SLOT", "ABS_MT_POSITION_X", "ABS_X"},
            val : Positions \cup Int]
Readers == [down : SUBSET Codes, slot : Indices, x : [Indices -> Positions], frame : SUBSET Events]

\* The events on their way to the reader of a slot: those in the pipe, and those that
\* are still to be written.
Pending(s)    == Len(pipe[s]) + IF busy = s THEN Len(out) ELSE 0
EventAt(s, k) == IF k <= Len(pipe[s]) THEN pipe[s][k] ELSE out[k - Len(pipe[s])]

\* The states the reader goes through while it reads what is on its way.
IsRow(s, row) == /\ row[0] = reader[s]
                 /\ \A k \in 1..Pending(s) : row[k] = Reads(row[k - 1], EventAt(s, k))

\* Was a key held before the value that waits for the run loop?
HeldBefore(s, e) == IF queue[s] # <<>> /\ Head(queue[s])[1] = e THEN Head(queue[s])[2] = 0
                                                               ELSE e \in pressed[s]

\* The keys that a reader takes for pressed.
KeysRight(s, down) ==
  LET keys == Switches(g_devices[s].kind) IN
  /\ \A c \in down : \E e \in keys : Code(e) = c /\ HeldBefore(s, e)
  /\ \A e \in keys :
       HeldBefore(s, e) /\ (\A f \in keys : Code(f) = Code(e) => f = e)
         => Code(e) \in down \cup {"KEY_UNKNOWN"}

Plugged(s) == \E d \in Hids : slotOf[d] = s

\* A reader that has read everything.
Settled(s, r) ==
  /\ \A e \in r.frame : e.type = "EV_REL" /\ e.code = "REL_X"
  /\ s \notin DOMAIN g_devices => r = NewReader
  /\ s \in DOMAIN g_devices => r.slot = g_devices[s].mt_slot /\ r.x = g_devices[s].mt_x
  /\ Plugged(s) => KeysRight(s, r.down)

\* What the reader of a slot will know in the end is right.
RowInv(s) == \E row \in [0..Pending(s) -> Readers] : IsRow(s, row) /\ Settled(s, row[Pending(s)])

\* A value that waits for the run loop.
QueueOK(s) ==
  queue[s] # <<>> =>
    \E e, v :
      /\ queue[s] = <<<<e, v>>>>
      /\ s \in DOMAIN g_devices
      /\ \/ <<e, v>> \in Valuators(g_devices[s].kind)
         \/ /\ e \in Switches(g_devices[s].kind) /\ v \in 0..1
            /\ Plugged(s) => (v = 1 <=> e \in pressed[s])

\* What is kept of a slot besides.
SlotOK(s) ==
  /\ QueueOK(s)
  /\ s \in DOMAIN g_devices => pressed[s] \subseteq Switches(g_devices[s].kind)
  /\ s \notin DOMAIN g_devices => pressed[s] = {} /\ pipe[s] = <<>>
  /\ Len(pipe[s]) <= Capacity

\* The devices added: each that is plugged in has a slot of its own.
DeviceInv ==
  /\ g_devices \in Seq(Devices) /\ Len(g_devices) <= MaxDevices
  /\ slotOf \in [Hids -> 0..Len(g_devices)]
  /\ \A d \in Hids : slotOf[d] # 0 => g_devices[slotOf[d]].kind = Kind(d)
  /\ \A d, e \in Hids : slotOf[d] = slotOf[e] /\ slotOf[d] # 0 => d = e

\* The functions of the slots, and what the thread writes.
Typed == /\ DOMAIN pressed = Slots /\ DOMAIN queue = Slots
         /\ pipe \in [Slots -> Seq(Events)] /\ reader \in [Slots -> Readers]
         /\ busy \in 0..Len(g_devices) /\ out \in Seq(Events) /\ Len(out) <= 3
         /\ out # <<>> => busy # 0

\* The inductive invariant.
Inv == Typed /\ DeviceInv /\ (\A s \in Slots : SlotOK(s)) /\ (\A s \in Slots : RowInv(s))

-----------------------------------------------------------------------------
(* What the reader makes of a frame.                                        *)

\* A reader with motion only in its frame.
Calm(r) == \A e \in r.frame : e.type = "EV_REL" /\ e.code = "REL_X"

\* The events are of different types.
LEMMA EventFacts ==
  /\ Syn \in Events
  /\ \A c \in Codes, v \in 0..1 : Key(c, v) \in Events /\ Key(c, v) # Syn
  /\ \A v : Event("EV_REL", "REL_X", v) # Syn
  /\ \A c, v : Abs(c, v) # Syn
<1>1. 0 \in Positions \cup Int /\ \A v \in 0..1 : v \in Positions \cup Int
  OBVIOUS
<1>2. Syn \in Events
  BY DEF Syn, Event, Events
<1>3. ASSUME NEW c \in Codes, NEW v \in 0..1 PROVE Key(c, v) \in Events
  BY <1>1 DEF Key, Event, Events
<1>4. /\ \A c, v : Key(c, v).type = "EV_KEY" /\ Abs(c, v).type = "EV_ABS"
      /\ \A v : Event("EV_REL", "REL_X", v).type = "EV_REL"
      /\ Syn.type = "EV_SYN"
  BY DEF Key, Abs, Syn, Event
<1>5. QED
  BY <1>2, <1>3, <1>4

\* An event that ends no frame is kept.
LEMMA KeptEvent ==
  ASSUME NEW r \in Readers, NEW e \in Events, e # Syn
  PROVE  /\ Reads(r, e) \in Readers /\ Reads(r, e).frame = r.frame \cup {e}
         /\ Reads(r, e).down = r.down /\ Reads(r, e).slot = r.slot /\ Reads(r, e).x = r.x
<1>1. Reads(r, e) = [r EXCEPT !.frame = r.frame \cup {e}]
  BY DEF Reads
<1>2. r.frame \cup {e} \subseteq Events
  BY DEF Readers
<1>3. QED
  BY <1>1, <1>2 DEF Readers

\* The keys held for pressed after a key was pressed or released.
KeyDown(down, c, v) == IF v = 1 THEN down \cup {c} ELSE down \ {c}

\* The frame of a key or button.
LEMMA KeyFrameRead ==
  ASSUME NEW r \in Readers, Calm(r), NEW c \in Codes, NEW v \in 0..1
  PROVE  LET q == Reads(r, Key(c, v))
             z == Reads(q, Syn)
         IN /\ q \in Readers /\ z \in Readers /\ Calm(z)
            /\ z.slot = r.slot /\ z.x = r.x
            /\ z.down = KeyDown(r.down, c, v)
<1> DEFINE q == Reads(r, Key(c, v))
           z == Reads(q, Syn)
<1>1. /\ q \in Readers /\ q.frame = r.frame \cup {Key(c, v)}
      /\ q.down = r.down /\ q.slot = r.slot /\ q.x = r.x
  BY EventFacts, KeptEvent
<1> HIDE DEF q
<1>2. /\ {f \in q.frame : f.code = "ABS_MT_SLOT"} = {}
      /\ {f \in q.frame : f.code = "ABS_MT_POSITION_X"} = {}
  BY <1>1 DEF Calm, Key, Event, Codes
<1>3. \A u \in 0..1 : {f \in q.frame : f.type = "EV_KEY" /\ f.val = u}
                        = IF u = v THEN {Key(c, v)} ELSE {}
  BY <1>1 DEF Calm, Key, Event
<1>4. Key(c, v).code = c
  BY DEF Key, Event
<1>5. z = [down |-> IF v = 1 THEN r.down \cup {c} ELSE r.down \ {c},
           slot |-> r.slot, x |-> r.x, frame |-> {}]
  <2>1. /\ {e.val : e \in {f \in q.frame : f.code = "ABS_MT_SLOT"}} = {}
        /\ {e.val : e \in {f \in q.frame : f.code = "ABS_MT_POSITION_X"}} = {}
    BY <1>2
  <2>2. /\ {e.code : e \in {f \in q.frame : f.type = "EV_KEY" /\ f.val = 1}}
             = IF v = 1 THEN {c} ELSE {}
        /\ {e.code : e \in {f \in q.frame : f.type = "EV_KEY" /\ f.val = 0}}
             = IF v = 1 THEN {} ELSE {c}
    BY <1>3, <1>4
  <2>3. z = [down |-> (q.down \cup (IF v = 1 THEN {c} ELSE {})) \ (IF v = 1 THEN {} ELSE {c}),
             slot |-> q.slot, x |-> q.x, frame |-> {}]
    BY <2>1, <2>2 DEF Reads, Acted
  <2>4. (q.down \cup (IF v = 1 THEN {c} ELSE {})) \ (IF v = 1 THEN {} ELSE {c})
          = IF v = 1 THEN r.down \cup {c} ELSE r.down \ {c}
    BY <1>1
  <2>5. QED
    BY <1>1, <2>3, <2>4
<1>6. (IF v = 1 THEN r.down \cup {c} ELSE r.down \ {c}) \subseteq Codes
  BY DEF Readers
<1>7. r.slot \in Indices /\ r.x \in [Indices -> Positions]
  BY DEF Readers
<1>8. z \in Readers /\ Calm(z)
  BY <1>5, <1>6, <1>7 DEF Readers, Calm
<1>9. QED
  BY <1>1, <1>5, <1>8 DEF q, KeyDown

\* The frame of a contact.
LEMMA ContactFrameRead ==
  ASSUME NEW r \in Readers, Calm(r), NEW m \in Indices
  PROVE  LET q == Reads(r, Abs("ABS_MT_SLOT", m))
             z == Reads(q, Syn)
         IN /\ q \in Readers /\ z \in Readers /\ Calm(z)
            /\ z.slot = m /\ z.x = r.x /\ z.down = r.down
<1> DEFINE e == Abs("ABS_MT_SLOT", m)
           q == Reads(r, e)
           z == Reads(q, Syn)
<1>1. e \in Events /\ e # Syn
  <2>1. m \in Positions \cup Int
    BY DevicesAssumption DEF Indices
  <2>2. QED
    BY <2>1, EventFacts DEF Abs, Event, Events
<1>2. e.type = "EV_ABS" /\ e.code = "ABS_MT_SLOT" /\ e.val = m
  BY DEF Abs, Event
<1> HIDE DEF e
<1>3. /\ q \in Readers /\ q.frame = r.frame \cup {e}
      /\ q.down = r.down /\ q.slot = r.slot /\ q.x = r.x
  BY <1>1, KeptEvent
<1> HIDE DEF q
<1>4. /\ {f \in q.frame : f.code = "ABS_MT_SLOT"} = {e}
      /\ {f \in q.frame : f.code = "ABS_MT_POSITION_X"} = {}
      /\ \A u \in 0..1 : {f \in q.frame : f.type = "EV_KEY" /\ f.val = u} = {}
  BY <1>2, <1>3 DEF Calm
<1>5. /\ {f.val : f \in {g \in q.frame : g.code = "ABS_MT_SLOT"}} = {m}
      /\ {f.val : f \in {g \in q.frame : g.code = "ABS_MT_POSITION_X"}} = {}
      /\ {f.code : f \in {g \in q.frame : g.type = "EV_KEY" /\ g.val = 1}} = {}
      /\ {f.code : f \in {g \in q.frame : g.type = "EV_KEY" /\ g.val = 0}} = {}
  BY <1>2, <1>4
<1>6. (CHOOSE v \in {m} : TRUE) = m /\ {m} # {}
  OBVIOUS
<1>7. z = [down |-> (q.down \cup {}) \ {}, slot |-> m, x |-> q.x, frame |-> {}]
  BY <1>5, <1>6 DEF Reads, Acted
<1>8. z = [down |-> r.down, slot |-> m, x |-> r.x, frame |-> {}]
  BY <1>3, <1>7
<1>9. z \in Readers /\ Calm(z)
  <2>1. r.down \subseteq Codes /\ r.x \in [Indices -> Positions]
    BY DEF Readers
  <2>2. QED
    BY <1>8, <2>1 DEF Readers, Calm
<1>10. QED
  BY <1>3, <1>8, <1>9 DEF q, e

\* The frame of a position.
LEMMA PositionFrameRead ==
  ASSUME NEW r \in Readers, Calm(r), NEW v \in Positions
  PROVE  LET p == Reads(r, Abs("ABS_MT_POSITION_X", v))
             q == Reads(p, Abs("ABS_X", v))
             z == Reads(q, Syn)
         IN /\ p \in Readers /\ q \in Readers /\ z \in Readers /\ Calm(z)
            /\ z.slot = r.slot /\ z.x = [r.x EXCEPT ![r.slot] = v] /\ z.down = r.down
<1> DEFINE e == Abs("ABS_MT_POSITION_X", v)
           i == Abs("ABS_X", v)
           p == Reads(r, e)
           q == Reads(p, i)
           z == Reads(q, Syn)
<1>1. e \in Events /\ e # Syn /\ i \in Events /\ i # Syn
  BY EventFacts DEF Abs, Event, Events
<1>2. /\ e.type = "EV_ABS" /\ e.code = "ABS_MT_POSITION_X" /\ e.val = v
      /\ i.type = "EV_ABS" /\ i.code = "ABS_X"
  BY DEF Abs, Event
<1> HIDE DEF e, i
<1>3. /\ p \in Readers /\ p.frame = r.frame \cup {e}
      /\ p.down = r.down /\ p.slot = r.slot /\ p.x = r.x
  BY <1>1, KeptEvent
<1> HIDE DEF p
<1>4. /\ q \in Readers /\ q.frame = r.frame \cup {e, i}
      /\ q.down = r.down /\ q.slot = r.slot /\ q.x = r.x
  <2>1. /\ q \in Readers /\ q.frame = p.frame \cup {i}
        /\ q.down = p.down /\ q.slot = p.slot /\ q.x = p.x
    BY <1>1, <1>3, KeptEvent
  <2>2. QED
    BY <1>3, <2>1
<1> HIDE DEF q
<1>5. /\ {f \in q.frame : f.code = "ABS_MT_SLOT"} = {}
      /\ {f \in q.frame : f.code = "ABS_MT_POSITION_X"} = {e}
      /\ \A u \in 0..1 : {f \in q.frame : f.type = "EV_KEY" /\ f.val = u} = {}
  BY <1>2, <1>4 DEF Calm
<1>6. /\ {f.val : f \in {g \in q.frame : g.code = "ABS_MT_SLOT"}} = {}
      /\ {f.val : f \in {g \in q.frame : g.code = "ABS_MT_POSITION_X"}} = {v}
      /\ {f.code : f \in {g \in q.frame : g.type = "EV_KEY" /\ g.val = 1}} = {}
      /\ {f.code : f \in {g \in q.frame : g.type = "EV_KEY" /\ g.val = 0}} = {}
  BY <1>2, <1>5
<1>7. (CHOOSE u \in {v} : TRUE) = v /\ {v} # {}
  OBVIOUS
<1>8. z = [down |-> (q.down \cup {}) \ {}, slot |-> q.slot, x |-> [q.x EXCEPT ![q.slot] = v],
           frame |-> {}]
  BY <1>6, <1>7 DEF Reads, Acted
<1>9. z = [down |-> r.down, slot |-> r.slot, x |-> [r.x EXCEPT ![r.slot] = v], frame |-> {}]
  BY <1>4, <1>8
<1>10. z \in Readers /\ Calm(z)
  <2>1. r.down \subseteq Codes /\ r.slot \in Indices /\ r.x \in [Indices -> Positions]
    BY DEF Readers
  <2>2. [r.x EXCEPT ![r.slot] = v] \in [Indices -> Positions]
    BY <2>1
  <2>3. QED
    BY <1>9, <2>1, <2>2 DEF Readers, Calm
<1>11. QED
  BY <1>3, <1>4, <1>9, <1>10 DEF q, p, e, i

-----------------------------------------------------------------------------
(* Rows.                                                                    *)

\* Slots with a device are slots.
LEMMA SlotFacts ==
  ASSUME Inv
  PROVE  /\ DOMAIN g_devices = 1..Len(g_devices) /\ Len(g_devices) \in Nat
         /\ DOMAIN g_devices \subseteq Slots /\ ReadSlots \subseteq Slots
         /\ MaxDevices \in Nat /\ 0 \notin Slots /\ Slots \subseteq Nat
  BY DevicesAssumption DEF Inv, DeviceInv, Slots

\* A row does not change with its events, its first state and what settled means.
LEMMA RowKept ==
  ASSUME NEW s \in Slots, RowInv(s), Pending(s)' = Pending(s), reader'[s] = reader[s],
         \A k \in 1..Pending(s) : EventAt(s, k)' = EventAt(s, k),
         \A r \in Readers : Settled(s, r) => Settled(s, r)',
         Pending(s) \in Nat
  PROVE  RowInv(s)'
<1>1. PICK row \in [0..Pending(s) -> Readers] : IsRow(s, row) /\ Settled(s, row[Pending(s)])
  BY DEF RowInv
<1>2. IsRow(s, row)'
  BY <1>1 DEF IsRow
<1>3. row[Pending(s)] \in Readers
  OBVIOUS
<1>4. Settled(s, row[Pending(s)])'
  BY <1>1, <1>3
<1>5. QED
  BY <1>1, <1>2, <1>4 DEF RowInv

\* What a step leaves alone that changes neither devices nor keys.
LEMMA SettledKept ==
  ASSUME NEW s \in Slots, UNCHANGED <<g_devices, slotOf>>,
         pressed'[s] = pressed[s], queue'[s] = queue[s], NEW r
  PROVE  Settled(s, r) <=> Settled(s, r)'
  BY DEF Settled, KeysRight, HeldBefore, Plugged

\* The number of events on their way.
LEMMA PendingType ==
  ASSUME Inv, NEW s \in Slots
  PROVE  Pending(s) \in Nat /\ Len(pipe[s]) \in Nat /\ Len(out) \in Nat /\ pipe[s] \in Seq(Events)
<1>1. pipe[s] \in Seq(Events) /\ out \in Seq(Events)
  BY DEF Inv, Typed
<1>2. Len(pipe[s]) \in Nat /\ Len(out) \in Nat
  BY <1>1, LenProperties
<1>3. PICK w \in Nat : w = IF busy = s THEN Len(out) ELSE 0
  BY <1>2
<1>4. PICK n \in Nat : n = Len(pipe[s])
  BY <1>2
<1>5. Pending(s) = n + w
  BY ONLY <1>3, <1>4 DEF Pending
<1>6. QED
  BY <1>1, <1>2, <1>5

-----------------------------------------------------------------------------
(* The steps of writer and reader.                                          *)

\* One event goes from the thread to the pipe.
LEMMA WriteInv == ASSUME Inv, write_event PROVE Inv'
<1>1. /\ out # <<>> /\ Len(pipe[busy]) < Capacity
      /\ pipe' = [pipe EXCEPT ![busy] = Append(@, Head(out))]
      /\ out' = Tail(out)
      /\ UNCHANGED <<g_devices, slotOf, pressed, queue, busy, reader>>
  BY DEF write_event, CanWrite, hidvars
<1>2. busy \in DOMAIN g_devices /\ busy \in Slots
  BY <1>1, SlotFacts DEF Inv, Typed
<1>3. PICK n \in Nat : n = Len(pipe[busy])
  BY <1>2, PendingType
<1>4. /\ out \in Seq(Events) /\ Head(out) = out[1] /\ out[1] \in Events /\ Len(out) >= 1
      /\ Tail(out) \in Seq(Events) /\ Len(Tail(out)) = Len(out) - 1
      /\ \A i \in 1..(Len(out) - 1) : Tail(out)[i] = out[i + 1]
  BY <1>1 DEF Inv, Typed
<1>5. /\ pipe'[busy] = Append(pipe[busy], out[1]) /\ pipe' \in [Slots -> Seq(Events)]
      /\ \A s \in Slots \ {busy} : pipe'[s] = pipe[s]
      /\ Len(pipe'[busy]) = n + 1 /\ pipe'[busy][n + 1] = out[1]
      /\ \A i \in 1..n : pipe'[busy][i] = pipe[busy][i]
  <2>1. pipe \in [Slots -> Seq(Events)] /\ pipe[busy] \in Seq(Events)
    BY <1>2 DEF Inv, Typed
  <2>2. /\ Append(pipe[busy], out[1]) \in Seq(Events)
        /\ Len(Append(pipe[busy], out[1])) = n + 1
        /\ Append(pipe[busy], out[1])[n + 1] = out[1]
        /\ \A i \in 1..n : Append(pipe[busy], out[1])[i] = pipe[busy][i]
    BY <1>3, <1>4, <2>1, AppendProperties
  <2>3. pipe' = [pipe EXCEPT ![busy] = Append(pipe[busy], out[1])]
    BY <1>1, <1>4
  <2>4. QED
    BY <1>2, <2>1, <2>2, <2>3
<1>6. Typed'
  BY <1>1, <1>4, <1>5 DEF Inv, Typed
<1>7. DeviceInv'
  BY <1>1 DEF Inv, DeviceInv
<1>8. ASSUME NEW s \in Slots PROVE SlotOK(s)'
  <2>1. SlotOK(s)
    BY DEF Inv
  <2>2. QueueOK(s)'
    BY <1>1, <2>1 DEF SlotOK, QueueOK, Plugged
  <2>3. CASE s = busy
    <3>1. Len(pipe'[s]) <= Capacity
      BY <1>1, <1>3, <1>5, <2>3, DevicesAssumption
    <3>2. QED
      BY <1>1, <1>2, <2>1, <2>2, <2>3, <3>1 DEF SlotOK
  <2>4. CASE s # busy
    BY <1>1, <1>5, <2>1, <2>2, <2>4 DEF SlotOK
  <2>5. QED
    BY <2>3, <2>4
<1>9. ASSUME NEW s \in Slots PROVE RowInv(s)'
  <2>1. RowInv(s) /\ Pending(s) \in Nat
    BY PendingType DEF Inv
  <2>2. \A r \in Readers : Settled(s, r) => Settled(s, r)'
    BY <1>1, SettledKept
  <2>3. Pending(s)' = Pending(s) /\ \A k \in 1..Pending(s) : EventAt(s, k)' = EventAt(s, k)
    <3>1. CASE s = busy
      <4>1. Pending(s) = n + Len(out) /\ Pending(s)' = n + 1 + (Len(out) - 1) /\ Len(out) \in Nat
        BY <1>1, <1>3, <1>4, <1>5, <3>1 DEF Pending
      <4>2. ASSUME NEW k \in 1..(n + Len(out)) PROVE EventAt(s, k)' = EventAt(s, k)
        <5>1. CASE k <= n
          <6>1. k \in 1..n /\ k <= Len(pipe[s]) /\ k <= Len(pipe'[s])
            BY <1>3, <1>5, <3>1, <5>1
          <6>2. EventAt(s, k)' = pipe'[s][k] /\ EventAt(s, k) = pipe[s][k]
            BY <6>1 DEF EventAt
          <6>3. QED
            BY <1>5, <3>1, <6>1, <6>2
        <5>2. CASE k = n + 1
          <6>1. k - n = 1
            BY <5>2
          <6>2. QED
            BY <1>3, <1>5, <3>1, <5>2, <6>1 DEF EventAt
        <5>3. CASE k > n + 1
          <6>1. EventAt(s, k)' = out'[k - (n + 1)] /\ EventAt(s, k) = out[k - n]
            <7>1. Len(pipe[s]) = n /\ Len(pipe'[s]) = n + 1 /\ ~(k <= n) /\ ~(k <= n + 1)
              BY <1>3, <1>5, <3>1, <5>3
            <7>2. EventAt(s, k)' = out'[k - (n + 1)]
              BY <7>1 DEF EventAt
            <7>3. EventAt(s, k) = out[k - n]
              BY <7>1 DEF EventAt
            <7>4. QED
              BY <7>2, <7>3
          <6>2. k - (n + 1) \in 1..(Len(out) - 1) /\ k - (n + 1) + 1 = k - n
            BY <4>1, <5>3
          <6>3. QED
            BY <1>1, <1>4, <6>1, <6>2
        <5>4. QED
          BY <5>1, <5>2, <5>3
      <4>3. QED
        BY <4>1, <4>2
    <3>2. CASE s # busy
      <4>1. /\ pipe'[s] = pipe[s] /\ busy' = busy /\ Pending(s) = Len(pipe[s])
            /\ Pending(s)' = Len(pipe[s])
        BY <1>1, <1>5, <3>2, PendingType DEF Pending
      <4>2. QED
        BY <4>1 DEF EventAt
    <3>3. QED
      BY <3>1, <3>2
  <2>4. QED
    BY <1>1, <2>1, <2>2, <2>3, RowKept
<1>10. QED
  BY <1>6, <1>7, <1>8, <1>9 DEF Inv

\* The reader takes the first event: the first state of the row goes.
LEMMA ReadInv == ASSUME Inv, NEW s \in Slots, ReadEvent(s) PROVE Inv'
<1>1. /\ pipe[s] # <<>> /\ pipe' = [pipe EXCEPT ![s] = Tail(pipe[s])]
      /\ reader' = [reader EXCEPT ![s] = Reads(reader[s], Head(pipe[s]))]
      /\ UNCHANGED <<g_devices, slotOf, pressed, queue, busy, out>>
  BY DEF ReadEvent, hidvars
<1>2. PICK n \in Nat : n + 1 = Len(pipe[s])
  <2>1. Len(pipe[s]) \in Nat /\ Len(pipe[s]) # 0 /\ Len(pipe[s]) - 1 + 1 = Len(pipe[s])
    BY <1>1, PendingType
  <2>2. QED
    BY <2>1
<1>3. /\ pipe[s] \in Seq(Events) /\ Head(pipe[s]) = pipe[s][1] /\ Tail(pipe[s]) \in Seq(Events)
      /\ Len(Tail(pipe[s])) = n /\ \A i \in 1..n : Tail(pipe[s])[i] = pipe[s][i + 1]
  BY <1>1, <1>2, PendingType
<1>4. /\ pipe' \in [Slots -> Seq(Events)] /\ pipe'[s] = Tail(pipe[s])
      /\ \A r \in Slots \ {s} : pipe'[r] = pipe[r]
  BY <1>1, <1>3 DEF Inv, Typed
<1>5. PICK row \in [0..Pending(s) -> Readers] : IsRow(s, row) /\ Settled(s, row[Pending(s)])
  BY DEF Inv, RowInv
<1>6. PICK m \in Nat : m + 1 = Pending(s) /\ Pending(s)' = m
  <2>1. Pending(s) = n + 1 + (IF busy = s THEN Len(out) ELSE 0) /\ Len(out) \in Nat
    BY <1>2, PendingType DEF Pending
  <2>2. Pending(s)' = n + (IF busy = s THEN Len(out) ELSE 0)
    BY <1>1, <1>3, <1>4 DEF Pending
  <2>3. PICK w \in Nat : w = IF busy = s THEN Len(out) ELSE 0
    BY <2>1
  <2>4. Pending(s) = n + 1 + w /\ Pending(s)' = n + w
    BY ONLY <2>1, <2>2, <2>3
  <2>5. n + w \in Nat /\ n + w + 1 = n + 1 + w
    OBVIOUS
  <2>6. QED
    BY <2>4, <2>5
<1>7. \A k \in 1..m : EventAt(s, k)' = EventAt(s, k + 1)
  <2>1. SUFFICES ASSUME NEW k \in 1..m PROVE EventAt(s, k)' = EventAt(s, k + 1)
    OBVIOUS
  <2>2. CASE k <= n
    <3>1. k \in 1..n /\ k + 1 <= Len(pipe[s]) /\ k <= Len(pipe'[s])
      BY <1>2, <1>3, <1>4, <2>2
    <3>2. EventAt(s, k)' = pipe'[s][k] /\ EventAt(s, k + 1) = pipe[s][k + 1]
      BY <3>1 DEF EventAt
    <3>3. QED
      BY <1>3, <1>4, <3>1, <3>2
  <2>3. CASE k > n
    <3>1. k + 1 - (n + 1) = k - n
      OBVIOUS
    <3>2. QED
      BY <1>1, <1>2, <1>3, <1>4, <2>3, <3>1 DEF EventAt
  <2>4. QED
    BY <2>2, <2>3
<1>8. row[1] = Reads(reader[s], pipe[s][1]) /\ row[1] \in Readers
  <2>1. 1 \in 1..Pending(s) /\ 1 \in 0..Pending(s) /\ EventAt(s, 1) = pipe[s][1]
    BY <1>2, <1>6 DEF EventAt
  <2>2. row[1] = Reads(row[1 - 1], EventAt(s, 1)) /\ row[1] \in Readers
    BY <1>5, <2>1 DEF IsRow
  <2>3. QED
    BY <1>5, <2>1, <2>2 DEF IsRow
<1>9. /\ reader' \in [Slots -> Readers] /\ reader'[s] = row[1]
      /\ \A r \in Slots \ {s} : reader'[r] = reader[r]
  BY <1>1, <1>3, <1>8 DEF Inv, Typed
<1>10. Typed' /\ DeviceInv'
  BY <1>1, <1>4, <1>9 DEF Inv, Typed, DeviceInv
<1>11. ASSUME NEW r \in Slots PROVE SlotOK(r)'
  <2>1. SlotOK(r)
    BY DEF Inv
  <2>2. QueueOK(r)'
    BY <1>1, <2>1 DEF SlotOK, QueueOK, Plugged
  <2>3. CASE r = s
    <3>1. Len(pipe'[s]) <= Capacity
      BY <1>2, <1>3, <1>4, <2>1, <2>3, DevicesAssumption DEF SlotOK
    <3>2. s \in DOMAIN g_devices
      BY <1>1, <2>1, <2>3 DEF SlotOK
    <3>3. QED
      BY <1>1, <2>1, <2>2, <2>3, <3>1, <3>2 DEF SlotOK
  <2>4. CASE r # s
    BY <1>1, <1>4, <2>1, <2>2, <2>4 DEF SlotOK
  <2>5. QED
    BY <2>3, <2>4
<1>12. RowInv(s)'
  <2>1. PICK left \in [0..m -> Readers] : \A k \in 0..m : left[k] = row[k + 1]
    <3>1. [k \in 0..m |-> row[k + 1]] \in [0..m -> Readers]
      BY <1>6
    <3>2. QED
      BY <3>1
  <2>2. IsRow(s, left)'
    <3>1. left[0] = reader'[s]
      BY <1>9, <2>1
    <3>2. ASSUME NEW k \in 1..m PROVE left[k] = Reads(left[k - 1], EventAt(s, k)')
      <4>1. k + 1 \in 1..Pending(s) /\ k + 1 - 1 = k
        BY <1>6
      <4>2. row[k + 1] = Reads(row[k], EventAt(s, k + 1))
        BY <1>5, <4>1 DEF IsRow
      <4>3. left[k] = row[k + 1] /\ left[k - 1] = row[k]
        BY <2>1
      <4>4. QED
        BY <1>7, <4>2, <4>3
    <3>3. QED
      BY <1>6, <3>1, <3>2 DEF IsRow
  <2>3. Settled(s, left[m])'
    <3>1. left[m] = row[Pending(s)]
      BY <1>6, <2>1
    <3>2. QED
      BY <1>1, <1>5, <3>1, SettledKept
  <2>4. QED
    BY <1>6, <2>1, <2>2, <2>3 DEF RowInv
<1>13. ASSUME NEW r \in Slots \ {s} PROVE RowInv(r)'
  <2>1. RowInv(r) /\ Pending(r) \in Nat
    BY PendingType DEF Inv
  <2>2. \A q \in Readers : Settled(r, q) => Settled(r, q)'
    BY <1>1, SettledKept
  <2>3. Pending(r)' = Pending(r) /\ \A k \in 1..Pending(r) : EventAt(r, k)' = EventAt(r, k)
    BY <1>1, <1>4 DEF Pending, EventAt
  <2>4. QED
    BY <1>9, <2>1, <2>2, <2>3, RowKept
<1>14. QED
  BY <1>10, <1>11, <1>12, <1>13 DEF Inv

-----------------------------------------------------------------------------
(* What the callback makes of a value.                                      *)

\* A key or button becomes a frame of its own, unless it has no code; nothing else of
\* the device changes.
LEMMA SwitchFrame ==
  ASSUME NEW k \in Kinds, NEW dev, dev.kind = k, NEW e \in Switches(k), NEW v
  PROVE  /\ Tracked(dev, e, v) = dev
         /\ Code(e) \in Codes => Translated(k, e, v) = <<Key(Code(e), v), Syn>>
         /\ Code(e) \notin Codes => Code(e) = "KEY_UNKNOWN" /\ Translated(k, e, v) = <<>>
<1>1. e \in Elements(k)
  BY DEF Switches
<1>2. CASE k = "keyboard"
  <2>1. \/ e.page = "Keyboard" /\ e.usage \in {"a", "leftmeta", "unmapped"}
        \/ e.page = "Vendor"
    BY <1>1, <1>2 DEF Elements, El
  <2>2. CASE e.page = "Keyboard" /\ e.usage \in {"a", "leftmeta"}
    <3>1. Code(e) \in {"KEY_A", "KEY_LEFTMETA"}
      BY <2>2 DEF Code, hid_to_linux_key
    <3>2. QED
      BY <1>2, <2>2, <3>1 DEF Translated, KeyFrame, Tracked, El, Codes
  <2>3. CASE e.page = "Keyboard" /\ e.usage = "unmapped"
    <3>1. Code(e) = "KEY_UNKNOWN"
      BY <2>3 DEF Code, hid_to_linux_key
    <3>2. QED
      BY <1>2, <2>3, <3>1 DEF Translated, Tracked, El, Codes
  <2>4. CASE e.page = "Vendor"
    <3>1. Code(e) = "KEY_LEFTMETA"
      BY <2>4 DEF Code
    <3>2. QED
      BY <1>2, <2>4, <3>1 DEF Translated, KeyFrame, Tracked, El, Codes
  <2>5. QED
    BY <2>1, <2>2, <2>3, <2>4
<1>3. CASE k = "pointer"
  <2>1. e.page = "Button"
    BY <1>1, <1>3 DEF Elements, El
  <2>2. Code(e) \in {"BTN_LEFT", "BTN_MIDDLE"}
    BY <2>1 DEF Code, button
  <2>3. QED
    BY <1>3, <2>1, <2>2 DEF Translated, KeyFrame, Tracked, El, Codes
<1>4. CASE k = "touch"
  <2>1. e.page = "Digitizer" /\ e.usage = "tip"
    BY <1>1, <1>4 DEF Elements, El
  <2>2. Code(e) = "BTN_TOUCH"
    BY <2>1 DEF Code
  <2>3. QED
    BY <1>4, <2>1, <2>2 DEF Translated, TouchFrame, Tracked, El, Codes
<1>5. QED
  BY <1>2, <1>3, <1>4 DEF Kinds

\* A valuator is no key or button.  Motion of a pointer is passed on, that of a touch
\* pad is not; contacts and positions become frames, and the bridge keeps them.
LEMMA ValuatorFrame ==
  ASSUME NEW k \in Kinds, NEW dev, dev.kind = k, NEW e, NEW v, <<e, v>> \in Valuators(k)
  PROVE  /\ e \notin Switches(k)
         /\ \/ /\ Tracked(dev, e, v) = dev
               /\ \/ Translated(k, e, v) = <<Event("EV_REL", "REL_X", 1)>>
                  \/ Translated(k, e, v) = <<>>
            \/ /\ MtSlot(v) \in Indices
               /\ Tracked(dev, e, v) = [dev EXCEPT !.mt_slot = MtSlot(v)]
               /\ Translated(k, e, v) = <<Abs("ABS_MT_SLOT", MtSlot(v)), Syn>>
            \/ /\ v \in Positions
               /\ Tracked(dev, e, v) = [dev EXCEPT !.mt_x[dev.mt_slot] = v]
               /\ Translated(k, e, v) = <<Abs("ABS_MT_POSITION_X", v), Abs("ABS_X", v), Syn>>
<1>1. CASE k = "pointer"
  <2>1. e = El("Desktop", "0x30") /\ v = 1
    BY <1>1 DEF Valuators
  <2>2. e.page = "Desktop"
    BY <2>1 DEF El
  <2>3. e \notin Switches(k)
    BY <1>1, <2>2 DEF Switches, Elements, El
  <2>4. Translated(k, e, v) = <<Event("EV_REL", "REL_X", 1)>> /\ Tracked(dev, e, v) = dev
    BY <1>1, <2>1, <2>2 DEF Translated, Tracked
  <2>5. QED
    BY <2>3, <2>4
<1>2. CASE k = "touch" /\ e = El("Desktop", "0x30")
  <2>1. e.page = "Desktop"
    BY <1>2 DEF El
  <2>2. e \notin Switches(k)
    BY <1>2, <2>1 DEF Switches, Elements, El
  <2>3. e # El("Digitizer", "0x30") /\ e # El("Digitizer", "contact")
    BY <2>1 DEF El
  <2>4. Translated(k, e, v) = <<>> /\ Tracked(dev, e, v) = dev
    BY <1>2, <2>1, <2>3 DEF Translated, Tracked
  <2>5. QED
    BY <2>2, <2>4
<1>3. CASE k = "touch" /\ e = El("Digitizer", "contact") /\ v \in ContactIds
  <2>1. e.page = "Digitizer" /\ e.usage = "contact"
    BY <1>3 DEF El
  <2>2. e \notin Switches(k) /\ e # El("Digitizer", "0x30")
    BY <1>3, <2>1 DEF Switches, Elements, El
  <2>3. v \in Nat /\ NumContacts \in Nat \ {0}
    BY <1>3, DevicesAssumption
  <2>4. MtSlot(v) \in Indices
    BY <2>3 DEF MtSlot, Indices
  <2>5. Translated(k, e, v) = <<Abs("ABS_MT_SLOT", MtSlot(v)), Syn>>
    BY <1>3, <2>1 DEF Translated, TouchFrame
  <2>6. Tracked(dev, e, v) = [dev EXCEPT !.mt_slot = MtSlot(v)]
    BY <1>3, <2>2 DEF Tracked
  <2>7. QED
    BY <2>2, <2>4, <2>5, <2>6
<1>4. CASE k = "touch" /\ e = El("Digitizer", "0x30") /\ v \in Positions
  <2>1. e.page = "Digitizer" /\ e.usage = "0x30"
    BY <1>4 DEF El
  <2>2. e \notin Switches(k) /\ e # El("Digitizer", "contact")
    BY <1>4, <2>1 DEF Switches, Elements, El
  <2>3. Translated(k, e, v) = <<Abs("ABS_MT_POSITION_X", v), Abs("ABS_X", v), Syn>>
    BY <1>4, <2>1 DEF Translated, TouchFrame
  <2>4. Tracked(dev, e, v) = [dev EXCEPT !.mt_x[dev.mt_slot] = v]
    BY <1>4, <2>2 DEF Tracked
  <2>5. QED
    BY <1>4, <2>2, <2>3, <2>4
<1>5. \/ k = "pointer"
      \/ k = "touch" /\ \/ e = El("Desktop", "0x30")
                        \/ e = El("Digitizer", "contact") /\ v \in ContactIds
                        \/ e = El("Digitizer", "0x30") /\ v \in Positions
  BY DEF Kinds, Valuators
<1>6. QED
  BY <1>1, <1>2, <1>3, <1>4, <1>5

-----------------------------------------------------------------------------
(* A slot that a step does not touch.                                       *)

\* What concerns another slot only leaves the invariant of a slot as it is.
LEMMA OtherSlot ==
  ASSUME Inv, NEW s \in Slots,
         (s \in DOMAIN g_devices)' <=> s \in DOMAIN g_devices,
         s \in DOMAIN g_devices => g_devices'[s] = g_devices[s],
         Plugged(s)' <=> Plugged(s),
         pressed'[s] = pressed[s], queue'[s] = queue[s],
         pipe'[s] = pipe[s], reader'[s] = reader[s],
         UNCHANGED <<busy, out>> \/ (out = <<>> /\ busy' # s)
  PROVE  SlotOK(s)' /\ RowInv(s)'
<1>1. SlotOK(s) /\ RowInv(s)
  BY DEF Inv
<1>2. SlotOK(s)'
  BY <1>1 DEF SlotOK, QueueOK
<1>3. Plugged(s) => s \in DOMAIN g_devices
  BY SlotFacts DEF Inv, DeviceInv, Plugged, Slots
<1>5. \A r \in Readers : Settled(s, r) => Settled(s, r)'
  BY <1>3 DEF Settled, KeysRight, HeldBefore
<1>6. CASE UNCHANGED <<busy, out>>
  <2>1. Pending(s)' = Pending(s) /\ \A k \in 1..Pending(s) : EventAt(s, k)' = EventAt(s, k)
    BY <1>6 DEF Pending, EventAt
  <2>2. QED
    BY <1>1, <1>2, <1>5, <2>1, PendingType, RowKept
<1>7. CASE out = <<>> /\ busy' # s
  <2>1. Len(pipe[s]) \in Nat /\ Len(out) = 0
    BY <1>7, PendingType
  <2>2. Pending(s) = Len(pipe[s]) /\ Pending(s)' = Len(pipe[s])
    BY <1>7, <2>1 DEF Pending
  <2>3. \A k \in 1..Pending(s) : EventAt(s, k)' = EventAt(s, k)
    BY <2>1, <2>2 DEF EventAt
  <2>4. QED
    BY <1>1, <1>2, <1>5, <2>2, <2>3, PendingType, RowKept
<1>8. QED
  BY <1>6, <1>7

-----------------------------------------------------------------------------
(* The callback.                                                            *)

\* The states a reader goes through for the events of a callback lengthen its row.
LEMMA RowExtended ==
  ASSUME Inv, NEW s \in Slots, out = <<>>, busy' = s, UNCHANGED <<pipe, reader>>,
         NEW row \in [0..Pending(s) -> Readers], IsRow(s, row),
         NEW m \in Nat, Len(out') = m,
         NEW steps \in [0..m -> Readers], steps[0] = row[Pending(s)],
         \A i \in 1..m : steps[i] = Reads(steps[i - 1], out'[i]),
         Settled(s, steps[m])'
  PROVE  RowInv(s)'
<1>1. PICK n \in Nat : n = Len(pipe[s])
  BY PendingType
<1>2. Pending(s) = n /\ Pending(s)' = n + m
  <2>1. Len(out) = 0
    OBVIOUS
  <2>2. QED
    BY <1>1, <2>1 DEF Pending
<1>3. PICK whole \in [0..(n + m) -> Readers] :
        /\ \A k \in 0..n : whole[k] = row[k]
        /\ \A k \in (n + 1)..(n + m) : whole[k] = steps[k - n]
  <2>1. \A k \in 0..(n + m) : k <= n => k \in 0..n
    OBVIOUS
  <2>2. \A k \in 0..(n + m) : ~(k <= n) => k - n \in 0..m
    OBVIOUS
  <2>3. \A k \in 0..(n + m) : (IF k <= n THEN row[k] ELSE steps[k - n]) \in Readers
    BY <1>2, <2>1, <2>2
  <2>4. PICK f : f = [k \in 0..(n + m) |-> IF k <= n THEN row[k] ELSE steps[k - n]]
    OBVIOUS
  <2>5. f \in [0..(n + m) -> Readers]
    BY <2>3, <2>4
  <2>6. \A k \in 0..n : f[k] = row[k]
    BY <2>4
  <2>7. \A k \in (n + 1)..(n + m) : f[k] = steps[k - n]
    BY <2>4
  <2>8. QED
    BY <2>5, <2>6, <2>7
<1>4. whole[n] = row[n] /\ \A i \in 0..m : whole[n + i] = steps[i]
  <2>1. whole[n] = row[n] /\ steps[0] = row[n]
    BY <1>2, <1>3
  <2>2. ASSUME NEW i \in 0..m PROVE whole[n + i] = steps[i]
    <3>1. CASE i = 0
      BY <2>1, <3>1
    <3>2. CASE i # 0
      <4>1. n + i \in (n + 1)..(n + m) /\ n + i - n = i
        BY <3>2
      <4>2. QED
        BY <1>3, <4>1
    <3>3. QED
      BY <3>1, <3>2
  <2>3. QED
    BY <2>1, <2>2
<1>5. ASSUME NEW k \in 1..(n + m) PROVE whole[k] = Reads(whole[k - 1], EventAt(s, k)')
  <2>1. CASE k <= n
    <3>1. k \in 1..n /\ k \in 0..n /\ k - 1 \in 0..n
      BY <2>1
    <3>2. EventAt(s, k)' = pipe[s][k] /\ EventAt(s, k) = pipe[s][k]
      BY <1>1, <2>1 DEF EventAt
    <3>3. row[k] = Reads(row[k - 1], EventAt(s, k))
      BY <1>2, <3>1 DEF IsRow
    <3>4. QED
      BY <1>3, <3>1, <3>2, <3>3
  <2>2. CASE k > n
    <3>1. PICK i \in 1..m : k = n + i
      <4>1. k - n \in 1..m /\ k = n + (k - n)
        BY <2>2
      <4>2. QED
        BY <4>1
    <3>2. i - 1 \in 0..m /\ i \in 0..m /\ k - 1 = n + (i - 1) /\ k - n = i /\ ~(k <= n)
      BY <3>1
    <3>3. EventAt(s, k)' = out'[i]
      BY <1>1, <3>2 DEF EventAt
    <3>4. whole[k] = steps[i] /\ whole[k - 1] = steps[i - 1]
      BY <1>4, <3>1, <3>2
    <3>5. QED
      BY <3>3, <3>4
  <2>3. QED
    BY <2>1, <2>2
<1>6. whole[0] = reader'[s]
  BY <1>2, <1>3 DEF IsRow
<1>7. IsRow(s, whole)'
  BY <1>2, <1>5, <1>6 DEF IsRow
<1>8. whole[n + m] = steps[m]
  BY <1>4
<1>9. QED
  BY <1>2, <1>7, <1>8 DEF RowInv

\* The events o take a reader from r to z.
ReadsTo(r, o, z) ==
  \E steps \in [0..Len(o) -> Readers] :
    /\ steps[0] = r /\ steps[Len(o)] = z
    /\ \A i \in 1..Len(o) : steps[i] = Reads(steps[i - 1], o[i])

\* Frames of up to three events.
LEMMA ShortPaths ==
  ASSUME NEW r \in Readers
  PROVE  /\ ReadsTo(r, <<>>, r)
         /\ \A a : Reads(r, a) \in Readers => ReadsTo(r, <<a>>, Reads(r, a))
         /\ \A a, b : Reads(r, a) \in Readers /\ Reads(Reads(r, a), b) \in Readers
                        => ReadsTo(r, <<a, b>>, Reads(Reads(r, a), b))
         /\ \A a, b, c :
              /\ Reads(r, a) \in Readers /\ Reads(Reads(r, a), b) \in Readers
              /\ Reads(Reads(Reads(r, a), b), c) \in Readers
              => ReadsTo(r, <<a, b, c>>, Reads(Reads(Reads(r, a), b), c))
<1>1. ReadsTo(r, <<>>, r)
  <2>1. PICK f : f = [i \in 0..0 |-> r]
    OBVIOUS
  <2>2. f \in [0..0 -> Readers] /\ f[0] = r
    BY <2>1
  <2>3. Len(<<>>) = 0 /\ 1..0 = {}
    OBVIOUS
  <2>4. QED
    BY <2>2, <2>3 DEF ReadsTo
<1>2. ASSUME NEW a, Reads(r, a) \in Readers PROVE ReadsTo(r, <<a>>, Reads(r, a))
  <2>1. PICK f : f = [i \in 0..1 |-> IF i = 0 THEN r ELSE Reads(r, a)]
    OBVIOUS
  <2>2. f \in [0..1 -> Readers] /\ f[0] = r /\ f[1] = Reads(r, a)
    BY <1>2, <2>1
  <2>3. \A i \in 1..1 : f[i] = Reads(f[i - 1], <<a>>[i])
    BY <2>2
  <2>4. Len(<<a>>) = 1
    OBVIOUS
  <2>5. QED
    BY <2>2, <2>3, <2>4 DEF ReadsTo
<1>3. ASSUME NEW a, NEW b, Reads(r, a) \in Readers, Reads(Reads(r, a), b) \in Readers
      PROVE  ReadsTo(r, <<a, b>>, Reads(Reads(r, a), b))
  <2>1. PICK q, z : q = Reads(r, a) /\ z = Reads(q, b)
    OBVIOUS
  <2>2. PICK f : f = [i \in 0..2 |-> IF i = 0 THEN r ELSE IF i = 1 THEN q ELSE z]
    OBVIOUS
  <2>3. f \in [0..2 -> Readers] /\ f[0] = r /\ f[1] = q /\ f[2] = z
    BY <1>3, <2>1, <2>2
  <2>4. \A i \in 1..2 : f[i] = Reads(f[i - 1], <<a, b>>[i])
    <3>1. \A i \in 1..2 : i = 1 \/ i = 2
      OBVIOUS
    <3>2. f[1] = Reads(f[1 - 1], <<a, b>>[1]) /\ f[2] = Reads(f[2 - 1], <<a, b>>[2])
      BY <2>1, <2>3
    <3>3. QED
      BY <3>1, <3>2
  <2>5. Len(<<a, b>>) = 2
    OBVIOUS
  <2>6. QED
    BY <2>1, <2>3, <2>4, <2>5 DEF ReadsTo
<1>4. ASSUME NEW a, NEW b, NEW c, Reads(r, a) \in Readers, Reads(Reads(r, a), b) \in Readers,
             Reads(Reads(Reads(r, a), b), c) \in Readers
      PROVE  ReadsTo(r, <<a, b, c>>, Reads(Reads(Reads(r, a), b), c))
  <2>1. PICK p, q, z : p = Reads(r, a) /\ q = Reads(p, b) /\ z = Reads(q, c)
    OBVIOUS
  <2>2. PICK f : f = [i \in 0..3 |-> IF i = 0 THEN r ELSE IF i = 1 THEN p
                                     ELSE IF i = 2 THEN q ELSE z]
    OBVIOUS
  <2>3. f \in [0..3 -> Readers] /\ f[0] = r /\ f[1] = p /\ f[2] = q /\ f[3] = z
    BY <1>4, <2>1, <2>2
  <2>4. \A i \in 1..3 : f[i] = Reads(f[i - 1], <<a, b, c>>[i])
    <3>1. \A i \in 1..3 : i = 1 \/ i = 2 \/ i = 3
      OBVIOUS
    <3>2. /\ f[1] = Reads(f[1 - 1], <<a, b, c>>[1])
          /\ f[2] = Reads(f[2 - 1], <<a, b, c>>[2])
          /\ f[3] = Reads(f[3 - 1], <<a, b, c>>[3])
      BY <2>1, <2>3
    <3>3. QED
      BY <3>1, <3>2
  <2>5. Len(<<a, b, c>>) = 3
    OBVIOUS
  <2>6. QED
    BY <2>1, <2>3, <2>4, <2>5 DEF ReadsTo
<1>5. QED
  BY <1>1, <1>2, <1>3, <1>4

\* The keys a reader takes for pressed after a value.
DownAfter(down, k, e, v) ==
  IF e \in Switches(k) /\ Code(e) \in Codes
    THEN KeyDown(down, Code(e), v)
    ELSE down

\* What becomes of a reader that agrees with a device, when it reads the events of a
\* value: it agrees with the device again.
LEMMA CallbackRead ==
  ASSUME NEW k \in Kinds, NEW dev \in Devices, dev.kind = k, NEW e, NEW v,
         \/ <<e, v>> \in Valuators(k)
         \/ e \in Switches(k) /\ v \in 0..1,
         NEW r \in Readers, Calm(r), r.slot = dev.mt_slot, r.x = dev.mt_x
  PROVE  /\ Tracked(dev, e, v) \in Devices /\ Tracked(dev, e, v).kind = k
         /\ Translated(k, e, v) \in Seq(Events) /\ Len(Translated(k, e, v)) <= 3
         /\ \E z \in Readers :
              /\ ReadsTo(r, Translated(k, e, v), z) /\ Calm(z)
              /\ z.slot = Tracked(dev, e, v).mt_slot /\ z.x = Tracked(dev, e, v).mt_x
              /\ z.down = DownAfter(r.down, k, e, v)
<1> DEFINE Goal(o, d, down) ==
      /\ d \in Devices /\ d.kind = k /\ o \in Seq(Events) /\ Len(o) <= 3
      /\ \E z \in Readers : /\ ReadsTo(r, o, z) /\ Calm(z)
                            /\ z.slot = d.mt_slot /\ z.x = d.mt_x /\ z.down = down
<1>1. SUFFICES Goal(Translated(k, e, v), Tracked(dev, e, v), DownAfter(r.down, k, e, v))
  OBVIOUS
<1>2. Goal(<<>>, dev, r.down)
  BY ShortPaths
<1>3. ASSUME NEW c \in Codes, NEW u \in 0..1
      PROVE  Goal(<<Key(c, u), Syn>>, dev, KeyDown(r.down, c, u))
  <2>1. PICK q, z : q = Reads(r, Key(c, u)) /\ z = Reads(q, Syn)
    OBVIOUS
  <2>2. /\ q \in Readers /\ z \in Readers /\ Calm(z) /\ z.slot = r.slot /\ z.x = r.x
        /\ z.down = KeyDown(r.down, c, u)
    BY <2>1, KeyFrameRead
  <2>3. ReadsTo(r, <<Key(c, u), Syn>>, z)
    BY <2>1, <2>2, ShortPaths
  <2>4. <<Key(c, u), Syn>> \in Seq(Events) /\ Len(<<Key(c, u), Syn>>) <= 3
    BY EventFacts
  <2>5. QED
    BY <2>2, <2>3, <2>4
<1> HIDE DEF Goal
<1>4. CASE e \in Switches(k) /\ v \in 0..1
  <2>1. /\ Tracked(dev, e, v) = dev
        /\ Code(e) \in Codes => Translated(k, e, v) = <<Key(Code(e), v), Syn>>
        /\ Code(e) \notin Codes => Translated(k, e, v) = <<>>
    BY <1>4, SwitchFrame
  <2>2. CASE Code(e) \in Codes
    BY <1>3, <1>4, <2>1, <2>2 DEF DownAfter
  <2>3. CASE Code(e) \notin Codes
    BY <1>2, <1>4, <2>1, <2>3 DEF DownAfter
  <2>4. QED
    BY <2>2, <2>3
<1>5. CASE <<e, v>> \in Valuators(k)
  <2>1. DownAfter(r.down, k, e, v) = r.down
    BY <1>5, ValuatorFrame DEF DownAfter
  <2>2. Goal(<<Event("EV_REL", "REL_X", 1)>>, dev, r.down)
    <3>1. PICK ev : ev = Event("EV_REL", "REL_X", 1)
      OBVIOUS
    <3>2. ev \in Events /\ ev # Syn /\ ev.type = "EV_REL" /\ ev.code = "REL_X"
      BY <3>1, EventFacts DEF Event, Events
    <3>3. PICK z : z = Reads(r, ev)
      OBVIOUS
    <3>4. /\ z \in Readers /\ z.frame = r.frame \cup {ev}
          /\ z.down = r.down /\ z.slot = r.slot /\ z.x = r.x
      BY <3>2, <3>3, KeptEvent
    <3>5. Calm(z)
      BY <3>2, <3>4 DEF Calm
    <3>6. ReadsTo(r, <<ev>>, z)
      BY <3>3, <3>4, ShortPaths
    <3>7. <<ev>> \in Seq(Events) /\ Len(<<ev>>) <= 3
      BY <3>2
    <3>8. QED
      BY <3>1, <3>4, <3>5, <3>6, <3>7 DEF Goal
  <2>3. ASSUME NEW m \in Indices
        PROVE  Goal(<<Abs("ABS_MT_SLOT", m), Syn>>, [dev EXCEPT !.mt_slot = m], r.down)
    <3>1. PICK ev, q, z : ev = Abs("ABS_MT_SLOT", m) /\ q = Reads(r, ev) /\ z = Reads(q, Syn)
      OBVIOUS
    <3>2. /\ q \in Readers /\ z \in Readers /\ Calm(z)
          /\ z.slot = m /\ z.x = r.x /\ z.down = r.down
      BY <3>1, ContactFrameRead
    <3>3. ReadsTo(r, <<ev, Syn>>, z)
      BY <3>1, <3>2, ShortPaths
    <3>4. ev \in Events
      <4>1. m \in Positions \cup Int
        BY DevicesAssumption DEF Indices
      <4>2. QED
        BY <3>1, <4>1 DEF Abs, Event, Events
    <3>5. <<ev, Syn>> \in Seq(Events) /\ Len(<<ev, Syn>>) <= 3
      BY <3>4, EventFacts
    <3>6. PICK d : d = [dev EXCEPT !.mt_slot = m]
      OBVIOUS
    <3>7. d \in Devices /\ d.kind = k /\ d.mt_slot = m /\ d.mt_x = dev.mt_x
      BY <3>6 DEF Devices
    <3>8. Goal(<<ev, Syn>>, d, r.down)
      BY <3>2, <3>3, <3>5, <3>7 DEF Goal
    <3>9. QED
      BY <3>1, <3>6, <3>8
  <2>4. ASSUME v \in Positions
        PROVE  Goal(<<Abs("ABS_MT_POSITION_X", v), Abs("ABS_X", v), Syn>>,
                    [dev EXCEPT !.mt_x[dev.mt_slot] = v], r.down)
    <3>1. PICK a, b, p, q, z : /\ a = Abs("ABS_MT_POSITION_X", v) /\ b = Abs("ABS_X", v)
                               /\ p = Reads(r, a) /\ q = Reads(p, b) /\ z = Reads(q, Syn)
      OBVIOUS
    <3>2. /\ p \in Readers /\ q \in Readers /\ z \in Readers /\ Calm(z)
          /\ z.slot = r.slot /\ z.x = [r.x EXCEPT ![r.slot] = v] /\ z.down = r.down
      BY <2>4, <3>1, PositionFrameRead
    <3>3. ReadsTo(r, <<a, b, Syn>>, z)
      BY <3>1, <3>2, ShortPaths
    <3>4. a \in Events /\ b \in Events
      BY <2>4, <3>1 DEF Abs, Event, Events
    <3>5. <<a, b, Syn>> \in Seq(Events) /\ Len(<<a, b, Syn>>) <= 3
      BY <3>4, EventFacts
    <3>6. PICK d : d = [dev EXCEPT !.mt_x[dev.mt_slot] = v]
      OBVIOUS
    <3>7. d = [dev EXCEPT !.mt_x = [dev.mt_x EXCEPT ![dev.mt_slot] = v]]
      BY <3>6
    <3>8. [dev.mt_x EXCEPT ![dev.mt_slot] = v] \in [Indices -> Positions]
      BY <2>4 DEF Devices
    <3>9. /\ d \in Devices /\ d.kind = k /\ d.mt_slot = dev.mt_slot
          /\ d.mt_x = [dev.mt_x EXCEPT ![dev.mt_slot] = v]
      BY <3>7, <3>8 DEF Devices
    <3>10. Goal(<<a, b, Syn>>, d, r.down)
      BY <3>2, <3>3, <3>5, <3>9 DEF Goal
    <3>11. QED
      BY <3>1, <3>6, <3>10
  <2>5. QED
    BY <1>2, <1>5, <2>1, <2>2, <2>3, <2>4, ValuatorFrame
<1>6. QED
  BY <1>4, <1>5

\* A reader that agreed with the keys while a value waited agrees with them after it.
LEMMA KeysAfter ==
  ASSUME NEW s \in Slots, NEW e, NEW v, queue[s] = <<<<e, v>>>>, queue'[s] = <<>>,
         NEW k \in Kinds, g_devices[s].kind = k, g_devices'[s].kind = k,
         pressed'[s] = pressed[s], NEW down, down \subseteq Codes, KeysRight(s, down),
         \/ <<e, v>> \in Valuators(k)
         \/ e \in Switches(k) /\ v \in 0..1 /\ (v = 1 <=> e \in pressed[s])
  PROVE  KeysRight(s, DownAfter(down, k, e, v))'
<1> DEFINE after == DownAfter(down, k, e, v)
<1>1. \A f : HeldBefore(s, f) <=> IF f = e THEN v = 0 ELSE f \in pressed[s]
  BY DEF HeldBefore
<1>2. \A f : HeldBefore(s, f)' <=> f \in pressed[s]
  BY DEF HeldBefore
<1>3. /\ \A c \in down : \E f \in Switches(k) : Code(f) = c /\ HeldBefore(s, f)
      /\ \A f \in Switches(k) :
           HeldBefore(s, f) /\ (\A g \in Switches(k) : Code(g) = Code(f) => g = f)
             => Code(f) \in down \cup {"KEY_UNKNOWN"}
  BY DEF KeysRight
<1>4. SUFFICES
        /\ \A c \in after : \E f \in Switches(k) : Code(f) = c /\ f \in pressed[s]
        /\ \A f \in Switches(k) :
             f \in pressed[s] /\ (\A g \in Switches(k) : Code(g) = Code(f) => g = f)
               => Code(f) \in after \cup {"KEY_UNKNOWN"}
  BY <1>2 DEF KeysRight
<1>5. CASE <<e, v>> \in Valuators(k)
  <2>1. e \notin Switches(k)
    <3>1. PICK dev : dev = [kind |-> k]
      OBVIOUS
    <3>2. QED
      BY <1>5, <3>1, ValuatorFrame
  <2>2. after = down
    BY <2>1 DEF DownAfter
  <2>3. QED
    BY <1>1, <1>3, <2>1, <2>2
<1>6. CASE e \in Switches(k) /\ v \in 0..1 /\ (v = 1 <=> e \in pressed[s])
  <2>1. CASE Code(e) \notin Codes
    <3>1. Code(e) = "KEY_UNKNOWN"
      <4>1. PICK dev : dev = [kind |-> k]
        OBVIOUS
      <4>2. dev.kind = k
        BY <4>1
      <4>3. QED
        BY <1>6, <2>1, <4>2, SwitchFrame
    <3>2. after = down
      BY <2>1 DEF DownAfter
    <3>3. QED
      BY <1>1, <1>3, <2>1, <3>1, <3>2
  <2>2. CASE Code(e) \in Codes /\ v = 1
    <3>1. after = down \cup {Code(e)}
      BY <1>6, <2>2 DEF DownAfter, KeyDown
    <3>2. e \in pressed[s] /\ \A f \in Switches(k) : HeldBefore(s, f) <=> f # e /\ f \in pressed[s]
      BY <1>1, <1>6, <2>2
    <3>3. QED
      BY <1>3, <1>6, <3>1, <3>2
  <2>3. CASE Code(e) \in Codes /\ v = 0
    <3>1. after = down \ {Code(e)}
      BY <1>6, <2>3 DEF DownAfter, KeyDown
    <3>2. /\ e \notin pressed[s]
          /\ \A f \in Switches(k) : HeldBefore(s, f) <=> f = e \/ f \in pressed[s]
      BY <1>1, <1>6, <2>3
    <3>3. QED
      BY <1>3, <1>6, <3>1, <3>2
  <2>4. QED
    BY <1>6, <2>1, <2>2, <2>3
<1>7. QED
  BY <1>5, <1>6

\* The callback translates a value: the row of the device's slot grows by its events.
LEMMA CallbackInv == ASSUME Inv, NEW s \in Slots, hid_value_callback(s) PROVE Inv'
<1>1. PICK e, v : /\ queue[s] = <<<<e, v>>>> /\ s \in DOMAIN g_devices
                  /\ \/ <<e, v>> \in Valuators(g_devices[s].kind)
                     \/ /\ e \in Switches(g_devices[s].kind) /\ v \in 0..1
                        /\ Plugged(s) => (v = 1 <=> e \in pressed[s])
  BY DEF hid_value_callback, Inv, SlotOK, QueueOK
<1>2. PICK k, dev : dev = g_devices[s] /\ k = dev.kind
  OBVIOUS
<1>3. dev \in Devices /\ k \in Kinds
  <2>1. g_devices \in Seq(Devices) /\ s \in 1..Len(g_devices)
    BY <1>1, SlotFacts DEF Inv, DeviceInv
  <2>2. dev \in Devices
    BY <1>2, <2>1
  <2>3. QED
    BY <1>2, <2>2 DEF Devices
<1>4. PICK o, nd : o = Translated(k, e, v) /\ nd = Tracked(dev, e, v)
  OBVIOUS
<1>5. /\ out = <<>> /\ out' = o /\ g_devices' = [g_devices EXCEPT ![s] = nd] /\ busy' = s
      /\ queue' = [queue EXCEPT ![s] = <<>>]
      /\ UNCHANGED <<slotOf, pressed, pipe, reader>>
  <2>1. Head(queue[s])[1] = e /\ Head(queue[s])[2] = v /\ Tail(queue[s]) = <<>>
    BY <1>1
  <2>2. QED
    BY <1>2, <1>4, <2>1 DEF hid_value_callback, hidvars
<1>6. PICK row \in [0..Pending(s) -> Readers] : IsRow(s, row) /\ Settled(s, row[Pending(s)])
  BY DEF Inv, RowInv
<1>7. PICK r \in Readers : r = row[Pending(s)] /\ Settled(s, r)
  BY <1>6, PendingType
<1>8. Calm(r) /\ r.slot = dev.mt_slot /\ r.x = dev.mt_x
  BY <1>1, <1>2, <1>7 DEF Settled, Calm
<1>9. /\ nd \in Devices /\ nd.kind = k /\ o \in Seq(Events) /\ Len(o) <= 3
      /\ \E z \in Readers : /\ ReadsTo(r, o, z) /\ Calm(z)
                            /\ z.slot = nd.mt_slot /\ z.x = nd.mt_x
                            /\ z.down = DownAfter(r.down, k, e, v)
  BY <1>1, <1>2, <1>3, <1>4, <1>8, CallbackRead
<1>10. PICK z \in Readers : /\ ReadsTo(r, o, z) /\ Calm(z)
                            /\ z.slot = nd.mt_slot /\ z.x = nd.mt_x
                            /\ z.down = DownAfter(r.down, k, e, v)
  BY <1>9
<1>11. /\ g_devices' \in Seq(Devices) /\ Len(g_devices') = Len(g_devices)
       /\ DOMAIN g_devices' = DOMAIN g_devices /\ g_devices'[s] = nd
       /\ \A t \in DOMAIN g_devices \ {s} : g_devices'[t] = g_devices[t]
  BY <1>1, <1>5, <1>9 DEF Inv, DeviceInv
<1>12. \A t \in DOMAIN g_devices : g_devices'[t].kind = g_devices[t].kind
  BY <1>2, <1>9, <1>11
<1>13. /\ queue'[s] = <<>> /\ DOMAIN queue' = Slots
       /\ \A t \in Slots \ {s} : queue'[t] = queue[t]
  BY <1>5 DEF Inv, Typed
<1>14. Typed'
  <2>1. busy' \in 0..Len(g_devices') /\ busy' # 0
    BY <1>1, <1>5, <1>11, SlotFacts
  <2>2. QED
    BY <1>5, <1>9, <1>13, <2>1 DEF Inv, Typed
<1>15. DeviceInv'
  <2>1. \A d \in Hids : slotOf[d] # 0 => slotOf[d] \in DOMAIN g_devices
    BY SlotFacts DEF Inv, DeviceInv
  <2>2. QED
    BY <1>5, <1>11, <1>12, <2>1 DEF Inv, DeviceInv
<1>16. \A t \in Slots : Plugged(t)' <=> Plugged(t)
  BY <1>5 DEF Plugged
<1>17. ASSUME NEW t \in Slots \ {s} PROVE SlotOK(t)' /\ RowInv(t)'
  BY <1>5, <1>11, <1>13, <1>16, OtherSlot
<1>18. SlotOK(s)'
  BY <1>1, <1>5, <1>11, <1>12, <1>13 DEF Inv, SlotOK, QueueOK
<1>19. Settled(s, z)'
  <2>1. Plugged(s) => KeysRight(s, z.down)'
    <3>1. SUFFICES ASSUME Plugged(s) PROVE KeysRight(s, z.down)'
      OBVIOUS
    <3>2. r.down \subseteq Codes /\ KeysRight(s, r.down)
      BY <1>7, <3>1 DEF Readers, Settled
    <3>3. KeysRight(s, DownAfter(r.down, k, e, v))'
      BY <1>1, <1>2, <1>3, <1>5, <1>9, <1>11, <1>13, <3>1, <3>2, KeysAfter
    <3>4. QED
      BY <1>10, <3>3
  <2>2. QED
    BY <1>1, <1>10, <1>11, <1>16, <2>1 DEF Settled, Calm
<1>20. RowInv(s)'
  <2>1. PICK m \in Nat : m = Len(o)
    BY <1>9
  <2>2. PICK steps \in [0..Len(o) -> Readers] :
          /\ steps[0] = r /\ steps[Len(o)] = z
          /\ \A i \in 1..Len(o) : steps[i] = Reads(steps[i - 1], o[i])
    BY ONLY <1>10 DEF ReadsTo
  <2>3. /\ steps \in [0..m -> Readers] /\ Len(out') = m /\ steps[0] = row[Pending(s)]
        /\ \A i \in 1..m : steps[i] = Reads(steps[i - 1], out'[i])
    BY ONLY <1>5, <1>7, <2>1, <2>2
  <2>4. Settled(s, steps[m])'
    BY <1>19, <2>1, <2>2
  <2>5. out = <<>> /\ busy' = s /\ UNCHANGED <<pipe, reader>>
    BY <1>5
  <2>6. QED
    BY <1>6, <2>3, <2>4, <2>5, RowExtended, ZenonT(30)
<1>21. QED
  BY <1>14, <1>15, <1>17, <1>18, <1>20 DEF Inv

-----------------------------------------------------------------------------
(* Devices that come and go, and the user.                                  *)

\* A step that writes and reads nothing leaves the row of a slot as it is, if it leaves
\* a reader settled.
LEMMA RowStays ==
  ASSUME Inv, NEW s \in Slots, UNCHANGED <<busy, out, pipe, reader>>,
         \A r \in Readers : Settled(s, r) => Settled(s, r)'
  PROVE  RowInv(s)'
<1>1. Pending(s)' = Pending(s) /\ \A k \in 1..Pending(s) : EventAt(s, k)' = EventAt(s, k)
  BY DEF Pending, EventAt
<1>2. QED
  BY <1>1, PendingType, RowKept DEF Inv

\* The kind of a device.
LEMMA KindType == ASSUME NEW d \in Hids PROVE Kind(d) \in Kinds
  BY DevicesAssumption DEF Kind, Kinds, Hids

\* A device that is added gets a slot that no events and no keys are left in.
LEMMA DeviceAddedInv == ASSUME Inv, NEW d \in Hids, device_added(d) PROVE Inv'
<1>1. PICK n \in Nat : n = Len(g_devices)
  BY SlotFacts
<1>2. PICK dev : dev = [kind |-> Kind(d), mt_slot |-> 0, mt_x |-> NoX]
  OBVIOUS
<1>3. dev \in Devices /\ dev.kind = Kind(d) /\ dev.mt_slot = 0 /\ dev.mt_x = NoX
  <2>1. 0 \in Indices /\ NoX \in [Indices -> Positions]
    BY DevicesAssumption DEF Indices, NoX
  <2>2. QED
    BY <1>2, <2>1, KindType DEF Devices
<1>4. /\ out = <<>> /\ slotOf[d] = 0 /\ n < MaxDevices
      /\ g_devices' = Append(g_devices, dev) /\ slotOf' = [slotOf EXCEPT ![d] = n + 1]
      /\ UNCHANGED <<pressed, queue, busy, out, pipe, reader>>
  BY <1>1, <1>2 DEF device_added
<1>5. /\ g_devices' \in Seq(Devices) /\ Len(g_devices') = n + 1
      /\ DOMAIN g_devices = 1..n /\ DOMAIN g_devices' = 1..(n + 1)
      /\ g_devices'[n + 1] = dev /\ \A t \in 1..n : g_devices'[t] = g_devices[t]
  <2>1. g_devices \in Seq(Devices)
    BY DEF Inv, DeviceInv
  <2>2. QED
    BY <1>1, <1>3, <1>4, <2>1, AppendProperties
<1>6. n + 1 \in Slots /\ n + 1 \notin DOMAIN g_devices /\ MaxDevices \in Nat
  BY <1>4, <1>5, DevicesAssumption DEF Slots
<1>7. /\ slotOf \in [Hids -> 0..n] /\ slotOf' \in [Hids -> 0..(n + 1)] /\ slotOf'[d] = n + 1
      /\ \A e \in Hids \ {d} : slotOf'[e] = slotOf[e]
  <2>1. slotOf \in [Hids -> 0..n]
    BY <1>1 DEF Inv, DeviceInv
  <2>2. QED
    BY <1>4, <2>1
<1>8. Typed'
  BY <1>1, <1>4, <1>5 DEF Inv, Typed
<1>9. DeviceInv'
  <2>1. \A e \in Hids : slotOf[e] # n + 1 /\ (slotOf[e] # 0 => slotOf[e] \in 1..n)
    BY <1>7
  <2>2. /\ \A e \in Hids : slotOf[e] # 0 => g_devices[slotOf[e]].kind = Kind(e)
        /\ \A e, f \in Hids : slotOf[e] = slotOf[f] /\ slotOf[e] # 0 => e = f
    BY DEF Inv, DeviceInv
  <2>3. \A e \in Hids : slotOf'[e] # 0 => g_devices'[slotOf'[e]].kind = Kind(e)
    BY <1>3, <1>5, <1>7, <2>1, <2>2
  <2>4. \A e, f \in Hids : slotOf'[e] = slotOf'[f] /\ slotOf'[e] # 0 => e = f
    BY <1>7, <2>1, <2>2
  <2>5. Len(g_devices') <= MaxDevices
    BY <1>4, <1>5, <1>6
  <2>6. QED
    BY <1>5, <1>7, <2>3, <2>4, <2>5 DEF DeviceInv
<1>10. ASSUME NEW t \in Slots \ {n + 1} PROVE SlotOK(t)' /\ RowInv(t)'
  <2>1. t \in DOMAIN g_devices' <=> t \in DOMAIN g_devices
    BY <1>5, SlotFacts
  <2>2. Plugged(t)' <=> Plugged(t)
    <3>1. t # 0
      BY SlotFacts
    <3>2. QED
      BY <1>4, <1>7, <3>1 DEF Plugged
  <2>3. t \in DOMAIN g_devices => g_devices'[t] = g_devices[t]
    BY <1>5
  <2>4. QED
    BY <1>4, <2>1, <2>2, <2>3, OtherSlot
<1>11. /\ queue[n + 1] = <<>> /\ pressed[n + 1] = {} /\ pipe[n + 1] = <<>>
       /\ Len(pipe[n + 1]) <= Capacity
  BY <1>6 DEF Inv, SlotOK, QueueOK
<1>12. SlotOK(n + 1)'
  <2>1. n + 1 \in DOMAIN g_devices'
    BY <1>5
  <2>2. QED
    BY <1>4, <1>11, <2>1 DEF SlotOK, QueueOK
<1>13. RowInv(n + 1)'
  <2>1. SUFFICES ASSUME NEW r \in Readers, Settled(n + 1, r) PROVE Settled(n + 1, r)'
    BY <1>4, <1>6, RowStays
  <2>2. r = NewReader
    BY <1>6, <2>1 DEF Settled
  <2>3. r.down = {} /\ r.slot = 0 /\ r.x = NoX /\ r.frame = {}
    BY <2>2 DEF NewReader
  <2>4. KeysRight(n + 1, r.down)'
    <3>1. \A f : ~HeldBefore(n + 1, f)'
      BY <1>4, <1>11 DEF HeldBefore
    <3>2. QED
      BY <2>3, <3>1 DEF KeysRight
  <2>5. n + 1 \in DOMAIN g_devices'
    BY <1>5
  <2>6. QED
    BY <1>3, <1>5, <2>3, <2>4, <2>5 DEF Settled
<1>14. QED
  BY <1>8, <1>9, <1>10, <1>12, <1>13 DEF Inv

\* A device that is unplugged leaves its slot, and the keys in it, to nobody.
LEMMA UnplugInv == ASSUME Inv, NEW d \in Hids, Unplug(d) PROVE Inv'
<1>1. PICK s : s = slotOf[d]
  OBVIOUS
<1>2. /\ s # 0 /\ slotOf' = [slotOf EXCEPT ![d] = 0] /\ pressed' = [pressed EXCEPT ![s] = {}]
      /\ UNCHANGED <<g_devices, queue, busy, out, pipe, reader>>
  BY <1>1 DEF Unplug
<1>3. slotOf \in [Hids -> 0..Len(g_devices)] /\ \A e \in Hids \ {d} : slotOf[e] # s
  BY <1>1, <1>2 DEF Inv, DeviceInv
<1>4. s \in DOMAIN g_devices /\ s \in Slots
  BY <1>1, <1>2, <1>3, SlotFacts
<1>5. /\ slotOf' \in [Hids -> 0..Len(g_devices)] /\ slotOf'[d] = 0
      /\ \A e \in Hids \ {d} : slotOf'[e] = slotOf[e]
  BY <1>2, <1>3, SlotFacts
<1>6. DOMAIN pressed' = Slots /\ pressed'[s] = {} /\ \A t \in Slots \ {s} : pressed'[t] = pressed[t]
  BY <1>2, <1>4 DEF Inv, Typed
<1>7. Typed' /\ DeviceInv'
  <2>1. Typed'
    BY <1>2, <1>6 DEF Inv, Typed
  <2>2. DeviceInv'
    BY <1>2, <1>5 DEF Inv, DeviceInv
  <2>3. QED
    BY <2>1, <2>2
<1>8. ~Plugged(s)'
  BY <1>2, <1>3, <1>5 DEF Plugged
<1>9. ASSUME NEW t \in Slots \ {s} PROVE SlotOK(t)' /\ RowInv(t)'
  <2>1. t # 0 /\ (Plugged(t)' <=> Plugged(t))
    BY <1>1, <1>5, SlotFacts DEF Plugged
  <2>2. QED
    BY <1>2, <1>6, <2>1, OtherSlot
<1>10. SlotOK(s)'
  BY <1>2, <1>4, <1>6, <1>8 DEF Inv, SlotOK, QueueOK
<1>11. RowInv(s)'
  <2>1. \A r \in Readers : Settled(s, r) => Settled(s, r)'
    BY <1>2, <1>8 DEF Settled
  <2>2. QED
    BY <1>2, <1>4, <2>1, RowStays
<1>12. QED
  BY <1>7, <1>9, <1>10, <1>11 DEF Inv

\* The user presses, releases or moves something: until the run loop gets round to it
\* the keys were held as they were.
LEMMA ReportInv == ASSUME Inv, NEW d \in Hids, Report(d) PROVE Inv'
<1>1. PICK s, k : s = slotOf[d] /\ k = Kind(d)
  OBVIOUS
<1>2. /\ s # 0 /\ queue[s] = <<>> /\ UNCHANGED <<g_devices, slotOf, busy, out, pipe, reader>>
  BY <1>1 DEF Report
<1>3. s \in DOMAIN g_devices /\ s \in Slots /\ g_devices[s].kind = k /\ Plugged(s)
  BY <1>1, <1>2, SlotFacts DEF Inv, DeviceInv, Plugged
<1>4. PICK e, v :
        /\ queue' = [queue EXCEPT ![s] = <<<<e, v>>>>]
        /\ \/ /\ e \in Switches(k) /\ e \in pressed[s] /\ v = 0
              /\ pressed' = [pressed EXCEPT ![s] = @ \ {e}]
           \/ /\ e \in Switches(k) /\ e \notin pressed[s] /\ v = 1
              /\ pressed' = [pressed EXCEPT ![s] = @ \cup {e}]
           \/ <<e, v>> \in Valuators(k) /\ pressed' = pressed
  <2>1. \/ \E e \in Switches(k) :
             IF e \in pressed[s]
               THEN /\ queue' = [queue EXCEPT ![s] = <<<<e, 0>>>>]
                    /\ pressed' = [pressed EXCEPT ![s] = @ \ {e}]
               ELSE /\ queue' = [queue EXCEPT ![s] = <<<<e, 1>>>>]
                    /\ pressed' = [pressed EXCEPT ![s] = @ \cup {e}]
        \/ \E v \in Valuators(k) : queue' = [queue EXCEPT ![s] = <<v>>] /\ pressed' = pressed
    BY <1>1 DEF Report
  <2>2. \A v \in Valuators(k) : v = <<v[1], v[2]>>
    BY <1>1, KindType DEF Kinds, Valuators
  <2>3. CASE \E v \in Valuators(k) : queue' = [queue EXCEPT ![s] = <<v>>] /\ pressed' = pressed
    <3>1. PICK v \in Valuators(k) : queue' = [queue EXCEPT ![s] = <<v>>] /\ pressed' = pressed
      BY <2>3
    <3>2. PICK a, b : v = <<a, b>>
      BY <2>2, <3>1
    <3>3. QED
      BY <3>1, <3>2
  <2>4. ASSUME NEW e \in Switches(k),
               IF e \in pressed[s]
                 THEN /\ queue' = [queue EXCEPT ![s] = <<<<e, 0>>>>]
                      /\ pressed' = [pressed EXCEPT ![s] = @ \ {e}]
                 ELSE /\ queue' = [queue EXCEPT ![s] = <<<<e, 1>>>>]
                      /\ pressed' = [pressed EXCEPT ![s] = @ \cup {e}]
        PROVE  \E v :
                 /\ queue' = [queue EXCEPT ![s] = <<<<e, v>>>>]
                 /\ \/ e \in pressed[s] /\ v = 0 /\ pressed' = [pressed EXCEPT ![s] = @ \ {e}]
                    \/ e \notin pressed[s] /\ v = 1 /\ pressed' = [pressed EXCEPT ![s] = @ \cup {e}]
    BY <2>4
  <2>5. QED
    BY <2>1, <2>3, <2>4, ZenonT(30)
<1>5. /\ DOMAIN queue' = Slots /\ queue'[s] = <<<<e, v>>>>
      /\ DOMAIN pressed' = Slots
      /\ \A t \in Slots \ {s} : queue'[t] = queue[t] /\ pressed'[t] = pressed[t]
  BY <1>3, <1>4 DEF Inv, Typed
<1>6. \/ e \in Switches(k) /\ e \in pressed[s] /\ v = 0 /\ pressed'[s] = pressed[s] \ {e}
      \/ e \in Switches(k) /\ e \notin pressed[s] /\ v = 1 /\ pressed'[s] = pressed[s] \cup {e}
      \/ <<e, v>> \in Valuators(k) /\ e \notin Switches(k) /\ pressed'[s] = pressed[s]
  <2>1. DOMAIN pressed = Slots
    BY DEF Inv, Typed
  <2>2. ASSUME <<e, v>> \in Valuators(k) PROVE e \notin Switches(k)
    <3>1. PICK dev : dev = [kind |-> k]
      OBVIOUS
    <3>2. dev.kind = k
      BY <3>1
    <3>3. QED
      BY <1>1, <2>2, <3>2, KindType, ValuatorFrame
  <2>3. QED
    BY <1>3, <1>4, <2>1, <2>2
<1>7. Typed' /\ DeviceInv'
  BY <1>2, <1>5 DEF Inv, Typed, DeviceInv
<1>8. \A t \in Slots : Plugged(t)' <=> Plugged(t)
  BY <1>2 DEF Plugged
<1>9. ASSUME NEW t \in Slots \ {s} PROVE SlotOK(t)' /\ RowInv(t)'
  BY <1>2, <1>5, <1>8, OtherSlot
<1>10. SlotOK(s)'
  <2>1. pressed[s] \subseteq Switches(k) /\ Len(pipe[s]) <= Capacity
    BY <1>3 DEF Inv, SlotOK
  <2>2. QueueOK(s)'
    <3>1. \/ <<e, v>> \in Valuators(k)
          \/ e \in Switches(k) /\ v \in 0..1 /\ (v = 1 <=> e \in pressed'[s])
      BY <1>6
    <3>2. QED
      BY <1>2, <1>3, <1>5, <3>1 DEF QueueOK
  <2>3. pressed'[s] \subseteq Switches(k)
    BY <1>6, <2>1
  <2>4. QED
    BY <1>2, <1>3, <2>1, <2>2, <2>3 DEF SlotOK
<1>11. RowInv(s)'
  <2>1. \A f : HeldBefore(s, f) <=> f \in pressed[s]
    BY <1>2 DEF HeldBefore
  <2>2. \A f : HeldBefore(s, f)' <=> IF f = e THEN v = 0 ELSE f \in pressed'[s]
    BY <1>5 DEF HeldBefore
  <2>3. \A f \in Switches(k) : HeldBefore(s, f)' <=> HeldBefore(s, f)
    BY <1>6, <2>1, <2>2
  <2>4. \A down : KeysRight(s, down) => KeysRight(s, down)'
    BY <1>2, <1>3, <2>3 DEF KeysRight
  <2>5. \A r \in Readers : Settled(s, r) => Settled(s, r)'
    BY <1>2, <1>8, <1>3, <2>4 DEF Settled
  <2>6. QED
    BY <1>2, <1>3, <2>5, RowStays
<1>12. QED
  BY <1>7, <1>9, <1>10, <1>11 DEF Inv

-----------------------------------------------------------------------------
(* The invariant holds.                                                     *)

\* There are no devices at first.
LEMMA InitInv == Init => Inv
<1>1. SUFFICES ASSUME Init PROVE Inv
  OBVIOUS
<1>2. NewReader \in Readers
  <2>1. 0 \in Indices /\ NoX \in [Indices -> Positions]
    BY DevicesAssumption DEF Indices, NoX
  <2>2. QED
    BY <2>1 DEF NewReader, Readers
<1>3. Typed
  BY <1>1, <1>2 DEF Init, Typed
<1>4. DeviceInv
  BY <1>1, DevicesAssumption DEF Init, DeviceInv
<1>5. ASSUME NEW s \in Slots PROVE SlotOK(s) /\ RowInv(s)
  <2>1. /\ queue[s] = <<>> /\ pressed[s] = {} /\ pipe[s] = <<>> /\ s \notin DOMAIN g_devices
        /\ reader[s] = NewReader
    BY <1>1 DEF Init
  <2>2. ~Plugged(s)
    BY <1>1 DEF Init, Plugged, Slots
  <2>3. SlotOK(s)
    BY <2>1, DevicesAssumption DEF SlotOK, QueueOK
  <2>4. Settled(s, NewReader)
    BY <2>1, <2>2 DEF Settled, NewReader
  <2>5. Pending(s) = 0
    BY <1>1, <2>1 DEF Init, Pending
  <2>6. PICK row : row = [i \in 0..0 |-> NewReader]
    OBVIOUS
  <2>7. row \in [0..0 -> Readers] /\ row[0] = NewReader
    BY <1>2, <2>6
  <2>8. IsRow(s, row)
    BY <2>1, <2>5, <2>7 DEF IsRow
  <2>9. QED
    BY <2>3, <2>4, <2>5, <2>7, <2>8 DEF RowInv
<1>6. QED
  BY <1>3, <1>4, <1>5 DEF Inv

\* A step in which nothing happens keeps it.
LEMMA StutterInv == ASSUME Inv, UNCHANGED vars PROVE Inv'
<1>1. UNCHANGED <<g_devices, slotOf, pressed, queue, busy, out, pipe, reader>>
  BY DEF vars, hidvars
<1>2. Typed' /\ DeviceInv'
  BY <1>1 DEF Inv, Typed, DeviceInv
<1>3. ASSUME NEW s \in Slots PROVE SlotOK(s)' /\ RowInv(s)'
  BY <1>1, OtherSlot DEF Plugged
<1>4. QED
  BY <1>2, <1>3 DEF Inv

\* Every step keeps it.
LEMMA InvStep == Inv /\ [Next]_vars => Inv'
<1>1. SUFFICES ASSUME Inv, [Next]_vars PROVE Inv'
  OBVIOUS
<1>2. ASSUME NEW d \in Hids, device_added(d) \/ Unplug(d) \/ Report(d) PROVE Inv'
  BY <1>1, <1>2, DeviceAddedInv, UnplugInv, ReportInv
<1>3. ASSUME NEW s \in Slots, hid_value_callback(s) \/ ReadEvent(s) PROVE Inv'
  BY <1>1, <1>3, CallbackInv, ReadInv
<1>4. CASE write_event
  BY <1>1, <1>4, WriteInv
<1>5. CASE UNCHANGED vars
  BY <1>1, <1>5, StutterInv
<1>6. QED
  BY <1>1, <1>2, <1>3, <1>4, <1>5 DEF Next

\* So it always holds.
LEMMA InvAlways == Spec => []Inv
  BY InitInv, InvStep, PTL DEF Spec

-----------------------------------------------------------------------------
(* What follows from it.                                                    *)

\* The slots of contacts are those the bridge has, no pipe holds more than it can, and
\* one value at most waits for the run loop.
LEMMA InvTypeOK == Inv => TypeOK
<1>1. SUFFICES ASSUME Inv PROVE TypeOK
  OBVIOUS
<1>2. \A s \in 1..Len(g_devices) : g_devices[s] \in Devices
  BY <1>1 DEF Inv, DeviceInv
<1>3. ASSUME NEW s \in Slots PROVE Len(queue[s]) <= 1 /\ Len(pipe[s]) <= Capacity
  <2>1. QueueOK(s) /\ Len(pipe[s]) <= Capacity
    BY <1>1 DEF Inv, SlotOK
  <2>2. CASE queue[s] = <<>>
    BY <2>1, <2>2
  <2>3. CASE queue[s] # <<>>
    <3>1. PICK v : queue[s] = <<v>>
      BY <2>1, <2>3 DEF QueueOK
    <3>2. QED
      BY <2>1, <3>1
  <2>4. QED
    BY <2>2, <2>3
<1>4. \A s \in Slots : reader[s] \in Readers
  BY <1>1 DEF Inv, Typed
<1>5. QED
  BY <1>1, <1>2, <1>3, <1>4 DEF Inv, DeviceInv, Typed, Devices, Readers, Indices, TypeOK

\* A reader of which nothing is on its way is settled.
LEMMA RestSettled ==
  ASSUME Inv, NEW s \in ReadSlots, AtRest(s)
  PROVE  s \in Slots /\ Plugged(s) /\ queue[s] = <<>> /\ Settled(s, reader[s])
<1>1. s \in Slots /\ queue[s] = <<>> /\ pipe[s] = <<>> /\ (busy = s => out = <<>>)
  BY SlotFacts DEF AtRest
<1>2. Plugged(s)
  BY DEF AtRest, Range, Plugged, Inv, DeviceInv
<1>3. Pending(s) = 0
  BY <1>1 DEF Pending
<1>4. PICK row \in [0..Pending(s) -> Readers] : IsRow(s, row) /\ Settled(s, row[Pending(s)])
  BY <1>1 DEF Inv, RowInv
<1>5. QED
  BY <1>1, <1>2, <1>3, <1>4 DEF IsRow

\* What it knows is right.
LEMMA InvReaderAgrees == Inv => ReaderAgrees
<1>1. SUFFICES ASSUME Inv, NEW s \in ReadSlots, AtRest(s)
      PROVE  /\ \A e \in reader[s].frame : e.type = "EV_REL"
             /\ s \in DOMAIN g_devices =>
                  /\ reader[s].slot = g_devices[s].mt_slot /\ reader[s].x = g_devices[s].mt_x
                  /\ reader[s].down \subseteq {Code(e) : e \in pressed[s]}
                  /\ \A e \in pressed[s] :
                       (\A f \in Switches(g_devices[s].kind) : Code(f) = Code(e) => f = e)
                         => Code(e) \in reader[s].down \cup {"KEY_UNKNOWN"}
  BY DEF ReaderAgrees, KeysAgree, FramedAtRest, ContactsAgree
<1>2. s \in Slots /\ Plugged(s) /\ queue[s] = <<>> /\ Settled(s, reader[s])
  BY <1>1, RestSettled
<1>3. \A e : HeldBefore(s, e) <=> e \in pressed[s]
  BY <1>2 DEF HeldBefore
<1>4. s \in DOMAIN g_devices => pressed[s] \subseteq Switches(g_devices[s].kind)
  BY <1>1, <1>2 DEF Inv, SlotOK
<1>5. KeysRight(s, reader[s].down)
  BY <1>2 DEF Settled
<1>6. QED
  BY <1>2, <1>3, <1>4, <1>5 DEF Settled, KeysRight

\* The table of devices never holds more than MAX_DEVICES, what the bridge keeps of
\* contacts stays inside mt_x, and no pipe overflows.
THEOREM TypeCorrect == Spec => []TypeOK
  BY InvAlways, InvTypeOK, PTL

\* Whatever is plugged in, unplugged, pressed, moved and blocked: when nothing of a
\* device is on its way, its reader holds for pressed the keys that are pressed, waits
\* for the end of no frame but that of a motion, and knows the contacts the bridge knows.
THEOREM ReaderAgreesAlways == Spec => []ReaderAgrees
  BY InvAlways, InvReaderAgrees, PTL
=============================================================================
