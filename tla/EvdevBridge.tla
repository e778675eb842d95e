---------------------------- MODULE EvdevBridge ----------------------------
(***************************************************************************)
(* darwin-evdev-bridge: turns the values of HID elements into evdev events *)
(* and writes them to one pipe per device.  One thread runs a CFRunLoop,   *)
(* which calls device_added and hid_value_callback; write() blocks it when *)
(* a pipe is full.  Whoever reads a pipe takes events one by one and acts  *)
(* on them at EV_SYN, as libinput does.                                    *)
(*                                                                         *)
(* Element usages are those a device of each kind has; of a family of keys *)
(* or buttons that are treated alike there is one of each treatment.       *)
(***************************************************************************)
EXTENDS Integers, Sequences, Functions

CONSTANTS
  Keyboards, Pointers, Touchpads,  \* HID devices, by primary usage
  MaxDevices,   \* MAX_DEVICES
  Capacity,     \* events that fit into a pipe
  ReadSlots,    \* slots whose pipe somebody reads
  NumContacts,  \* length of mt_x
  ContactIds,   \* values of a contact identifier
  Positions,    \* values of a position
  Usages        \* the keys and buttons that are pressed at all

Hids  == Keyboards \cup Pointers \cup Touchpads
Slots == 1..MaxDevices

ASSUME DevicesAssumption ==
  /\ Keyboards \cap Pointers = {} /\ (Keyboards \cup Pointers) \cap Touchpads = {}
  /\ MaxDevices \in Nat /\ ReadSlots \subseteq Slots
  /\ Capacity \in Nat \ {0} /\ NumContacts \in Nat \ {0}
  /\ ContactIds \subseteq Nat /\ 0 \in Positions

VARIABLES
  g_devices,  \* the devices added; g_device_count is its length
  slotOf,     \* the slot a device's values go to; 0 for one that is not plugged in,
              \* or that device_added turned away
  pressed,    \* per slot: the keys and buttons that are held
  queue,      \* per slot: values the run loop has not delivered
  busy, out,  \* the slot the thread writes to, and the events it has yet to write
  pipe,       \* per slot: events written and not read
  reader      \* per slot: what the reader knows

hidvars == <<slotOf, pressed>>
vars == <<g_devices, hidvars, queue, busy, out, pipe, reader>>

-----------------------------------------------------------------------------
(* Values and events.                                                       *)

El(page, usage) == [page |-> page, usage |-> usage]

\* What a device can report.  Usage 0x30 is X on the GenericDesktop page and the
\* tip's pressure on the Digitizer page.  How far a pointer moves is left out.
Elements(k) ==
  CASE k = "keyboard" -> {El("Keyboard", "a"), El("Keyboard", "leftmeta"),
                          El("Keyboard", "unmapped"), El("Vendor", "globe")}
    [] k = "pointer"  -> {El("Button", "1"), El("Button", "3"), El("Button", "4")}
    [] k = "touch"    -> {El("Digitizer", "tip")}
Switches(k) == {e \in Elements(k) : e.usage \in Usages}
Valuators(k) ==
  CASE k = "keyboard" -> {}
    [] k = "pointer"  -> {<<El("Desktop", "0x30"), 1>>}
    [] k = "touch"    -> {<<El("Digitizer", "contact"), c>> : c \in ContactIds}
                         \cup {<<El("Digitizer", "0x30"), p>> : p \in Positions}
                         \cup {<<El("Desktop", "0x30"), 1>>}

Event(type, code, val) == [type |-> type, code |-> code, val |-> val]
Syn       == Event("EV_SYN", "SYN_REPORT", 0)
Key(c, v) == Event("EV_KEY", c, v)
Abs(c, v) == Event("EV_ABS", c, v)

\* KEY_UNKNOWN is 0, so a gap in the table counts as unknown.
hid_to_linux_key(usage) == CASE usage = "a"        -> "KEY_A"
                             [] usage = "leftmeta" -> "KEY_LEFTMETA"
                             [] OTHER              -> "KEY_UNKNOWN"
button(usage) == IF usage = "1" THEN "BTN_LEFT" ELSE "BTN_MIDDLE"

\* The key or button an element stands for.
Code(e) == CASE e.page = "Keyboard"  -> hid_to_linux_key(e.usage)
             [] e.page = "Vendor"    -> "KEY_LEFTMETA"
             [] e.page = "Button"    -> button(e.usage)
             [] e.page = "Digitizer" -> "BTN_TOUCH"

\* The slot of a contact.  Mutant: the identifier itself.
MtSlotRaw(id) == id
MtSlot(id)    == id % NumContacts

\* Keys and touches are frames of their own, ended by EV_SYN.
KeyFrame(e, v)   == <<Key(Code(e), v), Syn>>
TouchFrame(e, v) ==
  CASE e.usage = "tip"     -> <<Key(Code(e), v), Syn>>
    [] e.usage = "contact" -> <<Abs("ABS_MT_SLOT", MtSlot(v)), Syn>>
    [] e.usage = "0x30"    -> <<Abs("ABS_MT_POSITION_X", v), Abs("ABS_X", v), Syn>>

\* The events hid_value_callback writes for a value of a device.
Translated(kind, e, v) ==
  CASE e.page = "Keyboard" /\ kind = "keyboard" /\ Code(e) # "KEY_UNKNOWN" -> KeyFrame(e, v)
    [] e.page = "Vendor"                           -> KeyFrame(e, v)
    [] e.page = "Desktop" /\ kind = "pointer"      -> <<Event("EV_REL", "REL_X", v)>>
    [] e.page = "Button" /\ kind = "pointer"       -> KeyFrame(e, v)
    [] e.page = "Digitizer" /\ kind = "touch"      -> TouchFrame(e, v)
    [] OTHER                                       -> <<>>

\* Mutant of Tracked: a new contact is announced and not remembered.
TrackedNot(dev, e, v) ==
  IF e = El("Digitizer", "0x30") THEN [dev EXCEPT !.mt_x[dev.mt_slot] = v] ELSE dev

\* What the callback keeps of a touch pad's contacts.
Tracked(dev, e, v) ==
  CASE dev.kind = "touch" /\ e = El("Digitizer", "contact") -> [dev EXCEPT !.mt_slot = MtSlot(v)]
    [] dev.kind = "touch" /\ e = El("Digitizer", "0x30") -> [dev EXCEPT !.mt_x[dev.mt_slot] = v]
    [] OTHER -> dev

-----------------------------------------------------------------------------
NoX       == [i \in 0..(NumContacts - 1) |-> 0]
NewReader == [down |-> {}, slot |-> 0, x |-> NoX, frame |-> {}]

Init ==
  /\ g_devices = <<>>
  /\ slotOf = [d \in Hids |-> 0]
  /\ pressed = [s \in Slots |-> {}]
  /\ queue = [s \in Slots |-> <<>>]
  /\ busy = 0 /\ out = <<>>
  /\ pipe = [s \in Slots |-> <<>>]
  /\ reader = [s \in Slots |-> NewReader]

Kind(d) == CASE d \in Keyboards -> "keyboard" [] d \in Pointers -> "pointer"
             [] d \in Touchpads -> "touch"

\* device_added, called by the run loop when the thread is in no other callback.  If
\* the table is full or pipe() fails it changes nothing: the device is never heard of.
device_added(d) ==
  /\ out = <<>> /\ slotOf[d] = 0 /\ Len(g_devices) < MaxDevices
  /\ g_devices' = Append(g_devices, [kind |-> Kind(d), mt_slot |-> 0, mt_x |-> NoX])
  /\ slotOf' = [slotOf EXCEPT ![d] = Len(g_devices) + 1]
  /\ UNCHANGED <<pressed, queue, busy, out, pipe, reader>>

\* A device is unplugged: the bridge has no callback for that, and the slot stays.
Unplug(d) ==
  /\ slotOf[d] # 0
  /\ slotOf' = [slotOf EXCEPT ![d] = 0]
  /\ pressed' = [pressed EXCEPT ![slotOf[d]] = {}]
  /\ UNCHANGED <<g_devices, queue, busy, out, pipe, reader>>

\* The user does something: a value waits for the run loop, one at a time.
Report(d) ==
  LET s == slotOf[d] IN
  /\ s # 0 /\ queue[s] = <<>>
  /\ \/ \E e \in Switches(Kind(d)) :
          IF e \in pressed[s]
            THEN /\ queue' = [queue EXCEPT ![s] = <<<<e, 0>>>>]
                 /\ pressed' = [pressed EXCEPT ![s] = @ \ {e}]
            ELSE /\ queue' = [queue EXCEPT ![s] = <<<<e, 1>>>>]
                 /\ pressed' = [pressed EXCEPT ![s] = @ \cup {e}]
     \/ \E v \in Valuators(Kind(d)) : /\ queue' = [queue EXCEPT ![s] = <<v>>]
                                      /\ UNCHANGED pressed
  /\ UNCHANGED <<g_devices, slotOf, busy, out, pipe, reader>>

\* hid_value_callback up to its first write().
hid_value_callback(s) ==
  /\ out = <<>> /\ queue[s] # <<>>
  /\ LET e == Head(queue[s])[1]
         v == Head(queue[s])[2]
     IN /\ out' = Translated(g_devices[s].kind, e, v)
        /\ g_devices' = [g_devices EXCEPT ![s] = Tracked(@, e, v)]
  /\ busy' = s
  /\ queue' = [queue EXCEPT ![s] = Tail(@)]
  /\ UNCHANGED <<hidvars, pipe, reader>>

\* Mutant of CanWrite: the whole frame has to fit.
CanWriteFrame == Len(pipe[busy]) + Len(out) <= Capacity
CanWrite      == Len(pipe[busy]) < Capacity

\* One write() of write_event: an event is shorter than PIPE_BUF, so it goes in whole.
write_event ==
  /\ out # <<>> /\ CanWrite
  /\ pipe' = [pipe EXCEPT ![busy] = Append(@, Head(out))]
  /\ out' = Tail(out)
  /\ UNCHANGED <<g_devices, hidvars, queue, busy, reader>>

\* At EV_SYN the reader acts on the frame.
Acted(r) ==
  LET vals(c) == {e.val : e \in {f \in r.frame : f.code = c}}
      codes(v) == {e.code : e \in {f \in r.frame : f.type = "EV_KEY" /\ f.val = v}}
  IN [down  |-> (r.down \cup codes(1)) \ codes(0),
      slot  |-> IF vals("ABS_MT_SLOT") # {} THEN CHOOSE v \in vals("ABS_MT_SLOT") : TRUE ELSE r.slot,
      x     |-> IF vals("ABS_MT_POSITION_X") # {}
                  THEN [r.x EXCEPT ![r.slot] = CHOOSE v \in vals("ABS_MT_POSITION_X") : TRUE]
                  ELSE r.x,
      frame |-> {}]

\* What the reader knows after one more event.
Reads(r, e) == IF e = Syn THEN Acted(r) ELSE [r EXCEPT !.frame = @ \cup {e}]

ReadEvent(s) ==
  /\ s \in ReadSlots /\ pipe[s] # <<>>
  /\ pipe' = [pipe EXCEPT ![s] = Tail(@)]
  /\ reader' = [reader EXCEPT ![s] = Reads(@, Head(pipe[s]))]
  /\ UNCHANGED <<g_devices, hidvars, queue, busy, out>>

Next == \/ \E d \in Hids : device_added(d) \/ Unplug(d) \/ Report(d)
        \/ \E s \in Slots : hid_value_callback(s) \/ ReadEvent(s)
        \/ write_event

Spec == Init /\ [][Next]_vars

\* write() returns when there is room, the run loop gets round to every device again
\* and again, and readers read.  Nobody has to plug in or press anything.
FairSpec == /\ Spec
            /\ WF_vars(write_event)
            /\ \A s \in Slots : SF_vars(hid_value_callback(s)) /\ WF_vars(ReadEvent(s))
-----------------------------------------------------------------------------
(* Properties.                                                              *)

Codes == {"KEY_A", "KEY_LEFTMETA", "BTN_LEFT", "BTN_MIDDLE", "BTN_TOUCH"}

TypeOK ==
  /\ Len(g_devices) <= MaxDevices
  /\ \A s \in 1..Len(g_devices) :
       /\ g_devices[s].mt_slot \in 0..(NumContacts - 1)
       /\ g_devices[s].mt_x \in [0..(NumContacts - 1) -> Positions]
  /\ slotOf \in [Hids -> 0..Len(g_devices)]
  /\ \A s \in Slots : Len(queue[s]) <= 1 /\ Len(pipe[s]) <= Capacity
  /\ busy \in 0..Len(g_devices) /\ Len(out) <= 3
  /\ \A s \in Slots : /\ reader[s].down \subseteq Codes
                      /\ reader[s].slot \in 0..(NumContacts - 1)

\* The device of a slot is still there, and nothing of it is on its way.  One that was
\* unplugged leaves its keys as they were: the bridge never hears that it is gone.
AtRest(s) == s \in Range(slotOf) /\ queue[s] = <<>> /\ pipe[s] = <<>> /\ (busy = s => out = <<>>)

\* No key sticks and none is lost.  When nothing is on its way, every key the reader
\* holds for pressed is pressed, and every pressed key that has a code of its own is
\* held for pressed: blocked writes, other devices and unplugging change nothing.
\* (Globe and the left Super key share a code, and so do the buttons from 3 on: of two
\* that are held the first to be released releases both.)
KeysAgree ==
  \A s \in ReadSlots \cap DOMAIN g_devices : AtRest(s) =>
    /\ reader[s].down \subseteq {Code(e) : e \in pressed[s]}
    /\ \A e \in pressed[s] :
         (\A f \in Switches(g_devices[s].kind) : Code(f) = Code(e) => f = e)
           => Code(e) \in reader[s].down \cup {"KEY_UNKNOWN"}

\* When nothing is on its way the reader has acted on everything, except on motion
\* that no button followed: nothing else ends the frame of a motion.
FramedAtRest ==
  \A s \in ReadSlots : AtRest(s) => \A e \in reader[s].frame : e.type = "EV_REL"

\* When nothing is on its way, bridge and reader agree which contact is being
\* reported and where each contact is.
ContactsAgree ==
  \A s \in ReadSlots \cap DOMAIN g_devices : AtRest(s) =>
    reader[s].slot = g_devices[s].mt_slot /\ reader[s].x = g_devices[s].mt_x

\* When nothing is on its way, the reader's picture of a device is right in all three
\* respects.
ReaderAgrees == KeysAgree /\ FramedAtRest /\ ContactsAgree

\* The thread waits for a pipe nobody reads.
Stalled == out # <<>> /\ Len(pipe[busy]) = Capacity /\ busy \notin ReadSlots

\* Every value is delivered, whatever pipes fill up, unless the thread waits for a
\* pipe that nobody reads: that stops all devices for good.
Delivered == \A s \in Slots : queue[s] # <<>> ~> (queue[s] = <<>> \/ Stalled)
=============================================================================
