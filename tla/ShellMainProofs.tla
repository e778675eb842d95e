-------------------------- MODULE ShellMainProofs --------------------------
(***************************************************************************)
(* What holds of the shell's main program for any outputs, and however     *)
(* many events wait on the wire.                                           *)
(*                                                                         *)
(* Every step takes at most one event from the front of the wire and adds  *)
(* at most two at its end.  The lemmas of the first part say what that     *)
(* does to the wire, and the invariant speaks of what is due on it: the    *)
(* dimensions of every output that are not known yet, in time for the      *)
(* visit of that output, and the capabilities of the seat.                 *)
(***************************************************************************)
EXTENDS ShellMain, SequenceTheorems, FiniteSetTheorems, TLAPS

-----------------------------------------------------------------------------
(* The invariant.                                                           *)

\* What the compositor sends.
Events == [kind : {"globals"}, arg : SUBSET Required]
          \cup [kind : {"seat", "done"}, arg : {0}]
          \cup [kind : {"output", "mode", "scale", "removed"}, arg : Outputs]
          \cup [kind : {"caps"}, arg : BOOLEAN]
          \cup [kind : {"key"}, arg : {"super", "esc"}]

\* What is known of an output.
Infos == [out : Outputs, width : 0..1, scale : 1..2]

\* The outputs of the list.
Names == {outputs[i].out : i \in DOMAIN outputs}

\* The globals are announced once, at the beginning; an output is announced while it is
\* not in the list, and not twice; one round trip at most is under way.
WireInv ==
  /\ wire \in Seq(Events)
  /\ \A i \in DOMAIN wire : wire[i].kind = "globals" => i = 1 /\ at = "trip" /\ trips = 2
  /\ \A i, j \in DOMAIN wire : wire[i].kind = "output" /\ wire[j] = wire[i] => i = j
  /\ \A i \in DOMAIN wire : wire[i].kind = "output" => wire[i].arg \notin Names
  /\ \A i, j \in DOMAIN wire : wire[i].kind = "done" /\ wire[j].kind = "done" => i = j
  /\ \A i \in DOMAIN wire : wire[i].kind = "done" => at \in {"trip", "visit"}

\* The outputs are listed once, and those still to be visited are listed.
ListInv ==
  /\ outputs \in Seq(Infos)
  /\ \A i, j \in DOMAIN outputs : outputs[i].out = outputs[j].out => i = j
  /\ todo \in Seq(Outputs) /\ \A i \in DOMAIN todo : todo[i] \in Names
  /\ at = "visit" => todo # <<>>

\* Main has all globals when it goes on to the outputs, and makes no panel before.
MainInv ==
  /\ at \in {"trip", "outputs", "visit", "loop", "handled", "ended"} /\ trips \in 1..2
  /\ bound \subseteq Required
  /\ panels \in [Outputs -> 0..MaxPanels]
  /\ at \in {"outputs", "visit", "loop", "handled"} => bound = Required
  /\ at = "trip" => \A o \in Outputs : panels[o] = 0
  /\ (\E o \in Outputs : panels[o] > 0) => bound = Required

\* The flags and the sets nothing of the shell depends on.
FlagInv ==
  /\ keyboard \in {"none", "live", "inert"}
  /\ launcher_visible \in BOOLEAN /\ tick \in BOOLEAN /\ broken \in BOOLEAN
  /\ seatKb \in BOOLEAN /\ replugged \in BOOLEAN /\ strict \in BOOLEAN
  /\ plugged \subseteq Outputs /\ memory \subseteq Outputs

\* An event is on the wire, and one is handled before the round trip ends.
Due(e)    == \E k \in DOMAIN wire : wire[k] = e
InTime(e) == \E k \in DOMAIN wire : wire[k] = e /\ \A j \in 1..k : wire[j].kind # "done"

\* Width and scale of an output are known or on their way.
SizeDue(r)    == /\ r.width = 1 \/ Due(Event("mode", r.out))
                 /\ r.scale = 1 \/ Due(Event("scale", r.out))
SizeInTime(r) == /\ r.width = 1 \/ InTime(Event("mode", r.out))
                 /\ r.scale = 1 \/ InTime(Event("scale", r.out))
SizeInv ==
  ~broken => \A i \in DOMAIN outputs :
    /\ SizeDue(outputs[i])
    /\ at = "visit" /\ outputs[i].out = Head(todo) => SizeInTime(outputs[i])

\* As long as the seat has not lost its keyboard the shell has it or will hear of it.
KeyInv ==
  ~replugged /\ ~broken =>
    /\ keyboard # "inert"
    /\ seatKb => keyboard = "live" \/ Due(Event("seat", 0)) \/ Due(Event("caps", TRUE))
    /\ ~seatKb => ~Due(Event("caps", TRUE))

\* The inductive invariant.
Inv == WireInv /\ ListInv /\ MainInv /\ FlagInv /\ SizeInv /\ KeyInv

-----------------------------------------------------------------------------
(* The wire.                                                                *)

\* A step takes d events from the wire and adds those of b.
Moves(d, b) == /\ d \in 0..1 /\ b \in Seq(Events) /\ d <= Len(wire)
               /\ wire' = (IF d = 0 THEN wire ELSE Tail(wire)) \o b

\* What is on the wire after that.
LEMMA MoveFacts ==
  ASSUME wire \in Seq(Events), NEW d, NEW b, Moves(d, b)
  PROVE  /\ wire' \in Seq(Events) /\ Len(wire') = Len(wire) - d + Len(b)
         /\ \A i \in DOMAIN wire' : \/ i + d \in DOMAIN wire /\ wire'[i] = wire[i + d]
                                    \/ \E j \in DOMAIN b : i = Len(wire) - d + j /\ wire'[i] = b[j]
         /\ \A i \in DOMAIN wire : i > d => i - d \in DOMAIN wire' /\ wire'[i - d] = wire[i]
         /\ \A j \in DOMAIN b : \E i \in DOMAIN wire' : wire'[i] = b[j]
<1>1. PICK w : w = IF d = 0 THEN wire ELSE Tail(wire)
  OBVIOUS
<1>2. d \in 0..1 /\ b \in Seq(Events) /\ d <= Len(wire) /\ wire' = w \o b
  BY <1>1 DEF Moves
<1>3. PICK n \in Nat, m \in Nat : n = Len(wire) /\ m = Len(b)
  BY <1>2, LenProperties
<1>4. DOMAIN wire = 1..n /\ DOMAIN b = 1..m
  BY <1>2, <1>3, LenProperties
<1>5. w \in Seq(Events) /\ Len(w) = n - d /\ \A i \in 1..(n - d) : w[i] = wire[i + d]
  <2>1. CASE d = 0
    BY <1>1, <1>3, <2>1
  <2>2. CASE d = 1
    <3>1. wire # <<>> /\ w = Tail(wire)
      BY <1>1, <1>2, <2>2
    <3>2. QED
      BY <1>3, <2>2, <3>1
  <2>3. QED
    BY <1>2, <2>1, <2>2
<1>6. /\ w \o b \in Seq(Events) /\ Len(w \o b) = n - d + m
      /\ \A i \in 1..(n - d + m) : (w \o b)[i] = IF i <= n - d THEN w[i] ELSE b[i - (n - d)]
  <2>1. w \in Seq(Events) /\ b \in Seq(Events)
    BY <1>2, <1>5
  <2>2. /\ w \o b \in Seq(Events) /\ Len(w \o b) = Len(w) + Len(b)
        /\ \A i \in 1..(Len(w) + Len(b)) :
             (w \o b)[i] = IF i <= Len(w) THEN w[i] ELSE b[i - Len(w)]
    BY ONLY <2>1, ConcatProperties
  <2>3. Len(w) = n - d /\ Len(b) = m
    BY <1>3, <1>5
  <2>4. QED
    BY ONLY <2>2, <2>3
<1>7. /\ wire' \in Seq(Events) /\ DOMAIN wire' = 1..(n - d + m) /\ Len(wire') = n - d + m
      /\ \A i \in 1..(n - d + m) : wire'[i] = IF i <= n - d THEN wire[i + d] ELSE b[i - (n - d)]
  BY <1>2, <1>3, <1>5, <1>6, LenProperties
<1>8. n - d \in Nat /\ d \in 0..1
  BY <1>2, <1>3
<1>9. ASSUME NEW i \in DOMAIN wire'
      PROVE  \/ i + d \in DOMAIN wire /\ wire'[i] = wire[i + d]
             \/ \E j \in DOMAIN b : i = Len(wire) - d + j /\ wire'[i] = b[j]
  <2>1. CASE i <= n - d
    <3>1. i + d \in 1..n
      BY <1>7, <1>8, <2>1
    <3>2. QED
      BY <1>4, <1>7, <2>1, <3>1
  <2>2. CASE ~(i <= n - d)
    <3>1. i - (n - d) \in 1..m /\ i = n - d + (i - (n - d))
      BY <1>7, <1>8, <2>2
    <3>2. wire'[i] = b[i - (n - d)]
      BY <1>7, <2>2
    <3>3. QED
      BY <1>3, <1>4, <3>1, <3>2
  <2>3. QED
    BY <2>1, <2>2
<1>10. ASSUME NEW i \in DOMAIN wire, i > d PROVE i - d \in DOMAIN wire' /\ wire'[i - d] = wire[i]
  <2>1. i - d \in 1..(n - d + m) /\ i - d <= n - d /\ i - d + d = i
    BY <1>4, <1>8, <1>10
  <2>2. QED
    BY <1>7, <2>1
<1>11. ASSUME NEW j \in DOMAIN b PROVE \E i \in DOMAIN wire' : wire'[i] = b[j]
  <2>1. PICK i : i = n - d + j
    OBVIOUS
  <2>2. i \in 1..(n - d + m) /\ ~(i <= n - d) /\ i - (n - d) = j
    BY <1>4, <1>8, <2>1
  <2>3. QED
    BY <1>7, <2>2
<1>12. QED
  BY <1>3, <1>7, <1>9, <1>10, <1>11

\* What is due afterwards.
LEMMA DueFacts ==
  ASSUME wire \in Seq(Events), NEW d, NEW b, Moves(d, b), NEW e
  PROVE  /\ Due(e) /\ (d = 1 => e # wire[1]) => Due(e)'
         /\ InTime(e) /\ (d = 1 => e # wire[1]) => InTime(e)'
         /\ \A j \in DOMAIN b : Due(b[j])'
         /\ Due(e)' => Due(e) \/ \E j \in DOMAIN b : b[j] = e
<1>1. /\ \A i \in DOMAIN wire : i > d => i - d \in DOMAIN wire' /\ wire'[i - d] = wire[i]
      /\ d \in 0..1 /\ wire \in Seq(Events) /\ DOMAIN wire = 1..Len(wire) /\ Len(wire) \in Nat
      /\ wire' \in Seq(Events) /\ DOMAIN wire' = 1..Len(wire') /\ Len(wire') \in Nat
  BY MoveFacts DEF Moves
<1>2. ASSUME Due(e), d = 1 => e # wire[1] PROVE Due(e)'
  <2>1. PICK k \in DOMAIN wire : wire[k] = e
    BY <1>2 DEF Due
  <2>2. k > d
    BY <1>1, <1>2, <2>1
  <2>3. QED
    BY <1>1, <2>1, <2>2 DEF Due
<1>3. ASSUME InTime(e), d = 1 => e # wire[1] PROVE InTime(e)'
  <2>1. PICK k \in DOMAIN wire : wire[k] = e /\ \A j \in 1..k : wire[j].kind # "done"
    BY <1>3 DEF InTime
  <2>2. k > d
    BY <1>1, <1>3, <2>1
  <2>3. ASSUME NEW j \in 1..(k - d) PROVE wire'[j].kind # "done"
    <3>1. j + d \in 1..k /\ j + d \in DOMAIN wire /\ j + d > d /\ j + d - d = j
      BY <1>1, <2>3
    <3>2. wire'[j] = wire[j + d]
      BY <1>1, <3>1
    <3>3. QED
      BY <2>1, <3>1, <3>2
  <2>4. k - d \in DOMAIN wire' /\ wire'[k - d] = e
    BY <1>1, <2>1, <2>2
  <2>5. QED
    BY <2>3, <2>4 DEF InTime
<1>4. \A j \in DOMAIN b : Due(b[j])'
  BY MoveFacts DEF Due
<1>5. ASSUME Due(e)' PROVE Due(e) \/ \E j \in DOMAIN b : b[j] = e
  BY <1>5, MoveFacts DEF Due
<1>6. QED
  BY <1>2, <1>3, <1>4, <1>5

\* When a step keeps the invariant of the wire.
LEMMA WireKept ==
  ASSUME WireInv, NEW d, NEW b, Moves(d, b),
         \A j \in DOMAIN b : b[j].kind # "globals",
         d = 1 \/ UNCHANGED <<at, trips>> \/ \A i \in DOMAIN wire : wire[i].kind # "globals",
         \A j \in DOMAIN b : b[j].kind = "output" =>
           b = <<b[j]>> /\ ~Due(b[j]) /\ b[j].arg \notin Names',
         \A i \in DOMAIN wire : i > d /\ wire[i].kind = "output" => wire[i].arg \notin Names',
         \A j \in DOMAIN b : b[j].kind = "done" =>
           /\ b = <<b[j]>> /\ at' \in {"trip", "visit"}
           /\ \A i \in DOMAIN wire : i > d => wire[i].kind # "done",
         \/ at \in {"trip", "visit"} /\ at' = at
         \/ \A i \in DOMAIN wire : i > d => wire[i].kind # "done"
  PROVE  WireInv'
<1>1. /\ wire \in Seq(Events) /\ wire' \in Seq(Events)
      /\ d \in 0..1 /\ b \in Seq(Events) /\ DOMAIN wire = 1..Len(wire) /\ Len(wire) \in Nat
      /\ DOMAIN wire' = 1..Len(wire') /\ Len(wire') \in Nat /\ DOMAIN b = 1..Len(b) /\ Len(b) \in Nat
      /\ d <= Len(wire)
  BY MoveFacts DEF Moves, WireInv
<1>2. \A i \in DOMAIN wire' :
        \/ i + d \in DOMAIN wire /\ i + d > d /\ wire'[i] = wire[i + d]
        \/ \E j \in DOMAIN b : i = Len(wire) - d + j /\ wire'[i] = b[j]
  <2>1. \A i \in DOMAIN wire' : \/ i + d \in DOMAIN wire /\ wire'[i] = wire[i + d]
                                \/ \E j \in DOMAIN b : i = Len(wire) - d + j /\ wire'[i] = b[j]
    BY MoveFacts DEF WireInv
  <2>2. \A i \in DOMAIN wire' : i + d > d
    BY <1>1
  <2>3. QED
    BY <2>1, <2>2
<1>3. ASSUME NEW i \in DOMAIN wire', wire'[i].kind = "globals"
      PROVE  i = 1 /\ at' = "trip" /\ trips' = 2
  <2>1. i + d \in DOMAIN wire /\ wire[i + d].kind = "globals"
    BY <1>2, <1>3
  <2>2. i + d = 1 /\ at = "trip" /\ trips = 2
    BY <2>1 DEF WireInv
  <2>3. i = 1 /\ d = 0
    BY <1>1, <2>2
  <2>4. QED
    BY <2>1, <2>2, <2>3
<1>4. ASSUME NEW i \in DOMAIN wire', wire'[i].kind = "output"
      PROVE  wire'[i].arg \notin Names' /\ \A j \in DOMAIN wire' : wire'[j] = wire'[i] => i = j
  <2>1. CASE i + d \in DOMAIN wire /\ i + d > d /\ wire'[i] = wire[i + d]
    <3>1. wire'[i].arg \notin Names'
      <4>1. wire[i + d].kind = "output" /\ i + d \in DOMAIN wire /\ i + d > d
        BY <1>4, <2>1
      <4>2. wire[i + d].arg \notin Names'
        BY <4>1
      <4>3. QED
        BY <2>1, <4>2
    <3>2. ASSUME NEW j \in DOMAIN wire', wire'[j] = wire'[i] PROVE i = j
      <4>1. CASE j + d \in DOMAIN wire /\ wire'[j] = wire[j + d]
        <5>1. i + d = j + d
          BY <1>4, <2>1, <3>2, <4>1 DEF WireInv
        <5>2. QED
          BY <1>1, <5>1
      <4>2. ASSUME NEW l \in DOMAIN b, wire'[j] = b[l] PROVE FALSE
        <5>1. b[l].kind = "output" /\ Due(b[l])
          BY <1>4, <2>1, <3>2, <4>2 DEF Due
        <5>2. QED
          BY <5>1
      <4>3. QED
        BY <1>2, <4>1, <4>2
    <3>3. QED
      BY <3>1, <3>2
  <2>2. ASSUME NEW l \in DOMAIN b, i = Len(wire) - d + l, wire'[i] = b[l]
        PROVE  wire'[i].arg \notin Names' /\ \A j \in DOMAIN wire' : wire'[j] = wire'[i] => i = j
    <3>1. b = <<b[l]>> /\ ~Due(b[l]) /\ b[l].arg \notin Names'
      BY <1>4, <2>2
    <3>2. ASSUME NEW j \in DOMAIN wire', wire'[j] = wire'[i] PROVE i = j
      <4>1. ~(j + d \in DOMAIN wire /\ wire'[j] = wire[j + d])
        BY <2>2, <3>1, <3>2 DEF Due
      <4>2. PICK m \in DOMAIN b : j = Len(wire) - d + m
        BY <1>2, <4>1
      <4>3. m = l
        <5>1. Len(b) = 1
          BY <3>1
        <5>2. QED
          BY <1>1, <5>1
      <4>4. QED
        BY <2>2, <4>2, <4>3
    <3>3. QED
      BY <2>2, <3>1, <3>2
  <2>3. CASE \E l \in DOMAIN b : i = Len(wire) - d + l /\ wire'[i] = b[l]
    <3>1. PICK l \in DOMAIN b : i = Len(wire) - d + l /\ wire'[i] = b[l]
      BY <2>3
    <3>2. QED
      BY <2>2, <3>1, Zenon
  <2>4. QED
    BY <1>2, <2>1, <2>3, Zenon
<1>5. ASSUME NEW i \in DOMAIN wire', wire'[i].kind = "done" PROVE at' \in {"trip", "visit"}
  <2>1. CASE i + d \in DOMAIN wire /\ i + d > d /\ wire'[i] = wire[i + d]
    BY <1>5, <2>1
  <2>2. ASSUME NEW l \in DOMAIN b, wire'[i] = b[l] PROVE at' \in {"trip", "visit"}
    BY <1>5, <2>2
  <2>3. QED
    BY <1>2, <2>1, <2>2
<1>6. ASSUME NEW i \in DOMAIN wire', NEW j \in DOMAIN wire',
             wire'[i].kind = "done", wire'[j].kind = "done"
      PROVE  i = j
  <2>1. CASE \E l \in DOMAIN b : b[l].kind = "done"
    <3>1. PICK l \in DOMAIN b : b[l].kind = "done"
      BY <2>1
    <3>2. Len(b) = 1 /\ \A k \in DOMAIN wire : k > d => wire[k].kind # "done"
      BY <3>1
    <3>3. /\ \E m \in DOMAIN b : i = Len(wire) - d + m
          /\ \E m \in DOMAIN b : j = Len(wire) - d + m
      BY <1>2, <1>6, <3>2
    <3>4. \A m \in DOMAIN b : m = 1
      BY <1>1, <3>2
    <3>5. QED
      BY <3>3, <3>4
  <2>2. CASE \A l \in DOMAIN b : b[l].kind # "done"
    <3>1. /\ i + d \in DOMAIN wire /\ wire[i + d].kind = "done"
          /\ j + d \in DOMAIN wire /\ wire[j + d].kind = "done"
      BY <1>2, <1>6, <2>2
    <3>2. i + d = j + d
      BY <3>1 DEF WireInv
    <3>3. QED
      BY <1>1, <3>2
  <2>3. QED
    BY <2>1, <2>2
<1>7. /\ \A i \in DOMAIN wire' : wire'[i].kind = "globals" => i = 1 /\ at' = "trip" /\ trips' = 2
      /\ \A i, j \in DOMAIN wire' : wire'[i].kind = "output" /\ wire'[j] = wire'[i] => i = j
      /\ \A i \in DOMAIN wire' : wire'[i].kind = "output" => wire'[i].arg \notin Names'
  BY <1>3, <1>4
<1>8. QED
  BY <1>1, <1>5, <1>6, <1>7, Zenon DEF WireInv

-----------------------------------------------------------------------------
(* The compositor sends.                                                    *)

\* Facts about events.
LEMMA EventFacts ==
  /\ \A o \in Outputs : /\ Event("output", o) \in Events /\ Event("removed", o) \in Events
                        /\ Event("mode", o) \in Events /\ Event("scale", o) \in Events
  /\ \A b \in BOOLEAN : Event("caps", b) \in Events
  /\ \A k \in {"super", "esc"} : Event("key", k) \in Events
  /\ Event("done", 0) \in Events /\ Event("seat", 0) \in Events
  /\ \A S \in SUBSET Required : Event("globals", S) \in Events
  /\ \A k, a : Event(k, a).kind = k /\ Event(k, a).arg = a
  /\ \A e \in Events : e = Event(e.kind, e.arg)
  BY DEF Event, Events

\* One more event, which is not one that ends a round trip.
LEMMA SendMoves ==
  ASSUME WireInv, NEW e \in Events, Send(e)
  PROVE  ~broken /\ Moves(0, <<e>>)
<1>1. wire \in Seq(Events) /\ ~broken /\ wire' = Append(wire, e)
  BY DEF WireInv, Send
<1>2. wire' = wire \o <<e>> /\ Len(wire) \in Nat /\ <<e>> \in Seq(Events)
  BY <1>1
<1>3. QED
  BY <1>1, <1>2 DEF Moves

\* It leaves what the wire, the list and the sizes promise as it is.
LEMMA SendInv ==
  ASSUME Inv, NEW e \in Events, Send(e), e.kind \notin {"globals", "done"},
         e.kind = "output" => ~Due(e) /\ e.arg \notin Names,
         UNCHANGED <<at, trips, outputs, todo, bound, panels, broken>>
  PROVE  WireInv' /\ ListInv' /\ SizeInv' /\ MainInv' /\ Moves(0, <<e>>)
<1>1. Moves(0, <<e>>) /\ ~broken /\ wire \in Seq(Events)
  BY SendMoves DEF Inv, WireInv
<1>2. PICK b : b = <<e>>
  OBVIOUS
<1>3. DOMAIN b = {1} /\ b[1] = e /\ Moves(0, b)
  BY <1>1, <1>2
<1>4. Names' = Names
  BY DEF Names
<1>5. \A i \in DOMAIN wire : wire[i].kind = "output" => wire[i].arg \notin Names'
  BY <1>4 DEF Inv, WireInv
<1>6. at \in {"trip", "visit"} \/ \A i \in DOMAIN wire : wire[i].kind # "done"
  BY DEF Inv, WireInv
<1>7. \A j \in DOMAIN b : /\ b[j].kind # "globals" /\ b[j].kind # "done"
                          /\ b[j].kind = "output" =>
                               b = <<b[j]>> /\ ~Due(b[j]) /\ b[j].arg \notin Names'
  BY <1>2, <1>3, <1>4
<1>8. WireInv'
  BY <1>3, <1>5, <1>6, <1>7, WireKept DEF Inv
<1>9. ListInv' /\ MainInv'
  BY <1>4 DEF Inv, ListInv, MainInv
<1>10. \A r : (SizeDue(r) => SizeDue(r)') /\ (SizeInTime(r) => SizeInTime(r)')
  <2>1. \A f : (Due(f) => Due(f)') /\ (InTime(f) => InTime(f)')
    BY <1>1, <1>3, DueFacts
  <2>2. QED
    BY <2>1 DEF SizeDue, SizeInTime
<1>11. SizeInv'
  BY <1>10 DEF Inv, SizeInv
<1>12. QED
  BY <1>1, <1>8, <1>9, <1>11

\* The compositor plugs in an output, takes one away, or a key is pressed.
LEMMA OutputsComeInv ==
  ASSUME Inv,
         (\E o \in Outputs : Plug(o) \/ Unplug(o)) \/ (\E k \in {"super", "esc"} : Key(k))
  PROVE  Inv'
<1>1. PICK e \in Events :
        /\ Send(e) /\ e.kind \in {"output", "removed", "key"}
        /\ e.kind = "output" => ~Due(e) /\ e.arg \notin Names
        /\ UNCHANGED <<client, broken, seatKb, replugged, choices>> /\ plugged' \subseteq Outputs
  <2>1. ASSUME NEW o \in Outputs, Plug(o)
        PROVE  LET e == Event("output", o) IN
               /\ e \in Events /\ Send(e) /\ e.kind = "output" /\ ~Due(e) /\ e.arg \notin Names
               /\ UNCHANGED <<client, broken, seatKb, replugged, choices>> /\ plugged' \subseteq Outputs
    <3>1. ~Due(Event("output", o))
      BY <2>1 DEF Plug, Due, Range
    <3>2. o \notin Names
      BY <2>1 DEF Plug, Names
    <3>3. QED
      BY <2>1, <3>1, <3>2, EventFacts DEF Plug, Inv, FlagInv
  <2>2. ASSUME NEW o \in Outputs, Unplug(o)
        PROVE  LET e == Event("removed", o) IN
               /\ e \in Events /\ Send(e) /\ e.kind = "removed"
               /\ UNCHANGED <<client, broken, seatKb, replugged, choices>> /\ plugged' \subseteq Outputs
    BY <2>2, EventFacts DEF Unplug, Inv, FlagInv
  <2>3. ASSUME NEW k \in {"super", "esc"}, Key(k)
        PROVE  LET e == Event("key", k) IN
               /\ e \in Events /\ Send(e) /\ e.kind = "key"
               /\ UNCHANGED <<client, broken, seatKb, replugged, choices>> /\ plugged' \subseteq Outputs
    BY <2>3, EventFacts DEF Key, server, Inv, FlagInv
  <2>4. QED
    BY <2>1, <2>2, <2>3
<1>2. UNCHANGED <<at, trips, bound, outputs, keyboard, launcher_visible, todo, tick, panels, broken,
                  seatKb, replugged, strict, memory>>
  BY <1>1 DEF client, seen, choices
<1>3. WireInv' /\ ListInv' /\ SizeInv' /\ MainInv' /\ Moves(0, <<e>>)
  BY <1>1, <1>2, SendInv
<1>4. FlagInv'
  BY <1>1, <1>2 DEF Inv, FlagInv
<1>5. KeyInv'
  <2>1. wire \in Seq(Events) /\ DOMAIN <<e>> = {1} /\ <<e>>[1] = e
    BY DEF Inv, WireInv
  <2>2. \A f : Due(f) => Due(f)'
    BY <1>3, <2>1, DueFacts
  <2>3. e # Event("caps", TRUE)
    <3>1. Event("caps", TRUE).kind = "caps"
      BY EventFacts, Zenon
    <3>2. e.kind # "caps"
      BY <1>1
    <3>3. QED
      BY <3>1, <3>2
  <2>4. Due(Event("caps", TRUE))' => Due(Event("caps", TRUE))
    BY <1>3, <2>1, <2>3, DueFacts
  <2>5. QED
    BY <1>2, <2>2, <2>4 DEF Inv, KeyInv
<1>6. QED
  BY <1>3, <1>4, <1>5 DEF Inv

\* The seat gets a keyboard, which the shell will hear of, or loses it.
LEMMA SeatInv == ASSUME Inv, SeatChanges PROVE Inv'
<1>1. PICK e : e = Event("caps", ~seatKb)
  OBVIOUS
<1>2. /\ Send(e) /\ seatKb' = ~seatKb
      /\ keyboard' = IF seatKb /\ keyboard = "live" THEN "inert" ELSE keyboard
      /\ replugged' = (replugged \/ seatKb)
      /\ UNCHANGED <<at, trips, bound, outputs, launcher_visible, todo, tick, panels,
                     broken, plugged, strict, memory>>
  BY <1>1 DEF SeatChanges, choices
<1>3. e \in Events /\ e.kind = "caps"
  BY <1>1, EventFacts DEF Inv, FlagInv
<1>4. WireInv' /\ ListInv' /\ SizeInv' /\ MainInv' /\ Moves(0, <<e>>)
  BY <1>2, <1>3, SendInv
<1>5. FlagInv'
  BY <1>2 DEF Inv, FlagInv
<1>6. KeyInv'
  <2>1. SUFFICES ASSUME ~replugged', ~broken' PROVE
          /\ keyboard' # "inert"
          /\ seatKb' => Due(Event("caps", TRUE))'
          /\ ~seatKb' => FALSE
    BY DEF KeyInv
  <2>2. ~replugged /\ ~broken /\ ~seatKb /\ keyboard # "inert" /\ e = Event("caps", TRUE)
    BY <1>1, <1>2, <2>1 DEF Inv, KeyInv, FlagInv
  <2>3. wire \in Seq(Events) /\ DOMAIN <<e>> = {1} /\ <<e>>[1] = e
    BY DEF Inv, WireInv
  <2>4. Due(<<e>>[1])'
    BY <1>4, <2>3, DueFacts
  <2>5. QED
    BY <1>2, <2>2, <2>3, <2>4
<1>7. QED
  BY <1>4, <1>5, <1>6 DEF Inv

\* The connection breaks, or a second passes.
LEMMA OutsideInv == ASSUME Inv, Hangup \/ SecondPasses \/ UNCHANGED vars PROVE Inv'
<1>1. /\ UNCHANGED <<at, trips, bound, outputs, keyboard, launcher_visible, todo, panels, wire,
                     plugged, seatKb, replugged, strict, memory>>
      /\ UNCHANGED broken \/ broken' = TRUE
      /\ UNCHANGED tick \/ tick' = TRUE
  BY DEF Hangup, SecondPasses, vars, client, seen, server, choices
<1>2. Names' = Names /\ \A f : (Due(f)' <=> Due(f)) /\ (InTime(f)' <=> InTime(f))
  BY <1>1 DEF Names, Due, InTime
<1>3. \A r : (SizeDue(r) => SizeDue(r)') /\ (SizeInTime(r) => SizeInTime(r)')
  BY <1>2 DEF SizeDue, SizeInTime
<1>4. WireInv'
  BY <1>1, <1>2 DEF Inv, WireInv
<1>5. ListInv' /\ MainInv'
  BY <1>1, <1>2 DEF Inv, ListInv, MainInv
<1>6. FlagInv'
  BY <1>1 DEF Inv, FlagInv
<1>7. SizeInv'
  <2>1. CASE broken'
    BY <2>1 DEF SizeInv
  <2>2. CASE ~broken'
    BY <1>1, <1>3, <2>2 DEF Inv, SizeInv
  <2>3. QED
    BY <2>1, <2>2
<1>8. KeyInv'
  <2>1. CASE broken'
    BY <2>1 DEF KeyInv
  <2>2. CASE ~broken'
    <3>1. ~broken /\ UNCHANGED <<replugged, seatKb, keyboard>>
      BY <1>1, <2>2
    <3>2. /\ Due(Event("caps", TRUE))' <=> Due(Event("caps", TRUE))
          /\ Due(Event("seat", 0))' <=> Due(Event("seat", 0))
      BY <1>2, Zenon
    <3>3. QED
      BY <3>1, <3>2 DEF Inv, KeyInv
  <2>3. QED
    BY <2>1, <2>2
<1>9. QED
  BY <1>4, <1>5, <1>6, <1>7, <1>8 DEF Inv

-----------------------------------------------------------------------------
(* An event is handled.                                                     *)

\* What the compositor answers: the dimensions of an output, or the capabilities.
LEMMA AnswerFacts ==
  ASSUME NEW e \in Events, seatKb \in BOOLEAN
  PROVE  /\ Answer(e) \in Seq(Events)
         /\ \A j \in DOMAIN Answer(e) : Answer(e)[j].kind \in {"mode", "scale", "caps"}
         /\ e.kind = "output" => /\ \E j \in DOMAIN Answer(e) : Answer(e)[j] = Event("mode", e.arg)
                                 /\ \E j \in DOMAIN Answer(e) : Answer(e)[j] = Event("scale", e.arg)
         /\ e.kind = "seat" => \E j \in DOMAIN Answer(e) : Answer(e)[j] = Event("caps", seatKb)
         /\ ~seatKb => \A j \in DOMAIN Answer(e) : Answer(e)[j] # Event("caps", TRUE)
<1>1. CASE e.kind = "output"
  <2>1. PICK m, s : m = Event("mode", e.arg) /\ s = Event("scale", e.arg)
    OBVIOUS
  <2>2. Answer(e) = <<m, s>>
    BY <1>1, <2>1 DEF Answer
  <2>3. m \in Events /\ s \in Events /\ m.kind = "mode" /\ s.kind = "scale"
    BY <1>1, <2>1, EventFacts DEF Events
  <2>4. Event("caps", TRUE).kind = "caps"
    BY EventFacts, Zenon
  <2>5. /\ Answer(e) \in Seq(Events) /\ DOMAIN Answer(e) = {1, 2}
        /\ Answer(e)[1] = m /\ Answer(e)[2] = s
    BY <2>2, <2>3
  <2>6. m # Event("caps", TRUE) /\ s # Event("caps", TRUE)
    BY <2>3, <2>4
  <2>7. QED
    BY <1>1, <2>1, <2>3, <2>5, <2>6
<1>2. CASE e.kind = "seat"
  <2>1. PICK c : c = Event("caps", seatKb)
    OBVIOUS
  <2>2. Answer(e) = <<c>>
    BY <1>2, <2>1 DEF Answer
  <2>3. c \in Events /\ c.kind = "caps" /\ c.arg = seatKb
    BY <2>1, EventFacts
  <2>4. Event("caps", TRUE).arg = TRUE
    BY EventFacts, Zenon
  <2>5. Answer(e) \in Seq(Events) /\ DOMAIN Answer(e) = {1} /\ Answer(e)[1] = c
    BY <2>2, <2>3
  <2>6. ~seatKb => c # Event("caps", TRUE)
    BY <2>3, <2>4
  <2>7. QED
    BY <1>2, <2>1, <2>3, <2>5, <2>6
<1>3. CASE e.kind \notin {"output", "seat"}
  <2>1. Answer(e) = <<>>
    BY <1>3 DEF Answer
  <2>2. QED
    BY <1>3, <2>1
<1>4. QED
  BY <1>1, <1>2, <1>3

\* The list after an event: one output more, in front, or what is known of one.
LEMMA ListSteps ==
  ASSUME ListInv, NEW e \in Events, outputs' = ListAfter(e),
         e.kind = "output" => e.arg \notin Names
  PROVE  /\ outputs' \in Seq(Infos)
         /\ \A i, j \in DOMAIN outputs' : outputs'[i].out = outputs'[j].out => i = j
         /\ \A o : o \in Names' <=> o \in Names \/ (e.kind = "output" /\ o = e.arg)
         /\ \A i \in DOMAIN outputs' :
              \/ e.kind = "output" /\ outputs'[i] = NewOutput(e.arg)
              \/ \E j \in DOMAIN outputs : outputs'[i] = OutputAfter(outputs[j], e)
<1>1. /\ outputs \in Seq(Infos) /\ DOMAIN outputs = 1..Len(outputs) /\ Len(outputs) \in Nat
      /\ \A i \in DOMAIN outputs : outputs[i] \in Infos
  BY DEF ListInv
<1>2. \A r \in Infos : /\ OutputAfter(r, e) \in Infos /\ OutputAfter(r, e).out = r.out
                       /\ e.kind = "output" => OutputAfter(r, e) = r
  BY DEF OutputAfter, Infos, Event
<1>3. CASE e.kind = "output"
  <2>1. PICK n, f : n = NewOutput(e.arg) /\ f = <<n>>
    OBVIOUS
  <2>2. n \in Infos /\ n.out = e.arg
    BY <1>3, <2>1 DEF NewOutput, Known, Infos, Events
  <2>3. f \in Seq(Infos) /\ Len(f) = 1 /\ f[1] = n /\ outputs' = f \o outputs
    BY <1>3, <2>1, <2>2 DEF ListAfter
  <2>4. /\ f \o outputs \in Seq(Infos) /\ Len(f \o outputs) = Len(f) + Len(outputs)
        /\ \A i \in 1..(Len(f) + Len(outputs)) :
             (f \o outputs)[i] = IF i <= Len(f) THEN f[i] ELSE outputs[i - Len(f)]
    BY ONLY <1>1, <2>3, ConcatProperties
  <2>5. /\ outputs' \in Seq(Infos) /\ DOMAIN outputs' = 1..(1 + Len(outputs)) /\ outputs'[1] = n
        /\ \A i \in DOMAIN outputs' : i # 1 => i - 1 \in DOMAIN outputs /\ outputs'[i] = outputs[i - 1]
    BY <1>1, <2>3, <2>4
  <2>6. ASSUME NEW i \in DOMAIN outputs', NEW j \in DOMAIN outputs', outputs'[i].out = outputs'[j].out
        PROVE  i = j
    <3>1. \A k \in DOMAIN outputs : outputs[k].out # n.out
      BY <1>3, <2>2 DEF Names
    <3>2. CASE i # 1 /\ j # 1
      BY <1>1, <2>5, <2>6, <3>2 DEF ListInv
    <3>3. QED
      BY <2>5, <2>6, <3>1, <3>2
  <2>7. ASSUME NEW o PROVE o \in Names' <=> o \in Names \/ (e.kind = "output" /\ o = e.arg)
    <3>1. ASSUME NEW k \in DOMAIN outputs PROVE k + 1 \in DOMAIN outputs' /\ outputs'[k + 1] = outputs[k]
      <4>1. k + 1 \in DOMAIN outputs' /\ k + 1 # 1 /\ k + 1 - 1 = k
        BY <1>1, <2>5
      <4>2. QED
        BY <2>5, <4>1
    <3>2. ASSUME o \in Names PROVE o \in Names'
      BY <3>1, <3>2 DEF Names
    <3>3. 1 \in DOMAIN outputs'
      BY <1>1, <2>5
    <3>4. e.arg \in Names'
      BY <2>2, <2>5, <3>3 DEF Names
    <3>5. ASSUME o \in Names' PROVE o \in Names \/ o = e.arg
      <4>1. PICK i \in DOMAIN outputs' : outputs'[i].out = o
        BY <3>5 DEF Names
      <4>2. QED
        BY <2>2, <2>5, <4>1 DEF Names
    <3>6. QED
      BY <1>3, <3>2, <3>4, <3>5
  <2>8. \A i \in DOMAIN outputs' :
          outputs'[i] = n \/ \E j \in DOMAIN outputs : outputs'[i] = OutputAfter(outputs[j], e)
    <3>1. ASSUME NEW i \in DOMAIN outputs', i # 1
          PROVE  \E j \in DOMAIN outputs : outputs'[i] = OutputAfter(outputs[j], e)
      BY <1>1, <1>2, <1>3, <2>5, <3>1
    <3>2. QED
      BY <2>5, <3>1
  <2>9. QED
    BY <1>3, <2>1, <2>5, <2>6, <2>7, <2>8
<1>4. CASE e.kind # "output"
  <2>1. outputs' = [i \in DOMAIN outputs |-> OutputAfter(outputs[i], e)]
    BY <1>4 DEF ListAfter
  <2>2. DOMAIN outputs' = DOMAIN outputs
        /\ \A i \in DOMAIN outputs : /\ outputs'[i] = OutputAfter(outputs[i], e)
                                     /\ outputs'[i] \in Infos /\ outputs'[i].out = outputs[i].out
    BY <1>1, <1>2, <2>1
  <2>3. outputs' \in Seq(Infos)
    <3>1. outputs' = [i \in 1..Len(outputs) |-> OutputAfter(outputs[i], e)]
      BY <1>1, <2>1
    <3>2. QED
      BY <1>1, <1>2, <3>1
  <2>4. Names' = Names
    BY <2>2 DEF Names
  <2>5. \A i, j \in DOMAIN outputs' : outputs'[i].out = outputs'[j].out => i = j
    BY <2>2 DEF ListInv
  <2>6. QED
    BY <1>4, <2>2, <2>3, <2>4, <2>5
<1>5. QED
  BY <1>3, <1>4

\* What an event takes away from the wire is known of the output then.
LEMMA SizeStep ==
  ASSUME wire \in Seq(Events), NEW b, Moves(1, b), NEW e, e = wire[1],
         NEW r \in Infos, NEW q, q = OutputAfter(r, e)
  PROVE  /\ q.out = r.out
         /\ SizeDue(r) => SizeDue(q)'
         /\ SizeInTime(r) => SizeInTime(q)'
<1>1. e = wire[1]
  OBVIOUS
<1>2. q = OutputAfter(r, e)
  OBVIOUS
<1>3. q.out = r.out
  BY <1>2 DEF OutputAfter, Infos
<1>4. r.width = 1 \/ e = Event("mode", r.out) => q.width = 1
  BY <1>2 DEF OutputAfter, Infos, Event
<1>5. r.scale = 1 \/ e = Event("scale", r.out) => q.scale = 1
  BY <1>2 DEF OutputAfter, Infos, Event
<1>6. \A f : e # f => (Due(f) => Due(f)') /\ (InTime(f) => InTime(f)')
  BY <1>1, DueFacts
<1>7. SizeDue(r) => SizeDue(q)'
  BY <1>3, <1>4, <1>5, <1>6 DEF SizeDue
<1>8. SizeInTime(r) => SizeInTime(q)'
  BY <1>3, <1>4, <1>5, <1>6 DEF SizeInTime
<1>9. QED
  BY <1>3, <1>7, <1>8

\* One event is handled, in a round trip or in the main loop.
LEMMA HandleInv ==
  ASSUME Inv, Handle,
         \/ at \in {"trip", "visit"} /\ at' = at
         \/ at \in {"loop", "handled"} /\ at' = "handled"
  PROVE  Inv'
<1>1. PICK e, b : e = Head(wire) /\ b = IF broken THEN <<>> ELSE Answer(e)
  OBVIOUS
<1>2. /\ wire # <<>> /\ e.kind # "done" /\ wire' = Tail(wire) \o b
      /\ bound' = IF e.kind = "globals" THEN e.arg ELSE bound
      /\ outputs' = ListAfter(e) /\ keyboard' = KeyboardAfter(e)
      /\ launcher_visible' = VisibleAfter(e)
      /\ UNCHANGED <<trips, todo, tick, panels, broken, plugged, seatKb, replugged, strict, memory>>
  BY <1>1 DEF Handle, server, choices
<1>3. wire \in Seq(Events) /\ e \in Events /\ wire[1] = e /\ 1 \in DOMAIN wire /\ Len(wire) \in Nat
  BY <1>1, <1>2 DEF Inv, WireInv
<1>4. seatKb \in BOOLEAN /\ broken \in BOOLEAN
  BY DEF Inv, FlagInv
<1>5. b \in Seq(Events) /\ \A j \in DOMAIN b : b[j].kind \in {"mode", "scale", "caps"}
  <2>1. CASE broken
    BY <1>1, <2>1
  <2>2. CASE ~broken
    <3>1. b = Answer(e)
      BY <1>1, <2>2
    <3>2. QED
      BY <1>3, <1>4, <3>1, AnswerFacts
  <2>3. QED
    BY <2>1, <2>2
<1>6. Moves(1, b)
  BY <1>2, <1>3, <1>5 DEF Moves
<1>7. e.kind = "output" => e.arg \notin Names
  BY <1>3 DEF Inv, WireInv
<1>8. /\ outputs' \in Seq(Infos)
      /\ \A i, j \in DOMAIN outputs' : outputs'[i].out = outputs'[j].out => i = j
      /\ \A o : o \in Names' <=> o \in Names \/ (e.kind = "output" /\ o = e.arg)
      /\ \A i \in DOMAIN outputs' :
           \/ e.kind = "output" /\ outputs'[i] = NewOutput(e.arg)
           \/ \E j \in DOMAIN outputs : outputs'[i] = OutputAfter(outputs[j], e)
  BY <1>2, <1>3, <1>7, ListSteps DEF Inv
<1>9. WireInv'
  <2>1. ASSUME NEW i \in DOMAIN wire, i > 1, wire[i].kind = "output" PROVE wire[i].arg \notin Names'
    <3>1. wire[i].arg \notin Names /\ wire[i] # e
      BY <1>3, <2>1 DEF Inv, WireInv
    <3>2. wire[i] = Event(wire[i].kind, wire[i].arg) /\ e = Event(e.kind, e.arg)
      BY <1>3, <2>1, EventFacts
    <3>3. ~(e.kind = "output" /\ wire[i].arg = e.arg)
      BY <2>1, <3>1, <3>2
    <3>4. QED
      BY <1>8, <3>1, <3>3
  <2>2. at \in {"loop", "handled"} => \A i \in DOMAIN wire : wire[i].kind # "done"
    BY DEF Inv, WireInv
  <2>3. \A j \in DOMAIN b : b[j].kind \notin {"globals", "output", "done"}
    BY <1>5
  <2>4. QED
    BY <1>6, <2>1, <2>2, <2>3, WireKept DEF Inv
<1>10. ListInv'
  BY <1>2, <1>8 DEF Inv, ListInv
<1>11. MainInv'
  <2>1. e.kind = "globals" => at = "trip" /\ at' = "trip" /\ e.arg \subseteq Required
    BY <1>3 DEF Inv, WireInv, Events
  <2>2. CASE e.kind = "globals"
    <3>1. at = "trip" /\ at' = "trip" /\ bound' \subseteq Required /\ UNCHANGED <<trips, panels>>
      BY <1>2, <2>1, <2>2
    <3>2. \A o \in Outputs : panels'[o] = 0
      BY <3>1 DEF Inv, MainInv
    <3>3. QED
      BY <3>1, <3>2 DEF Inv, MainInv
  <2>3. CASE e.kind # "globals"
    <3>1. UNCHANGED <<bound, trips, panels>>
      BY <1>2, <2>3
    <3>2. QED
      BY <3>1 DEF Inv, MainInv
  <2>4. QED
    BY <2>2, <2>3
<1>12. FlagInv'
  <2>1. keyboard' \in {"none", "live", "inert"}
    BY <1>2 DEF KeyboardAfter, Inv, FlagInv
  <2>2. launcher_visible' \in BOOLEAN
    BY <1>2 DEF VisibleAfter, Inv, FlagInv
  <2>3. QED
    BY <1>2, <2>1, <2>2 DEF Inv, FlagInv
<1>13. SizeInv'
  <2>1. SUFFICES ASSUME ~broken', NEW i \in DOMAIN outputs'
                 PROVE  /\ SizeDue(outputs[i])'
                        /\ at' = "visit" /\ outputs'[i].out = Head(todo') => SizeInTime(outputs[i])'
    BY DEF SizeInv
  <2>2. ~broken /\ b = Answer(e) /\ UNCHANGED todo /\ (at' = "visit" => at = "visit")
    BY <1>1, <1>2, <2>1
  <2>3. PICK q : q = outputs'[i]
    OBVIOUS
  <2>4. CASE e.kind = "output" /\ q = NewOutput(e.arg)
    <3>1. q.out = e.arg
      BY <2>4 DEF NewOutput, Known
    <3>2. Due(Event("mode", q.out))' /\ Due(Event("scale", q.out))'
      <4>1. /\ \E j \in DOMAIN b : b[j] = Event("mode", e.arg)
            /\ \E j \in DOMAIN b : b[j] = Event("scale", e.arg)
        BY <1>3, <1>4, <2>2, <2>4, AnswerFacts
      <4>2. \A j \in DOMAIN b : Due(b[j])'
        BY <1>3, <1>6, DueFacts
      <4>3. QED
        BY <3>1, <4>1, <4>2
    <3>3. SizeDue(q)'
      BY <3>2 DEF SizeDue
    <3>4. at' = "visit" => q.out # Head(todo')
      BY <1>7, <2>2, <2>4, <3>1 DEF Inv, ListInv
    <3>5. QED
      BY <2>3, <3>3, <3>4 DEF SizeDue
  <2>5. ASSUME NEW j \in DOMAIN outputs, q = OutputAfter(outputs[j], e)
        PROVE  SizeDue(q)' /\ (at' = "visit" /\ q.out = Head(todo') => SizeInTime(q)')
    <3>1. PICK r \in Infos : r = outputs[j]
      BY DEF Inv, ListInv
    <3>2. SizeDue(r) /\ (at = "visit" /\ r.out = Head(todo) => SizeInTime(r))
      BY <2>2, <3>1 DEF Inv, SizeInv
    <3>3. q.out = r.out /\ (SizeDue(r) => SizeDue(q)') /\ (SizeInTime(r) => SizeInTime(q)')
      BY <1>3, <1>6, <2>5, <3>1, SizeStep
    <3>4. QED
      BY <2>2, <3>2, <3>3
  <2>6. QED
    BY <1>8, <2>3, <2>4, <2>5 DEF SizeDue, SizeInTime
<1>14. KeyInv'
  <2>1. SUFFICES ASSUME ~replugged', ~broken'
                 PROVE  /\ keyboard' # "inert"
                        /\ seatKb' => \/ keyboard' = "live"
                                      \/ Due(Event("seat", 0))' \/ Due(Event("caps", TRUE))'
                        /\ ~seatKb' => ~Due(Event("caps", TRUE))'
    BY DEF KeyInv
  <2>2. ~replugged /\ ~broken /\ b = Answer(e) /\ seatKb' = seatKb
    BY <1>1, <1>2, <2>1
  <2>3. /\ keyboard # "inert"
        /\ seatKb => keyboard = "live" \/ Due(Event("seat", 0)) \/ Due(Event("caps", TRUE))
        /\ ~seatKb => ~Due(Event("caps", TRUE))
    BY <2>2 DEF Inv, KeyInv
  <2>4. e = Event("caps", TRUE) => seatKb
    BY <1>3, <2>3 DEF Due
  <2>5. keyboard' # "inert" /\ (keyboard = "live" => keyboard' = "live")
    BY <1>2, <2>3, <2>4 DEF KeyboardAfter
  <2>6. e = Event("caps", TRUE) => keyboard' = "live"
    BY <1>2, <2>3, <2>4 DEF KeyboardAfter, Inv, FlagInv
  <2>7. e # Event("caps", TRUE) /\ Due(Event("caps", TRUE)) => Due(Event("caps", TRUE))'
    BY <1>3, <1>6, DueFacts
  <2>8. e # Event("seat", 0) /\ Due(Event("seat", 0)) => Due(Event("seat", 0))'
    BY <1>3, <1>6, DueFacts
  <2>9. e = Event("seat", 0) /\ seatKb => Due(Event("caps", TRUE))'
    <3>1. SUFFICES ASSUME e = Event("seat", 0), seatKb PROVE Due(Event("caps", TRUE))'
      OBVIOUS
    <3>2. e.kind = "seat"
      BY <3>1, EventFacts
    <3>3. \E j \in DOMAIN b : b[j] = Event("caps", TRUE)
      BY <1>3, <1>4, <2>2, <3>1, <3>2, AnswerFacts
    <3>4. \A j \in DOMAIN b : Due(b[j])'
      BY <1>3, <1>6, DueFacts
    <3>5. QED
      BY <3>3, <3>4
  <2>10. ~seatKb => ~Due(Event("caps", TRUE))'
    <3>1. ~seatKb => \A j \in DOMAIN b : b[j] # Event("caps", TRUE)
      BY <1>3, <1>4, <2>2, AnswerFacts
    <3>2. \A f : Due(f)' => Due(f) \/ \E j \in DOMAIN b : b[j] = f
      BY <1>3, <1>6, DueFacts
    <3>3. QED
      BY <2>3, <3>1, <3>2
  <2>11. QED
    BY <2>2, <2>3, <2>5, <2>6, <2>7, <2>8, <2>9, <2>10
<1>15. QED
  BY <1>9, <1>10, <1>11, <1>12, <1>13, <1>14 DEF Inv

-----------------------------------------------------------------------------
(* main goes on.                                                            *)

\* A step of main that handles no event takes at most the end of a round trip from the
\* wire, and asks for at most one.
LEMMA MainSteps ==
  ASSUME Inv, UNCHANGED <<outputs, keyboard, seatKb, replugged>>, broken => broken',
         NEW d, NEW b, Moves(d, b),
         b = <<>> \/ (b = <<Event("done", 0)>> /\ at' \in {"trip", "visit"}),
         d = 1 => wire[1].kind = "done",
         \A i \in DOMAIN wire : /\ wire[i].kind # "globals"
                                /\ i > d => wire[i].kind # "done"
  PROVE  WireInv' /\ KeyInv' /\ (\A r : SizeDue(r) => SizeDue(r)')
<1>1. Names' = Names
  BY DEF Names
<1>2. \A j \in DOMAIN b : b[j].kind = "done" /\ b = <<b[j]>> /\ at' \in {"trip", "visit"}
  BY EventFacts
<1>3. WireInv'
  <2>1. \A i \in DOMAIN wire : i > d /\ wire[i].kind = "output" => wire[i].arg \notin Names'
    BY <1>1 DEF Inv, WireInv
  <2>2. \A j \in DOMAIN b : b[j].kind \notin {"globals", "output"}
    BY <1>2
  <2>3. QED
    BY <1>2, <2>1, <2>2, WireKept DEF Inv
<1>4. \A f : f.kind # "done" /\ Due(f) => Due(f)'
  BY DueFacts DEF Inv, WireInv
<1>5. \A f : f.kind # "done" /\ Due(f)' => Due(f)
  <2>1. \A f : Due(f)' => Due(f) \/ \E j \in DOMAIN b : b[j] = f
    BY DueFacts DEF Inv, WireInv
  <2>2. QED
    BY <1>2, <2>1
<1>6. \A r : SizeDue(r) => SizeDue(r)'
  <2>1. \A o : Event("mode", o).kind # "done" /\ Event("scale", o).kind # "done"
    BY EventFacts
  <2>2. QED
    BY <1>4, <2>1 DEF SizeDue
<1>7. KeyInv'
  <2>1. CASE broken'
    BY <2>1 DEF KeyInv
  <2>2. CASE ~broken'
    <3>1. Event("caps", TRUE).kind = "caps" /\ Event("seat", 0).kind = "seat"
      BY EventFacts
    <3>2. /\ Due(Event("caps", TRUE))' <=> Due(Event("caps", TRUE))
          /\ Due(Event("seat", 0)) => Due(Event("seat", 0))'
      BY <1>4, <1>5, <3>1
    <3>3. QED
      BY <2>2, <3>2 DEF Inv, KeyInv
  <2>3. QED
    BY <2>1, <2>2
<1>8. QED
  BY <1>3, <1>6, <1>7

\* The end of a round trip is taken from the wire, and the next one may be begun.
LEMMA TripEnds ==
  ASSUME Inv, TripOver, UNCHANGED <<outputs, keyboard, seatKb, replugged>>, broken => broken',
         wire' = Rest \/ (wire' = Synced(Rest) /\ at' \in {"trip", "visit"})
  PROVE  WireInv' /\ KeyInv' /\ (\A r : SizeDue(r) => SizeDue(r)')
<1>1. PICK d \in 0..1 : d = IF wire = <<>> THEN 0 ELSE 1
  OBVIOUS
<1>2. PICK b : b = IF wire' = Rest THEN <<>> ELSE <<Event("done", 0)>>
  OBVIOUS
<1>3. wire \in Seq(Events) /\ DOMAIN wire = 1..Len(wire) /\ Len(wire) \in Nat
  BY DEF Inv, WireInv
<1>4. Rest \in Seq(Events) /\ Rest = IF d = 0 THEN wire ELSE Tail(wire)
  BY <1>1, <1>3 DEF Rest
<1>5. b \in Seq(Events) /\ wire' = Rest \o b
  <2>1. Event("done", 0) \in Events
    BY EventFacts
  <2>2. CASE wire' = Rest
    BY <1>2, <1>4, <2>2
  <2>3. CASE wire' # Rest
    <3>1. b = <<Event("done", 0)>> /\ wire' = Append(Rest, Event("done", 0))
      BY <1>2, <2>3 DEF Synced
    <3>2. QED
      BY <1>4, <2>1, <3>1
  <2>4. QED
    BY <2>2, <2>3
<1>6. Moves(d, b)
  BY <1>1, <1>3, <1>4, <1>5 DEF Moves
<1>7. d = 1 => 1 \in DOMAIN wire /\ wire[1].kind = "done"
  BY <1>1, <1>3 DEF TripOver
<1>8. \A i \in DOMAIN wire : wire[i].kind # "globals" /\ (i > d => wire[i].kind # "done")
  BY <1>1, <1>3, <1>7 DEF Inv, WireInv
<1>9. b = <<>> \/ (b = <<Event("done", 0)>> /\ at' \in {"trip", "visit"})
  BY <1>2
<1>10. QED
  BY <1>6, <1>7, <1>8, <1>9, MainSteps

\* Panels are made.
LEMMA PanelSteps ==
  ASSUME Inv, NEW S, CreatePanels(S)
  PROVE  panels' \in [Outputs -> 0..MaxPanels] /\ broken' \in BOOLEAN /\ (broken => broken')
<1>1. panels \in [Outputs -> 0..MaxPanels] /\ broken \in BOOLEAN /\ MaxPanels \in Nat
  BY BoundsAssumption DEF Inv, MainInv, FlagInv
<1>2. PICK made : /\ panels' = [o \in Outputs |-> IF o \in made /\ panels[o] < MaxPanels
                                                    THEN panels[o] + 1 ELSE panels[o]]
                  /\ broken' = (broken \/ (strict /\ made # {}))
  BY DEF CreatePanels
<1>3. QED
  BY <1>1, <1>2

\* The second of the first round trips, and the test after it.
LEMMA FirstTripsInv == ASSUME Inv, SecondTrip \/ Globals PROVE Inv'
<1>1. /\ at = "trip" /\ TripOver
      /\ UNCHANGED <<bound, outputs, keyboard, launcher_visible, tick, panels, broken,
                     plugged, seatKb, replugged, strict, memory>>
      /\ wire' = Rest \/ (wire' = Synced(Rest) /\ at' \in {"trip", "visit"})
      /\ at' \in {"trip", "outputs", "ended"} /\ trips' \in 1..2
      /\ \/ at' = "trip" /\ todo' = todo
         \/ /\ at' \in {"outputs", "ended"} /\ todo' = [i \in DOMAIN outputs |-> outputs[i].out]
            /\ at' = "outputs" => bound = Required
  BY DEF SecondTrip, Globals, HaveGlobals, seen, server, choices, Inv, MainInv
<1>2. WireInv' /\ KeyInv' /\ \A r : SizeDue(r) => SizeDue(r)'
  BY <1>1, TripEnds
<1>3. Names' = Names
  BY <1>1 DEF Names
<1>4. ListInv'
  <2>1. CASE todo' = todo
    BY <1>1, <1>3, <2>1 DEF Inv, ListInv
  <2>2. CASE todo' = [i \in DOMAIN outputs |-> outputs[i].out]
    <3>1. /\ outputs \in Seq(Infos) /\ DOMAIN outputs = 1..Len(outputs) /\ Len(outputs) \in Nat
          /\ \A i \in DOMAIN outputs : outputs[i] \in Infos
      BY DEF Inv, ListInv
    <3>2. todo' = [i \in 1..Len(outputs) |-> outputs[i].out]
      BY <2>2, <3>1
    <3>3. todo' \in Seq(Outputs) /\ \A i \in DOMAIN todo' : todo'[i] \in Names
      BY <3>1, <3>2 DEF Names, Infos
    <3>4. QED
      BY <1>1, <1>3, <3>3 DEF Inv, ListInv
  <2>3. QED
    BY <1>1, <2>1, <2>2
<1>5. MainInv' /\ FlagInv'
  BY <1>1 DEF Inv, MainInv, FlagInv
<1>6. SizeInv'
  BY <1>1, <1>2 DEF Inv, SizeInv
<1>7. QED
  BY <1>2, <1>4, <1>5, <1>6 DEF Inv

\* A round trip for an output begins: what is due comes before its end.
LEMMA VisitInv == ASSUME Inv, Visit PROVE Inv'
<1>1. /\ at = "outputs" /\ todo # <<>> /\ at' = "visit" /\ wire' = Synced(wire)
      /\ UNCHANGED <<trips, bound, outputs, keyboard, launcher_visible, todo, tick, panels, broken,
                     plugged, seatKb, replugged, strict, memory>>
  BY DEF Visit, seen, server, choices
<1>2. wire \in Seq(Events) /\ DOMAIN wire = 1..Len(wire) /\ Len(wire) \in Nat
  BY DEF Inv, WireInv
<1>3. PICK b : b = IF broken THEN <<>> ELSE <<Event("done", 0)>>
  OBVIOUS
<1>4. Moves(0, b)
  <2>1. Event("done", 0) \in Events
    BY EventFacts
  <2>2. b \in Seq(Events) /\ wire' = wire \o b
    BY <1>1, <1>2, <1>3, <2>1 DEF Synced
  <2>3. QED
    BY <1>2, <2>2 DEF Moves
<1>5. \A i \in DOMAIN wire : wire[i].kind # "globals" /\ wire[i].kind # "done"
  BY <1>1 DEF Inv, WireInv
<1>6. WireInv' /\ KeyInv' /\ \A r : SizeDue(r) => SizeDue(r)'
  <2>1. b = <<>> \/ (b = <<Event("done", 0)>> /\ at' \in {"trip", "visit"})
    BY <1>1, <1>3
  <2>2. 0 = 1 => wire[1].kind = "done"
    OBVIOUS
  <2>3. QED
    BY <1>1, <1>4, <1>5, <2>1, <2>2, MainSteps
<1>7. \A r : SizeDue(r) => SizeInTime(r)'
  <2>1. \A f : Due(f) => InTime(f)
    BY <1>2, <1>5 DEF Due, InTime
  <2>2. \A f : InTime(f) => InTime(f)'
    BY <1>2, <1>4, DueFacts
  <2>3. QED
    BY <2>1, <2>2 DEF SizeDue, SizeInTime
<1>8. Names' = Names
  BY <1>1 DEF Names
<1>9. ListInv'
  BY <1>1, <1>8 DEF Inv, ListInv
<1>10. MainInv' /\ FlagInv'
  BY <1>1 DEF Inv, MainInv, FlagInv
<1>11. SizeInv'
  BY <1>1, <1>6, <1>7 DEF Inv, SizeInv
<1>12. QED
  BY <1>6, <1>9, <1>10, <1>11 DEF Inv

\* The panel of that output is made, or that of every output when the clock is redrawn.
LEMMA PanelsInv == ASSUME Inv, Visited \/ Clock PROVE Inv'
<1>1. PICK S : CreatePanels(S)
  BY DEF Visited, Clock
<1>2. panels' \in [Outputs -> 0..MaxPanels] /\ broken' \in BOOLEAN /\ (broken => broken')
  BY <1>1, PanelSteps
<1>3. /\ at \in {"visit", "handled"} /\ at' \in {"outputs", "loop"} /\ tick' \in BOOLEAN
      /\ UNCHANGED <<trips, bound, outputs, keyboard, launcher_visible,
                     plugged, seatKb, replugged, strict, memory>>
      /\ UNCHANGED todo \/ (at = "visit" /\ todo' = Tail(todo))
  BY DEF Visited, Clock, seen, server, choices, Inv, FlagInv
<1>4. WireInv' /\ KeyInv' /\ \A r : SizeDue(r) => SizeDue(r)'
  <2>1. CASE Visited
    <3>1. TripOver /\ wire' = Rest
      BY <2>1 DEF Visited
    <3>2. QED
      BY <1>2, <1>3, <3>1, TripEnds
  <2>2. CASE Clock
    <3>1. wire \in Seq(Events) /\ at = "handled" /\ wire' = wire
      BY <2>2 DEF Clock, Inv, WireInv
    <3>2. PICK b : b = <<>>
      OBVIOUS
    <3>3. Moves(0, b)
      BY <3>1, <3>2 DEF Moves
    <3>4. \A i \in DOMAIN wire : wire[i].kind # "globals" /\ wire[i].kind # "done"
      BY <3>1 DEF Inv, WireInv
    <3>5. QED
      BY <1>2, <1>3, <3>2, <3>3, <3>4, MainSteps
  <2>3. QED
    BY <2>1, <2>2
<1>5. Names' = Names
  BY <1>3 DEF Names
<1>6. ListInv'
  <2>1. todo' \in Seq(Outputs) /\ \A i \in DOMAIN todo' : todo'[i] \in Names
    <3>1. todo \in Seq(Outputs) /\ (\A i \in DOMAIN todo : todo[i] \in Names) /\ (at = "visit" => todo # <<>>)
      BY DEF Inv, ListInv
    <3>2. CASE UNCHANGED todo
      BY <3>1, <3>2
    <3>3. CASE at = "visit" /\ todo' = Tail(todo)
      <4>1. /\ todo' \in Seq(Outputs) /\ DOMAIN todo' = 1..(Len(todo) - 1)
            /\ \A i \in DOMAIN todo' : i + 1 \in DOMAIN todo /\ todo'[i] = todo[i + 1]
        BY <3>1, <3>3
      <4>2. QED
        BY <3>1, <4>1
    <3>4. QED
      BY <1>3, <3>2, <3>3
  <2>2. QED
    BY <1>3, <1>5, <2>1 DEF Inv, ListInv
<1>7. MainInv'
  <2>1. bound = Required /\ bound' = bound
    BY <1>3 DEF Inv, MainInv
  <2>2. QED
    BY <1>2, <1>3, <2>1 DEF Inv, MainInv
<1>8. FlagInv'
  BY <1>2, <1>3 DEF Inv, FlagInv
<1>9. SizeInv'
  BY <1>2, <1>3, <1>4 DEF Inv, SizeInv
<1>10. QED
  BY <1>4, <1>6, <1>7, <1>8, <1>9 DEF Inv

\* The main loop begins or ends.
LEMMA LoopInv == ASSUME Inv, StartLoop \/ DispatchFails PROVE Inv'
<1>1. /\ at \in {"outputs", "loop"} /\ at' \in {"loop", "ended"}
      /\ UNCHANGED <<trips, bound, outputs, keyboard, launcher_visible, todo, tick, panels, wire,
                     broken, plugged, seatKb, replugged, strict, memory>>
  BY DEF StartLoop, DispatchFails, seen, server, choices
<1>2. Names' = Names /\ (\A f : (Due(f)' <=> Due(f)) /\ (InTime(f)' <=> InTime(f)))
  BY <1>1 DEF Names, Due, InTime
<1>3. \A r : SizeDue(r) => SizeDue(r)'
  BY <1>2 DEF SizeDue
<1>4. WireInv'
  BY <1>1, <1>2 DEF Inv, WireInv
<1>5. ListInv' /\ MainInv' /\ FlagInv'
  BY <1>1, <1>2 DEF Inv, ListInv, MainInv, FlagInv
<1>6. SizeInv'
  BY <1>1, <1>3 DEF Inv, SizeInv
<1>7. KeyInv'
  <2>1. /\ Due(Event("caps", TRUE))' <=> Due(Event("caps", TRUE))
        /\ Due(Event("seat", 0))' <=> Due(Event("seat", 0))
    BY <1>2, Zenon
  <2>2. QED
    BY <1>1, <2>1 DEF Inv, KeyInv
<1>8. QED
  BY <1>4, <1>5, <1>6, <1>7 DEF Inv

-----------------------------------------------------------------------------
(* The invariant holds.                                                     *)

\* The elements of a finite set, one after the other.
LEMMA SetToSeqFacts ==
  ASSUME NEW S, IsFiniteSet(S)
  PROVE  Cardinality(S) \in Nat /\ SetToSeq(S) \in [1..Cardinality(S) -> S] /\ IsInjective(SetToSeq(S))
<1>1. Cardinality(S) \in Nat /\ ExistsBijection(1..Cardinality(S), S)
  BY FS_CardinalityType
<1>2. PICK f \in [1..Cardinality(S) -> S] : IsInjective(f)
  BY <1>1 DEF ExistsBijection, Bijection, Injection
<1>3. QED
  BY <1>1, <1>2 DEF SetToSeq

\* The wire at the beginning: the globals, the seat, n outputs, the end of a round trip.
Begins(w, ifs, n, q) ==
  /\ \A i, j \in 1..n : q[i] = q[j] => i = j
  /\ w \in Seq(Events) /\ DOMAIN w = 1..(n + 3)
  /\ w[1] = Event("globals", ifs) /\ w[2] = Event("seat", 0)
  /\ \A i \in 3..(n + 2) : w[i] = Event("output", q[i - 2])
  /\ w[n + 3] = Event("done", 0)

\* It begins like this.
LEMMA FirstWire ==
  ASSUME NEW ifs \in SUBSET Required, NEW outs \in SUBSET Outputs, IsFiniteSet(outs),
         NEW w, w = Announced(ifs, outs) \o <<Event("done", 0)>>
  PROVE  \E n \in Nat : \E q \in [1..n -> Outputs] : Begins(w, ifs, n, q)
<1>1. PICK n, q : n = Cardinality(outs) /\ q = SetToSeq(outs)
  OBVIOUS
<1>2. n \in Nat /\ q \in [1..n -> Outputs] /\ \A i, j \in 1..n : q[i] = q[j] => i = j
  BY <1>1, SetToSeqFacts DEF IsInjective
<1>3. PICK a, b, c : /\ a = <<Event("globals", ifs), Event("seat", 0)>>
                     /\ b = [i \in 1..n |-> Event("output", q[i])]
                     /\ c = <<Event("done", 0)>>
  OBVIOUS
<1>4. w = (a \o b) \o c
  BY <1>1, <1>3 DEF Announced
<1>5. /\ a \in Seq(Events) /\ Len(a) = 2 /\ a[1] = Event("globals", ifs) /\ a[2] = Event("seat", 0)
      /\ c \in Seq(Events) /\ Len(c) = 1 /\ c[1] = Event("done", 0)
  <2>1. Event("globals", ifs) \in Events /\ Event("seat", 0) \in Events /\ Event("done", 0) \in Events
    BY EventFacts
  <2>2. QED
    BY <1>3, <2>1
<1>6. b \in Seq(Events) /\ Len(b) = n /\ \A i \in 1..n : b[i] = Event("output", q[i])
  <2>1. \A i \in 1..n : Event("output", q[i]) \in Events
    BY <1>2, EventFacts
  <2>2. QED
    BY <1>2, <1>3, <2>1
<1>7. /\ a \o b \in Seq(Events) /\ Len(a \o b) = Len(a) + Len(b)
      /\ \A i \in 1..(Len(a) + Len(b)) : (a \o b)[i] = IF i <= Len(a) THEN a[i] ELSE b[i - Len(a)]
  BY ONLY <1>5, <1>6, ConcatProperties
<1>8. PICK s : s = a \o b
  OBVIOUS
<1>9. /\ s \in Seq(Events) /\ Len(s) = n + 2
      /\ s[1] = Event("globals", ifs) /\ s[2] = Event("seat", 0)
      /\ \A i \in 3..(n + 2) : s[i] = Event("output", q[i - 2])
  <2>1. s \in Seq(Events) /\ Len(s) = n + 2 /\ \A i \in 1..(n + 2) : s[i] = IF i <= 2 THEN a[i] ELSE b[i - 2]
    BY <1>2, <1>5, <1>6, <1>7, <1>8
  <2>2. \A i \in 3..(n + 2) : i \in 1..(n + 2) /\ ~(i <= 2) /\ i - 2 \in 1..n
    BY <1>2
  <2>3. QED
    BY <1>2, <1>5, <1>6, <2>1, <2>2
<1>10. /\ s \o c \in Seq(Events) /\ Len(s \o c) = Len(s) + Len(c)
       /\ \A i \in 1..(Len(s) + Len(c)) : (s \o c)[i] = IF i <= Len(s) THEN s[i] ELSE c[i - Len(s)]
  BY ONLY <1>5, <1>9, ConcatProperties
<1>11. /\ w \in Seq(Events) /\ Len(w) = n + 3
       /\ \A i \in 1..(n + 3) : w[i] = IF i <= n + 2 THEN s[i] ELSE c[i - (n + 2)]
  <2>1. w = s \o c
    BY <1>4, <1>8, Zenon
  <2>2. Len(s) = n + 2 /\ Len(c) = 1 /\ n + 2 + 1 = n + 3
    BY <1>2, <1>5, <1>9
  <2>3. QED
    BY ONLY <1>10, <2>1, <2>2
<1>12. /\ DOMAIN w = 1..(n + 3)
       /\ w[1] = Event("globals", ifs) /\ w[2] = Event("seat", 0)
       /\ \A i \in 3..(n + 2) : w[i] = Event("output", q[i - 2])
       /\ w[n + 3] = Event("done", 0)
  <2>1. /\ 1 \in 1..(n + 3) /\ 2 \in 1..(n + 3) /\ n + 3 \in 1..(n + 3) /\ ~(n + 3 <= n + 2)
        /\ 1 <= n + 2 /\ 2 <= n + 2 /\ n + 3 - (n + 2) = 1
        /\ \A i \in 3..(n + 2) : i \in 1..(n + 3) /\ i <= n + 2
    BY <1>2
  <2>2. QED
    BY <1>5, <1>9, <1>11, <2>1
<1>13. Begins(w, ifs, n, q)
  BY <1>2, <1>11, <1>12 DEF Begins
<1>14. QED
  BY <1>2, <1>13

\* The invariant holds at the beginning.
LEMMA InitInv == Init => Inv
<1>1. SUFFICES ASSUME Init PROVE Inv
  OBVIOUS
<1>2. PICK ifs \in SUBSET Required, outs \in SUBSET Outputs :
        IsFiniteSet(outs) /\ plugged = outs /\ wire = Announced(ifs, outs) \o <<Event("done", 0)>>
  <2>1. {Required, Required \ {"layer_shell"}} \subseteq SUBSET Required
    OBVIOUS
  <2>2. QED
    BY <1>1, <2>1 DEF Init
<1>3. PICK n \in Nat : \E q \in [1..n -> Outputs] : Begins(wire, ifs, n, q)
  BY <1>2, FirstWire
<1>4. PICK q \in [1..n -> Outputs] : Begins(wire, ifs, n, q)
  BY <1>3
<1>5. /\ \A i, j \in 1..n : q[i] = q[j] => i = j
      /\ wire \in Seq(Events) /\ DOMAIN wire = 1..(n + 3)
      /\ wire[1] = Event("globals", ifs) /\ wire[2] = Event("seat", 0)
      /\ \A i \in 3..(n + 2) : wire[i] = Event("output", q[i - 2])
      /\ wire[n + 3] = Event("done", 0)
  BY <1>4 DEF Begins
<1>6. /\ at = "trip" /\ trips = 2 /\ bound = {} /\ outputs = <<>> /\ todo = <<>>
      /\ keyboard = "none" /\ launcher_visible = FALSE /\ tick = TRUE
      /\ panels = [o \in Outputs |-> 0] /\ broken = FALSE /\ replugged = FALSE
      /\ seatKb \in BOOLEAN /\ strict \in BOOLEAN /\ memory \in SUBSET Outputs
  BY <1>1 DEF Init
<1>7. WireInv
  <2>1. \A i \in DOMAIN wire : /\ wire[i].kind = "globals" => i = 1
                               /\ wire[i].kind = "done" => i = n + 3
                               /\ wire[i].kind = "output" => i \in 3..(n + 2) /\ wire[i].arg = q[i - 2]
    <3>1. ASSUME NEW i \in DOMAIN wire
          PROVE  i = 1 \/ i = 2 \/ i \in 3..(n + 2) \/ i = n + 3
      BY <1>3, <1>5
    <3>2. /\ wire[1].kind = "globals" /\ wire[2].kind = "seat" /\ wire[n + 3].kind = "done"
          /\ \A i \in 3..(n + 2) : wire[i].kind = "output" /\ wire[i].arg = q[i - 2]
      BY <1>5, EventFacts
    <3>3. QED
      BY <3>1, <3>2
  <2>2. \A i, j \in DOMAIN wire : wire[i].kind = "output" /\ wire[j] = wire[i] => i = j
    <3>1. ASSUME NEW i \in DOMAIN wire, NEW j \in DOMAIN wire, wire[i].kind = "output", wire[j] = wire[i]
          PROVE  i = j
      <4>1. i \in 3..(n + 2) /\ j \in 3..(n + 2) /\ q[i - 2] = q[j - 2]
        BY <2>1, <3>1
      <4>2. i - 2 \in 1..n /\ j - 2 \in 1..n
        BY <1>3, <4>1
      <4>3. i - 2 = j - 2
        BY <1>5, <4>1, <4>2
      <4>4. QED
        BY <4>1, <4>3
    <3>2. QED
      BY <3>1
  <2>3. Names = {}
    BY <1>6 DEF Names
  <2>4. QED
    BY <1>5, <1>6, <2>1, <2>2, <2>3, Zenon DEF WireInv
<1>8. ListInv
  BY <1>6 DEF ListInv
<1>9. MainInv
  BY <1>6, BoundsAssumption DEF MainInv
<1>10. FlagInv
  BY <1>2, <1>6 DEF FlagInv
<1>11. SizeInv
  BY <1>6 DEF SizeInv
<1>12. KeyInv
  <2>1. Due(Event("seat", 0))
    BY <1>3, <1>5 DEF Due
  <2>2. ~Due(Event("caps", TRUE))
    <3>1. Event("caps", TRUE).kind = "caps"
      BY EventFacts, Zenon
    <3>2. \A i \in DOMAIN wire : wire[i].kind # "caps"
      <4>1. ASSUME NEW i \in DOMAIN wire
            PROVE  i = 1 \/ i = 2 \/ i \in 3..(n + 2) \/ i = n + 3
        BY <1>3, <1>5
      <4>2. /\ wire[1].kind = "globals" /\ wire[2].kind = "seat" /\ wire[n + 3].kind = "done"
            /\ \A i \in 3..(n + 2) : wire[i].kind = "output"
        BY <1>5, EventFacts
      <4>3. QED
        BY <4>1, <4>2
    <3>3. QED
      BY <3>1, <3>2 DEF Due
  <2>3. QED
    BY <1>6, <2>1, <2>2 DEF KeyInv
<1>13. QED
  BY <1>7, <1>8, <1>9, <1>10, <1>11, <1>12 DEF Inv

\* Every step keeps it.
LEMMA StepInv == Inv /\ [Next]_vars => Inv'
<1>1. SUFFICES ASSUME Inv, [Next]_vars PROVE Inv'
  OBVIOUS
<1>2. CASE TripEvent
  BY <1>1, <1>2, HandleInv DEF TripEvent
<1>3. CASE DispatchEvent
  BY <1>1, <1>3, HandleInv DEF DispatchEvent
<1>4. CASE SecondTrip \/ Globals
  BY <1>1, <1>4, FirstTripsInv
<1>5. CASE Visit
  BY <1>1, <1>5, VisitInv
<1>6. CASE Visited \/ Clock
  BY <1>1, <1>6, PanelsInv
<1>7. CASE StartLoop \/ DispatchFails
  BY <1>1, <1>7, LoopInv
<1>8. CASE (\E o \in Outputs : Plug(o) \/ Unplug(o)) \/ (\E k \in {"super", "esc"} : Key(k))
  BY <1>1, <1>8, OutputsComeInv
<1>9. CASE SeatChanges
  BY <1>1, <1>9, SeatInv
<1>10. CASE Hangup \/ SecondPasses \/ UNCHANGED vars
  BY <1>1, <1>10, OutsideInv
<1>11. QED
  BY <1>1, <1>2, <1>3, <1>4, <1>5, <1>6, <1>7, <1>8, <1>9, <1>10 DEF Next, Setup, MainLoop

\* It holds always.
LEMMA InvAlways == Spec => []Inv
<1>1. QED
  BY InitInv, StepInv, PTL DEF Spec

-----------------------------------------------------------------------------
(* The results.                                                             *)

\* The variables have their types, and no panel is made before all globals are bound.
THEOREM TypeCorrect == Spec => []TypeOK
<1>1. Inv => TypeOK
  <2>1. SUFFICES ASSUME Inv PROVE TypeOK
    OBVIOUS
  <2>2. \A i \in DOMAIN outputs : outputs[i] \in [out : Outputs, width : 0..1, scale : 1..2]
    <3>1. \A i \in DOMAIN outputs : outputs[i] \in Infos
      BY <2>1 DEF Inv, ListInv
    <3>2. QED
      BY <3>1 DEF Infos
  <2>3. IsInjective([i \in DOMAIN outputs |-> outputs[i].out])
    BY <2>1 DEF Inv, ListInv, IsInjective
  <2>4. QED
    BY <2>1, <2>2, <2>3 DEF TypeOK, Inv, ListInv, MainInv, FlagInv
<1>2. QED
  BY <1>1, InvAlways, PTL

\* The shell listens to the seat's keyboard when it has nothing left to read, unless the
\* keyboard has been gone: nothing is due on an empty wire.
THEOREM DeafOnlyAfterReplugAlways == Spec => []DeafOnlyAfterReplug
<1>1. Inv => DeafOnlyAfterReplug
  <2>1. SUFFICES ASSUME Inv, wire = <<>>, ~broken, seatKb, ~replugged PROVE keyboard = "live"
    BY DEF DeafOnlyAfterReplug
  <2>2. \A f : ~Due(f)
    BY <2>1 DEF Due
  <2>3. QED
    BY <2>1, <2>2 DEF Inv, KeyInv
<1>2. QED
  BY <1>1, InvAlways, PTL

\* Width and scale of an output are known when its surfaces are made: they were due in
\* time for the round trip, and that is over.
THEOREM DimensionsKnownAlways == Spec => DimensionsKnown
<1>1. Inv /\ [Next]_vars =>
        (at = "visit" /\ at' = "outputs" /\ ~broken =>
           \E i \in DOMAIN outputs : outputs[i] = Known(Head(todo), 1, 1))
  <2>1. SUFFICES ASSUME Inv, [Next]_vars, at = "visit", at' = "outputs", ~broken
                 PROVE  \E i \in DOMAIN outputs : outputs[i] = Known(Head(todo), 1, 1)
    OBVIOUS
  <2>2. Visited
    BY <2>1 DEF Next, Setup, MainLoop, vars, client, TripEvent, SecondTrip, Globals, Visit, StartLoop,
                DispatchEvent, DispatchFails, Clock, Plug, Unplug, Key, SeatChanges, Hangup, SecondPasses
  <2>3. wire \in Seq(Events) /\ wire # <<>> /\ wire[1].kind = "done"
    BY <2>1, <2>2 DEF Visited, TripOver, Inv, WireInv
  <2>4. \A f : ~InTime(f)
    BY <2>3 DEF InTime
  <2>5. PICK i \in DOMAIN outputs : outputs[i].out = Head(todo)
    BY <2>1 DEF Inv, ListInv, Names
  <2>6. outputs[i].width = 1 /\ outputs[i].scale = 1 /\ outputs[i] \in Infos
    BY <2>1, <2>4, <2>5 DEF Inv, SizeInv, SizeInTime, ListInv
  <2>7. QED
    BY <2>5, <2>6 DEF Infos, Known
<1>2. QED
  BY <1>1, InvAlways, PTL DEF Spec, DimensionsKnown
=============================================================================
