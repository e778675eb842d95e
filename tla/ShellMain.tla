----------------------------- MODULE ShellMain -----------------------------
(***************************************************************************)
(* The main program of luna-shell: one thread that handles the events of   *)
(* the compositor in order, in three kinds of places: the round trips at   *)
(* the start, those of the loop over the outputs, and the main loop.  The  *)
(* compositor goes on meanwhile; it answers a request when it gets it, and *)
(* what it sends waits on the wire.                                        *)
(*                                                                         *)
(* Pixels are left out, and so are the modules for panel, launcher and     *)
(* wallpaper that are linked in and never called (ShellSurfaces).          *)
(***************************************************************************)
EXTENDS Integers, SequencesExt

CONSTANTS
  Outputs,     \* outputs; one that is plugged in again is another one
  MaxWire,     \* bound: the compositor sends nothing while as many events wait, those that end
               \* a round trip apart
  MaxPanels    \* bound: panels of an output are counted up to this number

ASSUME BoundsAssumption == MaxWire \in Nat /\ MaxPanels \in Nat \ {0}

Required == {"compositor", "shm", "layer_shell"}

VARIABLES
  at,          \* where main is
  trips,       \* round trips still to be made before the globals are tested
  bound,       \* the globals of Required that are not NULL
  outputs,     \* shell.outputs, first to last: what is known of each output
  todo,        \* the outputs the loop at the start has still to visit
  keyboard,    \* shell.keyboard, and whether the compositor still serves it
  launcher_visible,
  tick,        \* time(NULL) differs from last_sec
  panels,      \* layer surfaces made for each output
  wire,        \* events on their way to the shell
  broken,      \* there will be no more of them
  plugged, seatKb, replugged,  \* the compositor's outputs and its keyboard, and whether
                               \* that has been gone
  strict,      \* it refuses a buffer before the first configure, as wlroots does
  memory       \* the outputs for which shared memory can be allocated

seen    == <<bound, outputs, keyboard, launcher_visible>>
client  == <<at, trips, seen, todo, tick, panels>>
server  == <<plugged, seatKb, replugged>>
choices == <<strict, memory>>
vars    == <<client, wire, broken, server, choices>>

Event(kind, arg) == [kind |-> kind, arg |-> arg]
Known(o, w, s)   == [out |-> o, width |-> w, scale |-> s]

\* The compositor announces what it has, in the order of its globals.
Announced(ifs, outs) ==
  <<Event("globals", ifs), Event("seat", 0)>>
    \o [i \in 1..Cardinality(outs) |-> Event("output", SetToSeq(outs)[i])]

\* main up to its first round trip.  The compositor may lack an interface, and has
\* finitely many outputs.
Init ==
  /\ \E ifs \in {Required, Required \ {"layer_shell"}} : \E outs \in SUBSET Outputs :
       /\ IsFiniteSet(outs)
       /\ plugged = outs
       /\ wire = Announced(ifs, outs) \o <<Event("done", 0)>>
  /\ seatKb \in BOOLEAN /\ strict \in BOOLEAN /\ memory \in SUBSET Outputs
  /\ at = "trip" /\ trips = 2 /\ bound = {} /\ outputs = <<>> /\ todo = <<>>
  /\ keyboard = "none" /\ launcher_visible = FALSE /\ tick = TRUE
  /\ panels = [o \in Outputs |-> 0]
  /\ broken = FALSE /\ replugged = FALSE

-----------------------------------------------------------------------------
(* The compositor.                                                          *)

Send(e) == /\ ~broken /\ Len(SelectSeq(wire, LAMBDA w : w.kind # "done")) < MaxWire
           /\ wire' = Append(wire, e)

Plug(o) == /\ o \notin plugged /\ \A i \in DOMAIN outputs : outputs[i].out # o
           /\ Event("output", o) \notin Range(wire)
           /\ Send(Event("output", o))
           /\ plugged' = plugged \cup {o}
           /\ UNCHANGED <<client, broken, seatKb, replugged, choices>>

\* registry_remove ignores it: the output stays in the list.
Unplug(o) == /\ o \in plugged
             /\ Send(Event("removed", o))
             /\ plugged' = plugged \ {o}
             /\ UNCHANGED <<client, broken, seatKb, replugged, choices>>

\* The seat gets a keyboard or loses it; a wl_keyboard of before is inert for good.
SeatChanges == /\ Send(Event("caps", ~seatKb))
               /\ seatKb' = ~seatKb
               /\ keyboard' = IF seatKb /\ keyboard = "live" THEN "inert" ELSE keyboard
               /\ replugged' = (replugged \/ seatKb)
               /\ UNCHANGED <<at, trips, bound, outputs, launcher_visible, todo, tick, panels,
                              broken, plugged, choices>>

Key(k) == /\ keyboard = "live"
          /\ Send(Event("key", k))
          /\ UNCHANGED <<client, broken, server, choices>>

\* The compositor goes away.
Hangup == ~broken /\ broken' = TRUE /\ UNCHANGED <<client, wire, server, choices>>

SecondPasses == /\ tick' = TRUE
                /\ UNCHANGED <<at, trips, seen, todo, panels, wire, broken, server, choices>>

-----------------------------------------------------------------------------
(* The listeners.  An event is handled where main waits for events.         *)

\* What the compositor answers to the bind requests of a handler.
Answer(e) ==
  CASE e.kind = "output" -> <<Event("mode", e.arg), Event("scale", e.arg)>>
    [] e.kind = "seat"   -> <<Event("caps", seatKb)>>
    [] OTHER             -> <<>>

\* An output before its first events.
NewOutput(o) == Known(o, 0, 2)

\* output_mode and output_scale_cb.
OutputAfter(r, e) == CASE e = Event("mode", r.out)  -> [r EXCEPT !.width = 1]
                       [] e = Event("scale", r.out) -> [r EXCEPT !.scale = 1]
                       [] OTHER                     -> r

\* registry_global puts an output at the front of the list.
ListAfter(e) == IF e.kind = "output" THEN <<NewOutput(e.arg)>> \o outputs
                ELSE [i \in DOMAIN outputs |-> OutputAfter(outputs[i], e)]

\* Mutant of KeyboardAfter: only a capability that is lost is looked at.
KeyboardIfLost(e) == IF e = Event("caps", FALSE) THEN "inert" ELSE keyboard
\* seat_capabilities.  A keyboard that is gone by now is inert.
KeyboardAfter(e) ==
  IF e = Event("caps", TRUE) /\ keyboard = "none"
    THEN IF seatKb THEN "live" ELSE "inert"
    ELSE keyboard

\* kb_key: Super toggles a flag, and Esc clears it.
VisibleAfter(e) ==
  CASE e = Event("key", "super") -> ~launcher_visible
    [] e = Event("key", "esc")   -> FALSE
    [] OTHER                     -> launcher_visible

\* One event is taken from the wire and handled.
Handle ==
  LET e == Head(wire) IN
  /\ wire # <<>> /\ e.kind # "done"
  /\ wire' = Tail(wire) \o IF broken THEN <<>> ELSE Answer(e)
  /\ bound' = IF e.kind = "globals" THEN e.arg ELSE bound
  /\ outputs' = ListAfter(e)
  /\ keyboard' = KeyboardAfter(e)
  /\ launcher_visible' = VisibleAfter(e)
  /\ UNCHANGED <<trips, todo, tick, panels, broken, server, choices>>

-----------------------------------------------------------------------------
(* main.                                                                    *)

\* wl_display_roundtrip waits for the event that the compositor sends last.  It fails
\* when the connection is broken, which main does not look at.
TripEvent == at \in {"trip", "visit"} /\ Handle /\ UNCHANGED at
TripOver  == (wire # <<>> /\ Head(wire).kind = "done") \/ (wire = <<>> /\ broken)
Rest      == IF wire = <<>> THEN wire ELSE Tail(wire)

\* The request a round trip waits for.
Synced(w) == IF broken THEN w ELSE Append(w, Event("done", 0))

SecondTrip == /\ at = "trip" /\ trips = 2 /\ TripOver
              /\ trips' = 1 /\ wire' = Synced(Rest)
              /\ UNCHANGED <<at, seen, todo, tick, panels, broken, server, choices>>

\* Mutant of HaveGlobals: the test is left out.
HaveGlobalsNot == TRUE
HaveGlobals    == bound = Required

\* After the two round trips main gives up, or begins with the outputs it has.
Globals == /\ at = "trip" /\ trips = 1 /\ TripOver
           /\ wire' = Rest
           /\ at' = IF HaveGlobals THEN "outputs" ELSE "ended"
           /\ todo' = [i \in DOMAIN outputs |-> outputs[i].out]
           /\ UNCHANGED <<trips, seen, tick, panels, broken, server, choices>>

\* create_panel_for_output: one more surface, with its buffer in the first commit.
\* A strict compositor ends the connection for that.
CreatePanels(S) ==
  LET made == S \cap memory IN
  /\ panels' = [o \in Outputs |-> IF o \in made /\ panels[o] < MaxPanels
                                    THEN panels[o] + 1 ELSE panels[o]]
  /\ broken' = (broken \/ (strict /\ made # {}))

Sized == {outputs[i].out : i \in {j \in DOMAIN outputs : outputs[j].width > 0}}

\* The next output of the loop at the start: a round trip, and then its surfaces, the
\* wallpaper going the way of the panel.  Mutant: the round trip is left out.
VisitWithoutTrip == /\ at = "outputs" /\ todo # <<>>
                    /\ at' = "visit" /\ wire' = <<Event("done", 0)>> \o wire
                    /\ UNCHANGED <<trips, seen, todo, tick, panels, broken, server, choices>>
Visit == /\ at = "outputs" /\ todo # <<>>
         /\ at' = "visit" /\ wire' = Synced(wire)
         /\ UNCHANGED <<trips, seen, todo, tick, panels, broken, server, choices>>

Visited == /\ at = "visit" /\ TripOver
           /\ CreatePanels(Sized \cap {Head(todo)})
           /\ at' = "outputs" /\ wire' = Rest /\ todo' = Tail(todo)
           /\ UNCHANGED <<trips, seen, tick, server, choices>>

StartLoop == /\ at = "outputs" /\ todo = <<>>
             /\ at' = "loop"
             /\ UNCHANGED <<trips, seen, todo, tick, panels, wire, broken, server, choices>>

\* wl_display_dispatch waits for an event, handles it and those that came with it.
DispatchEvent == at \in {"loop", "handled"} /\ Handle /\ at' = "handled"

\* Mutant: the result is not looked at.
DispatchFailsOn == /\ at = "loop" /\ wire = <<>> /\ broken
                   /\ at' = "handled"
                   /\ UNCHANGED <<trips, seen, todo, tick, panels, wire, broken, server, choices>>
DispatchFails == /\ at = "loop" /\ wire = <<>> /\ broken
                 /\ at' = "ended"
                 /\ UNCHANGED <<trips, seen, todo, tick, panels, wire, broken, server, choices>>

\* Mutant of Redrawn: the outputs that were visited at the start only.
RedrawnFirst == IF outputs = <<>> THEN {} ELSE Sized \cap {outputs[1].out}
Redrawn      == Sized

\* After the events: when the second has changed, a panel is made for each output.
Clock == /\ at = "handled"
         /\ at' = "loop" /\ tick' = FALSE
         /\ CreatePanels(IF tick THEN Redrawn ELSE {})
         /\ UNCHANGED <<trips, seen, todo, wire, server, choices>>

Setup    == SecondTrip \/ Globals \/ Visit \/ Visited \/ StartLoop
MainLoop == DispatchEvent \/ DispatchFails

Next ==
  \/ TripEvent \/ Setup \/ MainLoop \/ Clock
  \/ \E o \in Outputs : Plug(o) \/ Unplug(o)
  \/ \E k \in {"super", "esc"} : Key(k)
  \/ SeatChanges \/ Hangup \/ SecondPasses

Spec == Init /\ [][Next]_vars

\* main goes on as far as it can and time passes.  A batch of events ends, although
\* events may keep arriving.  Nothing else has to happen.
FairSpec == /\ Spec
            /\ WF_vars(TripEvent) /\ WF_vars(Setup) /\ WF_vars(MainLoop)
            /\ SF_vars(Clock) /\ WF_vars(SecondPasses)
-----------------------------------------------------------------------------
(* Properties.                                                              *)

\* The last part: requests are made of globals that are not NULL, also when the
\* connection breaks in the first round trips, whose results are not looked at.
TypeOK ==
  /\ at \in {"trip", "outputs", "visit", "loop", "handled", "ended"} /\ trips \in 1..2
  /\ bound \subseteq Required
  /\ \A i \in DOMAIN outputs : outputs[i] \in [out : Outputs, width : 0..1, scale : 1..2]
  /\ IsInjective([i \in DOMAIN outputs |-> outputs[i].out])
  /\ todo \in Seq(Outputs)
  /\ keyboard \in {"none", "live", "inert"}
  /\ panels \in [Outputs -> 0..MaxPanels]
  /\ plugged \subseteq Outputs /\ memory \subseteq Outputs
  /\ {launcher_visible, tick, broken, seatKb, replugged, strict} \subseteq BOOLEAN
  /\ (\E o \in Outputs : panels[o] > 0) => bound = Required

\* The round trip before an output is drawn for does "get output dimensions", and the
\* scale, also of an output that was plugged in during the round trips before, unless
\* the connection has broken.
DimensionsKnown ==
  [][at = "visit" /\ at' = "outputs" /\ ~broken =>
       \E i \in DOMAIN outputs : outputs[i] = Known(Head(todo), 1, 1)]_vars

\* When the shell has nothing left to read it listens to the seat's keyboard, unless
\* that has been gone in between: the shell keeps the old wl_keyboard for good, and
\* Super is lost.
DeafOnlyAfterReplug ==
  at = "loop" /\ wire = <<>> /\ ~broken /\ seatKb /\ ~replugged => keyboard = "live"

\* A connection that breaks, wherever main is, ends the shell.  With a compositor that
\* is strict that is what the first panel leads to.
BrokenEnds == broken ~> at = "ended"

\* As long as events come, every output that was announced, a late one too, gets a
\* panel, and then ever more of them: none is taken away when the clock is redrawn, or
\* when the output has gone.
PanelsPileUp ==
  \A o \in Outputs :
    (\E i \in DOMAIN outputs : outputs[i].out = o) ~>
      (panels[o] = MaxPanels \/ at = "ended" \/ o \notin memory \/ [](at # "handled"))
=============================================================================
