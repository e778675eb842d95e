---------------------------- MODULE Compositor -----------------------------
(***************************************************************************)
(* luna-compositor: windows, keyboard focus and key bindings.  One thread  *)
(* runs the handlers one after the other, in whatever order clients,       *)
(* keyboards and wlroots call them.                                        *)
(***************************************************************************)
EXTENDS SequencesExt

CONSTANTS
  Surfaces,  \* the wl_surfaces that become windows, each once
  NoSurface

ASSUME NoSurfaceAssumption == NoSurface \notin Surfaces

VARIABLES
  life,        \* of each surface: "new", "view" (it has a luna_view), "left", "gone"
  views,       \* the list of views, and
  scene,       \* their nodes in the scene, topmost first
  mapped,      \* views that are mapped
  activated,   \* toplevels last told that they are active
  focused,     \* keyboard_state.focused_surface of the seat
  keyboard,    \* has the seat a keyboard?
  closing,     \* toplevels asked to close
  running,
  blind        \* history: was a view focused while there was no keyboard?

seat == <<focused, keyboard>>
vars == <<life, views, scene, mapped, activated, seat, closing, running, blind>>

Init ==
  /\ life = [s \in Surfaces |-> "new"]
  /\ views = <<>> /\ scene = <<>>
  /\ mapped = {} /\ activated = {} /\ closing = {}
  /\ focused = NoSurface /\ keyboard = FALSE
  /\ running = TRUE
  /\ blind = FALSE

-----------------------------------------------------------------------------
(* Views.                                                                   *)

ToFront(s, list) == <<s>> \o RemoveFirst(list, s)

\* Mutants of RaiseView and of Deactivate: a view that gets the focus stays where it is
\* in the list; the window that loses it is not told.
RaiseViewNot(s)  == views
RaiseView(s)     == ToFront(s, views)
DeactivateNone   == {}
Deactivate       == {focused}

\* focus_view.  Without a keyboard the seat's focus stays where it is.
FocusView(s) ==
  IF focused = s
    THEN UNCHANGED <<views, scene, activated, focused, blind>>
    ELSE /\ activated' = (activated \ Deactivate) \cup {s}
         /\ scene' = ToFront(s, scene)
         /\ views' = RaiseView(s)
         /\ focused' = IF keyboard THEN s ELSE focused
         /\ blind' = (blind \/ ~keyboard)

\* server_new_xdg_surface, for a toplevel; a popup returns at once.
NewXdgSurface(s) ==
  /\ running /\ life[s] = "new"
  /\ life' = [life EXCEPT ![s] = "view"]
  /\ views' = <<s>> \o views
  /\ scene' = <<s>> \o scene
  /\ UNCHANGED <<mapped, activated, seat, closing, running, blind>>

\* view_map.  The handle for the panel lives as long as the view is mapped.
ViewMap(s) ==
  /\ running /\ life[s] = "view" /\ s \notin mapped
  /\ mapped' = mapped \cup {s}
  /\ FocusView(s)
  /\ UNCHANGED <<life, keyboard, closing, running>>

\* view_unmap.  The focus of the seat stays; wlroots may reset the toplevel's state.
ViewUnmap(s) ==
  /\ running /\ s \in mapped
  /\ mapped' = mapped \ {s}
  /\ activated' \in {activated, activated \ {s}}
  /\ UNCHANGED <<life, views, scene, seat, closing, running, blind>>

\* Mutant of RemoveView: the view stays in the list.
RemoveViewNot(s) == views
RemoveView(s)    == RemoveFirst(views, s)

\* view_destroy, for a view that wlroots has unmapped; its wl_surface may live on.
ViewDestroy(s) ==
  /\ running /\ life[s] = "view" /\ s \notin mapped
  /\ life' = [life EXCEPT ![s] = "left"]
  /\ views' = RemoveView(s)
  /\ scene' = RemoveFirst(scene, s)
  /\ activated' = activated \ {s} /\ closing' = closing \ {s}
  /\ UNCHANGED <<mapped, seat, running, blind>>

\* The client destroys the wl_surface: the seat forgets it.
SurfaceDestroy(s) ==
  /\ running /\ life[s] = "left"
  /\ life' = [life EXCEPT ![s] = "gone"]
  /\ focused' = IF focused = s THEN NoSurface ELSE focused
  /\ UNCHANGED <<views, scene, mapped, activated, keyboard, closing, running, blind>>

-----------------------------------------------------------------------------
(* Keyboards.                                                               *)

\* server_new_input, for a keyboard.  One at a time: the listeners of the server fit
\* into the lists of one keyboard only.
NewKeyboard ==
  /\ running /\ ~keyboard /\ keyboard' = TRUE
  /\ UNCHANGED <<life, views, scene, mapped, activated, focused, closing, running, blind>>

\* A keyboard is unplugged: the seat has none, and keeps the focused surface.
KeyboardGone ==
  /\ running /\ keyboard /\ keyboard' = FALSE
  /\ UNCHANGED <<life, views, scene, mapped, activated, focused, closing, running, blind>>

\* handle_keyboard_key.  Super+T starts a process, and other keys go to the client.
SuperQ ==
  /\ running /\ keyboard /\ views # <<>>
  /\ Head(views) \in mapped /\ closing' = closing \cup {Head(views)}
  /\ UNCHANGED <<life, views, scene, mapped, activated, seat, running, blind>>

SuperShiftE ==
  /\ running /\ keyboard /\ running' = FALSE
  /\ UNCHANGED <<life, views, scene, mapped, activated, seat, closing, blind>>

-----------------------------------------------------------------------------
Next ==
  \/ \E s \in Surfaces : \/ NewXdgSurface(s) \/ ViewMap(s) \/ ViewUnmap(s)
                         \/ ViewDestroy(s) \/ SurfaceDestroy(s)
  \/ NewKeyboard \/ KeyboardGone
  \/ SuperQ \/ SuperShiftE

Spec == Init /\ [][Next]_vars

-----------------------------------------------------------------------------
(* Properties.                                                              *)

\* The views of the list are exactly those that live, each once.
TypeOK ==
  /\ life \in [Surfaces -> {"new", "view", "left", "gone"}]
  /\ ToSet(views) = {s \in Surfaces : life[s] = "view"} /\ IsInjective(views)
  /\ mapped \subseteq ToSet(views)
  /\ activated \subseteq ToSet(views)
  /\ closing \subseteq ToSet(views)
  /\ focused \in Surfaces \cup {NoSurface}
  /\ {keyboard, running, blind} \subseteq BOOLEAN

\* The list of views, which key bindings use, is always the order in which the windows
\* are stacked on the screen.
ListIsStacking == views = scene

\* Only the window with the keyboard focus has been told that it is active, unless a
\* window was mapped while there was no keyboard.
OnlyFocusedActive == blind \/ activated \subseteq {focused}

\* No mapped window is stacked above the one with the keyboard focus, unless a window
\* was mapped while there was no keyboard.
FocusedInFront ==
  ~blind /\ focused \in mapped =>
    \A i, j \in DOMAIN views : views[j] = focused /\ i < j => views[i] \notin mapped

\* "Super+Q: close focused window": no other window is asked to close.
SuperQClosesFocused == [][closing' \subseteq closing \cup {focused}]_vars
=============================================================================
