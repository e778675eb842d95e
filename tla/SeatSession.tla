---------------------------- MODULE SeatSession ----------------------------
(***************************************************************************)
(* What darwin_session_create and darwin_session_destroy promise the DRM   *)
(* backend of wlroots: a creation ends, with a device or without, whatever *)
(* seatd does meanwhile, and a session that has its device keeps it until  *)
(* it is destroyed.  Once seatd may have lost track of its clients, a      *)
(* creation need not end any more.                                         *)
(***************************************************************************)
CONSTANT Sessions

VARIABLES state, lost

States == {"none", "creating", "active", "over"}

Init == state = [k \in Sessions |-> "none"] /\ lost = FALSE

Goes(k, from, to) == state[k] = from /\ state' = [state EXCEPT ![k] = to] /\ UNCHANGED lost

Begin(k)   == Goes(k, "none", "creating")
Return(k)  == \E r \in {"active", "over"} : Goes(k, "creating", r)
Destroy(k) == Goes(k, "active", "over")
Lose       == ~lost /\ lost' = TRUE /\ UNCHANGED state

Next == Lose \/ \E k \in Sessions : Begin(k) \/ Return(k) \/ Destroy(k)

Spec == /\ Init /\ [][Next]_<<state, lost>>
        /\ \A k \in Sessions : WF_<<state, lost>>(~lost /\ Return(k))
=============================================================================
