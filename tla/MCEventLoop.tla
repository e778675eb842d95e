---------------------------- MODULE MCEventLoop ----------------------------
(* Small instances of EventLoop for TLC.                                    *)
EXTENDS EventLoop, TLC

FdSymmetry == Permutations(Fds)

\* The liveness run is about careful callers.  A caller that was careless once stays
\* so: what is cut off are whole behaviours, never the rest of a careful one.
CarefulCallers == ~careless

\* Bound of the runs with three slots: two of them may be of any kind, but the last is
\* given out only where the first is a read source and the others are write sources.
\* So the handler of 1 and main can add both others at once, and register them in
\* either order.  A kind is for ever, so this too cuts off whole behaviours.
LastSlot == source_count = MaxSources
              \/ \E t \in Threads : \/ call[t].slot = MaxSources
                                    \/ call[t].op = "take" /\ source_count = MaxSources - 1
WritesAtTheEnd ==
  LastSlot => \A s \in Slots :
                sources[s].kind \in IF s = 1 THEN {"read"} ELSE {"none", "write"}
=============================================================================
