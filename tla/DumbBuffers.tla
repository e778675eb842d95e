---------------------------- MODULE DumbBuffers ----------------------------
(***************************************************************************)
(* What the character device /dev/dri/card0 promises its users, with no    *)
(* lock, no table and no steps inside an ioctl: a set of open dumb buffers *)
(* named by small handles, each with memory of its own, and one buffer     *)
(* that was last sent to the display.  IODRMShim implements this module    *)
(* (see Refinement there), and DarwinGBM is built on it.                   *)
(***************************************************************************)
EXTENDS Naturals

CONSTANTS
  NumBOs,   \* number of handles the device can give out
  Mems,     \* memory descriptors a buffer can be backed by
  NoMem     \* "this handle is closed"

VARIABLES
  mode,     \* "down", "up", or "broken" after an unload under running ioctls
  bufs,     \* the memory behind each handle, NoMem when it is closed
  scanout   \* the handle last sent to the display, 0 before the first one

dbvars == <<mode, bufs, scanout>>

BufHandles == 1..NumBOs
Closed     == [h \in BufHandles |-> NoMem]
OpenBufs   == {h \in BufHandles : bufs[h] # NoMem}

BufInit == /\ mode = "down"
           /\ bufs = Closed
           /\ scanout = 0

\* The driver comes up with no buffer and nothing on the display.
BufLoad == /\ mode = "down"
           /\ mode' = "up"
           /\ bufs' = Closed
           /\ scanout' = 0

\* A buffer gets a handle that nobody holds and memory that backs no other.
BufCreate(h, m) == /\ mode = "up"
                   /\ h \notin OpenBufs
                   /\ \A k \in OpenBufs : bufs[k] # m
                   /\ bufs' = [bufs EXCEPT ![h] = m]
                   /\ UNCHANGED <<mode, scanout>>

\* Closing frees the handle; closing a closed handle is a stutter.
BufClose(h) == /\ mode = "up"
               /\ h \in OpenBufs
               /\ bufs' = [bufs EXCEPT ![h] = NoMem]
               /\ UNCHANGED <<mode, scanout>>

\* Only an open buffer can be sent to the display.
BufScan(h) == /\ mode = "up"
              /\ h \in OpenBufs
              /\ scanout' = h
              /\ UNCHANGED <<mode, bufs>>

BufUnload == /\ mode = "up"
             /\ mode' = "down"
             /\ bufs' = Closed
             /\ scanout' = 0

\* Nothing is promised once the driver is unloaded under a running ioctl.
BufBreak == /\ mode = "up"
            /\ mode' = "broken"
            /\ bufs' = Closed
            /\ scanout' = 0

BufNext == \/ BufLoad \/ BufUnload \/ BufBreak
           \/ \E h \in BufHandles, m \in Mems : BufCreate(h, m)
           \/ \E h \in BufHandles : BufClose(h) \/ BufScan(h)

BufSpec == BufInit /\ [][BufNext]_dbvars
=============================================================================
