---------------------------- MODULE DumbGeometry ----------------------------
(***************************************************************************)
(* The arithmetic of dumb buffers: what CREATE_DUMB makes of a width, a    *)
(* height and a number of bits per pixel, and what the blit of SETCRTC     *)
(* reads and writes.  uint32_t is 0..Word-1; sizes and addresses have 64   *)
(* bits and do not wrap.                                                   *)
(***************************************************************************)
EXTENDS Integers

CONSTANTS
  Word,                   \* 2^32
  Widths, Heights, Bpps,  \* of the requests
  Strides, Rows           \* IOSurfaceGetBytesPerRow and IOSurfaceGetHeight of the display

uint32_t == 0..(Word - 1)

ASSUME WordAssumption == Word \in Nat /\ Word % 64 = 0 /\ Word >= 512
ASSUME RequestAssumption ==
  Widths \subseteq uint32_t /\ Heights \subseteq uint32_t /\ Bpps \subseteq uint32_t
ASSUME DisplayAssumption == Strides \subseteq Nat /\ Rows \subseteq uint32_t

Minimum(a, b) == IF a < b THEN a ELSE b

-----------------------------------------------------------------------------
(* ioctl_create_dumb.  drmModeCreateDumbBuffer and alloc_bo do the same,     *)
(* and the kernel overwrites their result.                                  *)

BitsOf(bpp) == IF bpp # 0 THEN bpp ELSE 32

RoundUp(x) == LET y == (x + 63) % Word IN y - (y % 64)

Pitch(w, bpp)   == RoundUp(((((w * BitsOf(bpp)) % Word) + 7) % Word) \div 8)
Size(w, h, bpp) == Pitch(w, bpp) * h

-----------------------------------------------------------------------------
(* blitToDisplay, for a buffer of h rows of pitch bytes.                    *)

CopyRows(h, rows)    == Minimum(h, rows)
CopyBytes(p, stride) == Minimum(p, stride)

\* Offset of row y in the buffer, a product of two words, and on the display.
SourceOffset(y, p)    == (y * p) % Word
DisplayOffset(y, str) == y * str

-----------------------------------------------------------------------------
(* Properties.                                                              *)

\* A row of the buffer holds the bits of its pixels, and rows start at multiples of 64
\* bytes, unless the number of these bits does not fit a word.
RowsFit ==
  \A w \in Widths, bpp \in Bpps :
    w * BitsOf(bpp) + 7 < Word =>
      /\ 8 * Pitch(w, bpp) >= w * BitsOf(bpp)
      /\ Pitch(w, bpp) % 64 = 0

\* The blit neither reads beyond the buffer nor writes beyond the display, also when the
\* width, or the offset of a row, has wrapped.
BlitInBounds ==
  \A w \in Widths, h \in Heights, bpp \in Bpps, str \in Strides, rows \in Rows :
    LET p     == Pitch(w, bpp)
        bytes == CopyBytes(p, str)
    IN \A y \in 0..(CopyRows(h, rows) - 1) :
         /\ SourceOffset(y, p) + bytes <= Size(w, h, bpp)
         /\ DisplayOffset(y, str) + bytes <= rows * str

\* It reads each row where it is, in a buffer of less than 4 GiB: the mask of physical
\* addresses admits no other.
BlitReadsRows ==
  \A w \in Widths, h \in Heights, bpp \in Bpps, rows \in Rows :
    Size(w, h, bpp) <= Word =>
      \A y \in 0..(CopyRows(h, rows) - 1) :
        SourceOffset(y, Pitch(w, bpp)) = y * Pitch(w, bpp)
=============================================================================
