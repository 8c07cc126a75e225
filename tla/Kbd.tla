--------------------------------- MODULE Kbd ---------------------------------
(***************************************************************************)
(* The PS/2 keyboard driver of xv6 (src/kernel/kbd.c): kbdgetc() decoding  *)
(* scan code set 1 bytes into characters, with the modifier and lock state *)
(* kept in its static shift, and the keyboard that sends those bytes.      *)
(*                                                                         *)
(* consoleintr() (console.c, not in the repository) calls kbdgetc() from   *)
(* the keyboard interrupt until it returns -1; each call reads one byte    *)
(* from the controller, so one call is one step.  The keyboard is an       *)
(* actor of its own: a key press sends the make code, a release the break  *)
(* code (make | 0x80), an extended key prefixes each with 0xE0, and the    *)
(* last key pressed repeats its make code while held (typematic repeat).   *)
(* The tables of kbd.h (not in the repository) are given for the keys the  *)
(* model presses, with their scan code set 1 values.                       *)
(***************************************************************************)
EXTENDS Integers, Sequences

CONSTANTS
  MaxBytes,   \* bytes the keyboard and controller buffer before kbdgetc reads them
  NoKey       \* model value: no key repeating

\* the shift bits of kbd.h
SHIFT == "SHIFT"
CTL == "CTL"
ALT == "ALT"
CAPSLOCK == "CAPSLOCK"
NUMLOCK == "NUMLOCK"
SCROLLLOCK == "SCROLLLOCK"
E0ESC == "E0ESC"
Bits == {SHIFT, CTL, ALT, CAPSLOCK, NUMLOCK, SCROLLLOCK, E0ESC}

\* the keys the model presses, their make codes and whether they are extended
Keys == {"LShift", "RShift", "LCtrl", "RCtrl", "Caps", "A"}
Make == [k \in Keys |->
          CASE k = "LShift" -> \h2A [] k = "RShift" -> \h36
            [] k = "LCtrl"  -> \h1D [] k = "RCtrl"  -> \h1D
            [] k = "Caps"   -> \h3A [] k = "A"      -> \h1E]
Extended == {"RCtrl"}
ShiftKeys == {"LShift", "RShift"}
CtlKeys   == {"LCtrl", "RCtrl"}

\* kbd.h shiftcode[]: the modifier a (possibly 0x80-tagged) code sets
ShiftCode(d) ==
  IF d \in {\h1D, \h9D} THEN {CTL}
  ELSE IF d \in {\h2A, \h36} THEN {SHIFT}
  ELSE IF d \in {\h38, \hB8} THEN {ALT}
  ELSE {}

\* kbd.h togglecode[]
ToggleCode(d) ==
  IF d = \h3A THEN {CAPSLOCK}
  ELSE IF d = \h45 THEN {NUMLOCK}
  ELSE IF d = \h46 THEN {SCROLLLOCK}
  ELSE {}

\* charcode[shift & (CTL | SHIFT)][data]: normalmap, shiftmap, ctlmap, ctlmap.
\* Of the model's codes only 0x1E has a character; the others map to 0.
\* Characters are their codes: 'a' is 97, 'A' is 65, C('A') is 1.
CharCode(m, d) ==
  IF d # \h1E THEN 0
  ELSE IF CTL \in m THEN 1 ELSE IF SHIFT \in m THEN 65 ELSE 97

VARIABLES
  shift,    \* kbdgetc's static uint shift, as a set of bits
  bytes,    \* bytes sent by the keyboard and not yet read from KBDATAP
  out,      \* the value the last kbdgetc() returned
  last,     \* history: the last byte kbdgetc() read (0 before any)
  held,     \* keys physically down
  repeating \* the key whose make code the keyboard repeats

vars == <<shift, bytes, out, last, held, repeating>>

Bytes(k, code) == IF k \in Extended THEN <<\hE0, code>> ELSE <<code>>

-----------------------------------------------------------------------------
(* The keyboard *)

Send(s) == Len(bytes) + Len(s) <= MaxBytes /\ bytes' = bytes \o s

Press(k) ==
  /\ k \notin held
  /\ Send(Bytes(k, Make[k]))
  /\ held' = held \cup {k}
  /\ repeating' = k
  /\ UNCHANGED <<shift, out, last>>

Repeat ==
  /\ repeating # NoKey
  /\ Send(Bytes(repeating, Make[repeating]))
  /\ UNCHANGED <<shift, out, last, held, repeating>>

Release(k) ==
  /\ k \in held
  /\ Send(Bytes(k, Make[k] + \h80))
  /\ held' = held \ {k}
  /\ repeating' = IF repeating = k THEN NoKey ELSE repeating
  /\ UNCHANGED <<shift, out, last>>

-----------------------------------------------------------------------------
(* kbdgetc() *)

\* mutant: the case swap adds where it should subtract
CapsAdjustSwapped(s, c) ==
  IF CAPSLOCK \notin s THEN c
  ELSE IF 97 <= c /\ c <= 122 THEN c + 32
  ELSE IF 65 <= c /\ c <= 90 THEN c - 32
  ELSE c

\* the `if(shift & CAPSLOCK)` case swap of a letter
CapsAdjust(s, c) ==
  IF CAPSLOCK \notin s THEN c
  ELSE IF 97 <= c /\ c <= 122 THEN c - 32
  ELSE IF 65 <= c /\ c <= 90 THEN c + 32
  ELSE c

\* a make code d (0x80-tagged if it followed 0xE0) with shift s:
\* shift |= shiftcode[data]; shift ^= togglecode[data]; look the key up
KeyDown(d, s) ==
  LET s1 == s \cup ShiftCode(d)
      s2 == (s1 \ ToggleCode(d)) \cup (ToggleCode(d) \ s1)
  IN
  /\ shift' = s2
  /\ out' = CapsAdjust(s2, CharCode(s2 \cap {CTL, SHIFT}, d))

\* mutant: the extended-key path leaves E0ESC set
KeyMakeKeepEsc(d) ==
  IF E0ESC \in shift THEN KeyDown(d + \h80, shift) ELSE KeyDown(d, shift)

\* a make code: an E0-escaped one is tagged with 0x80 and clears E0ESC
KeyMake(d) ==
  IF E0ESC \in shift THEN KeyDown(d + \h80, shift \ {E0ESC})
                     ELSE KeyDown(d, shift)

\* mutant: the 0x80 bit of a plain break code is not masked out
KeyBreakNoMask(d) ==
  /\ shift' = shift \ (ShiftCode(d) \cup {E0ESC})
  /\ out' = 0

\* a break code: the released key's modifier and E0ESC are cleared; the
\* 0x80 bit is kept only after 0xE0
KeyBreak(d) ==
  /\ shift' = shift \ (ShiftCode(IF E0ESC \in shift THEN d ELSE d % \h80) \cup {E0ESC})
  /\ out' = 0

(* kbdgetc() with a byte in the controller (KBS_DIB set; without one it    *)
(* returns -1 and changes nothing): read it from KBDATAP and decode it.    *)
Kbdgetc ==
  /\ bytes # <<>>
  /\ LET d == Head(bytes) IN
       /\ IF d = \hE0 THEN shift' = shift \cup {E0ESC} /\ out' = 0
          ELSE IF d >= \h80 THEN KeyBreak(d)
          ELSE KeyMake(d)
       /\ last' = d
  /\ bytes' = Tail(bytes)
  /\ UNCHANGED <<held, repeating>>

-----------------------------------------------------------------------------
Init ==
  /\ shift = {} /\ bytes = <<>> /\ out = 0 /\ last = 0
  /\ held = {} /\ repeating = NoKey

Next ==
  \/ \E k \in Keys : Press(k) \/ Release(k)
  \/ Repeat
  \/ Kbdgetc

Spec == Init /\ [][Next]_vars

-----------------------------------------------------------------------------
TypeOK ==
  /\ shift \subseteq Bits
  /\ bytes \in Seq(0..255) /\ Len(bytes) <= MaxBytes
  /\ out \in {0, 1, 65, 97}
  /\ last \in 0..255
  /\ held \subseteq Keys /\ repeating \in Keys \cup {NoKey}

(* kbdgetc() is between the two bytes of an extended code exactly when the *)
(* byte it read last was 0xE0: the escape set by one interrupt is consumed *)
(* by the next byte, press or release, and never outlives it.              *)
EscapePending == (E0ESC \in shift) <=> (last = \hE0)

(* With every key up and every byte read, no modifier is left set: each    *)
(* release, plain or extended, clears what its press set.                  *)
NoStuckModifier ==
  held = {} /\ bytes = <<>> => shift \cap {SHIFT, CTL, ALT, E0ESC} = {}
=============================================================================
