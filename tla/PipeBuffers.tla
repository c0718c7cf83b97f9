---------------------------- MODULE PipeBuffers ----------------------------
(***************************************************************************)
(* The byte buffers between the pipe's Unix socket and WebRTC              *)
(* (signal-call-tunnel/src/pipe_audio.rs), as operators on sequences: what *)
(* cap_buffer, take_window and the sample-to-byte conversion keep, drop    *)
(* and return.  A byte is abstract: the operators look at lengths only.    *)
(***************************************************************************)
EXTENDS Integers, Sequences

CONSTANTS
    WEBRTC_WINDOW,   \* samples WebRTC exchanges per tick (480 in the code)
    WINDOWS_KEPT     \* windows buffered each way before bytes are dropped (8)

ASSUME WindowAssumption == WEBRTC_WINDOW \in Nat \ {0}
ASSUME KeptAssumption   == WINDOWS_KEPT \in Nat \ {0}

BYTES_PER_SAMPLE == 2

bytes_per_window == BYTES_PER_SAMPLE * WEBRTC_WINDOW
max_buffered     == bytes_per_window * WINDOWS_KEPT

(* Mutants: the excess not rounded to samples; a sample of slack.          *)
OverflowUnrounded(len) == IF len > max_buffered THEN len - max_buffered ELSE 0
OverflowSlack(len) ==
    IF len > max_buffered + BYTES_PER_SAMPLE
    THEN (len - max_buffered) - ((len - max_buffered) % BYTES_PER_SAMPLE)
    ELSE 0

(* How many bytes cap_buffer removes: the excess, rounded down to samples. *)
Overflow(len) ==
    IF len > max_buffered
    THEN (len - max_buffered) - ((len - max_buffered) % BYTES_PER_SAMPLE)
    ELSE 0

cap_buffer(buf) == SubSeq(buf, Overflow(Len(buf)) + 1, Len(buf))

(* Whole samples take_window finds in a buffer of len bytes.               *)
Available(len) ==
    IF len \div BYTES_PER_SAMPLE < WEBRTC_WINDOW
    THEN len \div BYTES_PER_SAMPLE
    ELSE WEBRTC_WINDOW

Silence == <<>>

(* Mutant: the bytes of a sample swapped.                                  *)
WindowOfBigEndian(buf) ==
    [i \in 1..WEBRTC_WINDOW |->
        IF i <= Available(Len(buf))
        THEN <<buf[2 * i], buf[2 * i - 1]>>
        ELSE Silence]

(* The window take_window returns: a sample is its two bytes, low first;   *)
(* the tail is silence when too few whole samples are buffered.            *)
WindowOf(buf) ==
    [i \in 1..WEBRTC_WINDOW |->
        IF i <= Available(Len(buf))
        THEN <<buf[2 * i - 1], buf[2 * i]>>
        ELSE Silence]

(* What take_window leaves in the buffer.                                  *)
AfterWindow(buf) ==
    SubSeq(buf, BYTES_PER_SAMPLE * Available(Len(buf)) + 1, Len(buf))
=============================================================================
