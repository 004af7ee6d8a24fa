------------------------------- MODULE Kernels -------------------------------
(***************************************************************************)
(* The computations of the treatment task and of the workers, each on      *)
(* every input of a set: an input is an initial state, the computation a   *)
(* step.                                                                   *)
(***************************************************************************)
EXTENDS Fft, Filters

CONSTANTS
  Samples,     \* the samples of a transform
  Powers,      \* the powers of a spectrum
  Sizes,       \* the widths and heights of grey images
  GreyBytes,   \* the bytes of a grey image
  FrameSizes,  \* the widths and heights of frames
  Bytes,       \* the bytes of a frame
  HeapByte,    \* what malloc leaves in a worker's image
  ScreenByte   \* what the screen shows before a worker writes to it

ASSUME SizesAssumption ==
  /\ Sizes \subseteq (Nat \ {0}) \X (Nat \ {0})
  /\ FrameSizes \subseteq (Nat \ {0}) \X (Nat \ {0})
ASSUME ValuesAssumption ==
  /\ Samples \subseteq Value /\ Powers \subseteq Int
  /\ GreyBytes \subseteq 0 .. 255 /\ Bytes \subseteq 0 .. 255
  /\ HeapByte \in 0 .. 255 /\ ScreenByte \in 0 .. 255

VARIABLES kernel, input, result

vars == <<kernel, input, result>>

Image(size, components, data) ==
  [width |-> size[1], height |-> size[2], components |-> components, data |-> data]
None == <<>>

\* The worker's own image before its first pass, and the screen before that.
Malloced(img) == [img EXCEPT !.data = [i \in DOMAIN @ |-> HeapByte]]
Screen(img) == [i \in DOMAIN img.data |-> ScreenByte]

Images(sizes, components, bytes) ==
  UNION {{Image(size, components, data) :
            data \in [0 .. size[1] * size[2] * components - 1 -> bytes]} : size \in sizes}

Init ==
  /\ result = None
  /\ \/ kernel = "fft" /\ input \in [Index -> Samples]
     \/ kernel = "peak" /\ input \in [1 .. Last -> Powers]
     \/ kernel \in {"grey", "edges"} /\ input \in Images(FrameSizes, 4, Bytes)
     \/ kernel = "sobel" /\ input \in Images(Sizes, 1, GreyBytes)

Compute(k, value) ==
  /\ kernel = k /\ result = None
  /\ result' = <<value>> /\ UNCHANGED <<kernel, input>>

Transform == Compute("fft", fft(input))
Search == Compute("peak", max_index(input))
ShowGrey == Compute("grey", greyscale_task(input, Malloced(input), Screen(input)))
ShowEdges == Compute("edges", convolution_task(input, Malloced(input), Screen(input)))
Convolve == Compute("sobel", convolution_grayscale(input.data, input.width, input.height))

Next == Transform \/ Search \/ ShowGrey \/ ShowEdges \/ Convolve

Spec == Init /\ [][Next]_vars

Done(k) == kernel = k /\ result # None

-----------------------------------------------------------------------------
(* Properties *)

\* The recursion with swapped arrays computes the discrete Fourier transform, in
\* buf and in order (fft_utils.c:3-27).
FftIsDft == Done("fft") => result[1] = Dft(input)

\* The frequency reported is the first of the strongest, never the constant part
\* of the signal (audio_setup.c:89-102).
PeakIsStrongest == Done("peak") => result[1] = Strongest(input)

\* Both workers start from the same grey: what the screen shows after a pass of
\* greyscale_task is what convolution_task looks for edges in.  Of the fourth bytes
\* neither takes the frame's nor keeps the screen's: they come with the copy of the
\* worker's whole image, where nothing has set them (grayscale.c:7-50,
\* video_setup.c:37-41 and 68-71).
FiltersAgree ==
  Done("grey") \/ Done("edges") =>
    LET grey == rgba_to_grayscale8(input)
        pixel == IF kernel = "grey" THEN grey
                 ELSE convolution_grayscale(grey, input.width, input.height)
    IN  \A i \in 0 .. input.width * input.height - 1 :
          /\ \A c \in 0 .. 2 : result[1][4 * i + c] = pixel[i]
          /\ result[1][4 * i + 3] = Malloced(input).data[4 * i + 3]

\* The pixel of the result is an edge when the Sobel gradient of the image, black
\* all around, exceeds the threshold (convolution.c:5-42).
Padded(x, y) ==
  IF x \in 0 .. input.width - 1 /\ y \in 0 .. input.height - 1
  THEN input.data[y * input.width + x] ELSE 0
Column(x, y) == Padded(x, y - 1) + 2 * Padded(x, y) + Padded(x, y + 1)
Row(x, y) == Padded(x - 1, y) + 2 * Padded(x, y) + Padded(x + 1, y)
EdgesAreSobel ==
  Done("sobel") =>
    \A x \in 0 .. input.width - 1, y \in 0 .. input.height - 1 :
      result[1][y * input.width + x] =
        IF Abs(Column(x + 1, y) - Column(x - 1, y)) + Abs(Row(x, y + 1) - Row(x, y - 1)) > 125
        THEN 220 ELSE 50

=============================================================================
