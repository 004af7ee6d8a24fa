---------------------------- MODULE KernelsProofs ----------------------------
(***************************************************************************)
(* Proofs about Kernels, for transforms of every size, images of every     *)
(* size, every byte of a frame and every spectrum.                         *)
(***************************************************************************)
EXTENDS Kernels, FftProofs

-----------------------------------------------------------------------------
(* What is reachable: a computation leaves its input alone.                *)

\* What each computation gives of the input.
Given ==
  /\ kernel = "fft" /\ result # None => result = <<fft(input)>>
  /\ kernel = "peak" /\ result # None => result = <<max_index(input)>>
  /\ kernel = "grey" /\ result # None => result = <<greyscale_task(input, Malloced(input), Screen(input))>>
  /\ kernel = "edges" /\ result # None => result = <<convolution_task(input, Malloced(input), Screen(input))>>
  /\ kernel = "sobel" /\ result # None
       => result = <<convolution_grayscale(input.data, input.width, input.height)>>

Inputs ==
  /\ kernel = "fft" => input \in [Index -> Samples]
  /\ kernel = "peak" => input \in [1 .. Last -> Powers]
  /\ kernel \in {"grey", "edges"} => input \in Images(FrameSizes, 4, Bytes)
  /\ kernel = "sobel" => input \in Images(Sizes, 1, GreyBytes)

\* A result is what the code computes of an input as it was.
LEMMA Computed == Spec => [](Inputs /\ Given)
<1>1. Init => Inputs /\ Given
  BY DEF Init, Inputs, Given
<1>2. Inputs /\ Given /\ [Next]_vars => (Inputs /\ Given)'
  <2> SUFFICES ASSUME Inputs, Given, [Next]_vars
               PROVE  (Inputs /\ Given)'
    OBVIOUS
  <2>1. CASE UNCHANGED vars
    BY <2>1 DEF vars, Inputs, Given
  <2>2. ASSUME NEW k, NEW value, Compute(k, value)
        PROVE  /\ Inputs'
               /\ kernel = k /\ kernel' = k /\ input' = input /\ result' = <<value>>
    BY <2>2 DEF Compute, Inputs
  <2>3. CASE Transform
    BY <2>3, <2>2 DEF Transform, Given
  <2>4. CASE Search
    BY <2>4, <2>2 DEF Search, Given
  <2>5. CASE ShowGrey
    BY <2>5, <2>2 DEF ShowGrey, Given
  <2>6. CASE ShowEdges
    BY <2>6, <2>2 DEF ShowEdges, Given
  <2>7. CASE Convolve
    BY <2>7, <2>2 DEF Convolve, Given
  <2> QED BY <2>1, <2>3, <2>4, <2>5, <2>6, <2>7 DEF Next
<1> QED BY <1>1, <1>2, PTL DEF Spec

-----------------------------------------------------------------------------
(* The transform                                                           *)

\* What treatment gets of fft is the discrete Fourier transform of its samples, in
\* buf and in order (fft_utils.c:3-27), for every size that is a power of 2 and
\* every ring.
THEOREM TransformComputed == Spec => []FftIsDft
<1>1. Inputs /\ Given => FftIsDft
  <2> SUFFICES ASSUME Inputs, Given, Done("fft")
               PROVE  result[1] = Dft(input)
    BY DEF FftIsDft
  <2>1. input \in Arrays
    BY ValuesAssumption DEF Inputs, Done, Arrays
  <2>2. result[1] = fft(input)
    BY DEF Given, Done
  <2> QED BY <2>1, <2>2, FftIsTransform
<1> QED BY <1>1, Computed, PTL

-----------------------------------------------------------------------------
(* The filters                                                             *)

\* The four places of a pixel in a frame.
LEMMA FourPlaces ==
  ASSUME NEW w \in Nat \ {0}, NEW h \in Nat \ {0}, NEW i \in 0 .. w * h - 1, NEW c \in 0 .. 3
  PROVE  /\ 4 * i + c \in 0 .. w * h * 4 - 1
         /\ (4 * i + c) % 4 = c /\ (4 * i + c) \div 4 = i
         /\ (4 * i + c) - c = 4 * i
<1> DEFINE n == w * h
<1>1. n \in Nat
  OBVIOUS
<1>2. w * h * 4 = 4 * n
  OBVIOUS
<1> HIDE DEF n
<1>3. i \in 0 .. n - 1
  BY DEF n
<1>4. 4 * i + c \in 0 .. 4 * n - 1
  BY <1>1, <1>3
<1>5. (4 * i + c) % 4 = c /\ (4 * i + c) \div 4 = i
  BY <1>1, <1>3
<1> QED BY <1>2, <1>3, <1>4, <1>5

\* The worker's own image, and the screen, before a pass.
LEMMA ImagesBefore ==
  ASSUME NEW size, NEW components, NEW data
  PROVE  /\ Malloced(Image(size, components, data))
              = Image(size, components, [n \in DOMAIN data |-> HeapByte])
         /\ Screen(Image(size, components, data)) = [n \in DOMAIN data |-> ScreenByte]
BY DEF Malloced, Screen, Image

\* The copy takes every byte that the screen has a place for.
LEMMA Copied ==
  ASSUME NEW screen, NEW img, NEW n
  PROVE  /\ DOMAIN Memcpy(screen, img) = DOMAIN screen
         /\ n \in DOMAIN screen => Memcpy(screen, img)[n] = img.data[n]
BY DEF Memcpy

\* The screen after a pass of either worker: one value for the three colours of a
\* pixel, which both compute from the same grey, and for the fourth byte what malloc
\* left in the worker's image (grayscale.c:7-50, video_setup.c:37-41 and 68-71).
THEOREM WorkersAgree == Spec => []FiltersAgree
<1>1. Inputs /\ Given => FiltersAgree
  <2> SUFFICES ASSUME Inputs, Given, Done("grey") \/ Done("edges"),
                      NEW i \in 0 .. input.width * input.height - 1
               PROVE  LET grey == rgba_to_grayscale8(input)
                          pixel == IF kernel = "grey" THEN grey
                                   ELSE convolution_grayscale(grey, input.width, input.height)
                      IN  /\ \A c \in 0 .. 2 : result[1][4 * i + c] = pixel[i]
                          /\ result[1][4 * i + 3] = Malloced(input).data[4 * i + 3]
    BY DEF FiltersAgree
  <2> DEFINE w == input.width
             h == input.height
             grey == rgba_to_grayscale8(input)
             edges == convolution_grayscale(grey, w, h)
             own == Malloced(input)
             screen == Screen(input)
  <2>1. PICK size \in FrameSizes :
          \E bytes \in [0 .. size[1] * size[2] * 4 - 1 -> Bytes] : input = Image(size, 4, bytes)
    BY DEF Inputs, Done, Images
  <2>2. PICK bytes \in [0 .. size[1] * size[2] * 4 - 1 -> Bytes] : input = Image(size, 4, bytes)
    BY <2>1
  <2>3. /\ w \in Nat \ {0} /\ h \in Nat \ {0} /\ input.components = 4
        /\ own.components = 4
        /\ own.data = [n \in 0 .. w * h * 4 - 1 |-> HeapByte]
        /\ DOMAIN screen = 0 .. w * h * 4 - 1
    <3>1. size[1] \in Nat \ {0} /\ size[2] \in Nat \ {0}
      BY SizesAssumption
    <3>2. /\ w = size[1] /\ h = size[2] /\ input.components = 4 /\ input.data = bytes
          /\ input = [width |-> size[1], height |-> size[2], components |-> 4, data |-> bytes]
      BY <2>2 DEF Image
    <3>3. /\ own = Image(size, 4, [n \in DOMAIN bytes |-> HeapByte])
          /\ screen = [n \in DOMAIN bytes |-> ScreenByte]
      BY <2>2, ImagesBefore
    <3>4. DOMAIN bytes = 0 .. size[1] * size[2] * 4 - 1
      BY <2>2
    <3> HIDE DEF w, h, own, screen
    <3>5. own.components = 4 /\ own.data = [n \in DOMAIN bytes |-> HeapByte]
      BY <3>3 DEF Image
    <3>6. 0 .. size[1] * size[2] * 4 - 1 = 0 .. w * h * 4 - 1
      BY <3>2
    <3> QED BY <3>1, <3>2, <3>3, <3>4, <3>5, <3>6
  <2>4. \A c \in 0 .. 3 : /\ 4 * i + c \in 0 .. w * h * 4 - 1
                          /\ (4 * i + c) % 4 = c /\ (4 * i + c) \div 4 = i
                          /\ (4 * i + c) - c = 4 * i
    <3>1. i \in 0 .. w * h - 1
      OBVIOUS
    <3> HIDE DEF w, h
    <3> SUFFICES ASSUME NEW c \in 0 .. 3
                 PROVE  /\ 4 * i + c \in 0 .. w * h * 4 - 1
                        /\ (4 * i + c) % 4 = c /\ (4 * i + c) \div 4 = i
                        /\ (4 * i + c) - c = 4 * i
      OBVIOUS
    <3> QED BY <2>3, <3>1, FourPlaces
  <2>5. grey[i] = Byte(Grey(input, 4 * i))
    BY <2>3 DEF rgba_to_grayscale8
  <2> HIDE DEF grey, edges, own, screen, w, h
  <2>6. CASE kernel = "grey"
    <3> DEFINE img == rgba_to_grayscale32(input, own)
    <3>1. result[1] = Memcpy(screen, img)
      BY <2>6 DEF Given, Done, greyscale_task, own, screen
    <3>2. img.data
            = [n \in 0 .. w * h * 4 - 1 |->
                 IF n % 4 = 3 THEN own.data[n] ELSE Byte(Grey(input, n - (n % 4)))]
      BY <2>3 DEF rgba_to_grayscale32
    <3> HIDE DEF img
    <3>3. \A n \in 0 .. w * h * 4 - 1 :
            result[1][n] = IF n % 4 = 3 THEN own.data[n] ELSE Byte(Grey(input, n - (n % 4)))
      BY <3>1, <3>2, <2>3, Copied
    <3>4. ASSUME NEW c \in 0 .. 2 PROVE result[1][4 * i + c] = grey[i]
      <4>1. /\ 4 * i + c \in 0 .. w * h * 4 - 1
            /\ (4 * i + c) % 4 = c /\ (4 * i + c) - c = 4 * i /\ c # 3
        BY <2>4
      <4> QED BY <3>3, <4>1, <2>5
    <3>5. result[1][4 * i + 3] = own.data[4 * i + 3]
      <4>1. 4 * i + 3 \in 0 .. w * h * 4 - 1 /\ (4 * i + 3) % 4 = 3
        BY <2>4
      <4> QED BY <3>3, <4>1
    <3> QED BY <3>4, <3>5, <2>6 DEF grey, own
  <2>7. CASE kernel = "edges"
    <3> DEFINE img == grayscale_to_rgba(edges, own)
    <3>1. result[1] = Memcpy(screen, img)
      BY <2>7 DEF Given, Done, convolution_task, own, screen, edges, grey, w, h
    <3>2. img.data
            = [n \in 0 .. w * h * 4 - 1 |-> IF n % 4 = 3 THEN own.data[n] ELSE edges[n \div 4]]
      BY <2>3 DEF grayscale_to_rgba
    <3> HIDE DEF img
    <3>3. \A n \in 0 .. w * h * 4 - 1 :
            result[1][n] = IF n % 4 = 3 THEN own.data[n] ELSE edges[n \div 4]
      BY <3>1, <3>2, <2>3, Copied
    <3>4. ASSUME NEW c \in 0 .. 2 PROVE result[1][4 * i + c] = edges[i]
      <4>1. /\ 4 * i + c \in 0 .. w * h * 4 - 1
            /\ (4 * i + c) % 4 = c /\ (4 * i + c) \div 4 = i /\ c # 3
        BY <2>4
      <4> QED BY <3>3, <4>1
    <3>5. result[1][4 * i + 3] = own.data[4 * i + 3]
      <4>1. 4 * i + 3 \in 0 .. w * h * 4 - 1 /\ (4 * i + 3) % 4 = 3
        BY <2>4
      <4> QED BY <3>3, <4>1
    <3> QED BY <3>4, <3>5, <2>7 DEF edges, grey, own, w, h
  <2> QED BY <2>6, <2>7 DEF Done
<1> QED BY <1>1, Computed, PTL

\* The pixel of an image at a place, black outside it: what the nine terms of a
\* gradient have to multiply.
At(data, x, y, w, h) == IF Inside(x, y, w, h) THEN data[y * w + x] ELSE 0

\* One term of a gradient, its weight the n-th of a kernel.
Term(data, weights, n, x, y, w, h) ==
  IF Inside(x, y, w, h) THEN data[y * w + x] * weights[n] ELSE 0

\* A term is the pixel, black outside the image, times the weight.
LEMMA OneTerm ==
  ASSUME NEW w \in Nat \ {0}, NEW h \in Nat \ {0}, NEW data \in [0 .. w * h - 1 -> Int],
         NEW x \in Int, NEW y \in Int, NEW weights, NEW n, weights[n] \in Int
  PROVE  /\ At(data, x, y, w, h) \in Int
         /\ Term(data, weights, n, x, y, w, h) = At(data, x, y, w, h) * weights[n]
<1>1. CASE Inside(x, y, w, h)
  <2>1. x \in 0 .. w - 1 /\ y \in 0 .. h - 1
    BY <1>1 DEF Inside
  <2>2. data[y * w + x] \in Int
    BY <2>1, PlaceInside
  <2> QED BY <1>1, <2>2 DEF At, Term
<1>2. CASE ~ Inside(x, y, w, h)
  BY <1>2 DEF At, Term
<1> QED BY <1>1, <1>2

\* The two loops of a gradient visit the eight neighbours and the pixel itself.
LEMMA NineTerms ==
  ASSUME NEW data, NEW weights, NEW x \in Int, NEW y \in Int, NEW w, NEW h
  PROVE  Gradient(data, weights, x, y, w, h)
         = Term(data, weights, 1, x - 1, y - 1, w, h) + Term(data, weights, 2, x, y - 1, w, h)
           + Term(data, weights, 3, x + 1, y - 1, w, h)
           + Term(data, weights, 4, x - 1, y, w, h) + Term(data, weights, 5, x, y, w, h)
           + Term(data, weights, 6, x + 1, y, w, h)
           + Term(data, weights, 7, x - 1, y + 1, w, h) + Term(data, weights, 8, x, y + 1, w, h)
           + Term(data, weights, 9, x + 1, y + 1, w, h)
<1>1. /\ x - 1 + 0 = x - 1 /\ x - 1 + 1 = x /\ x - 1 + 2 = x + 1
      /\ y - 1 + 0 = y - 1 /\ y - 1 + 1 = y /\ y - 1 + 2 = y + 1
  OBVIOUS
<1>2. /\ 0 * 3 + 0 + 1 = 1 /\ 0 * 3 + 1 + 1 = 2 /\ 0 * 3 + 2 + 1 = 3
      /\ 1 * 3 + 0 + 1 = 4 /\ 1 * 3 + 1 + 1 = 5 /\ 1 * 3 + 2 + 1 = 6
      /\ 2 * 3 + 0 + 1 = 7 /\ 2 * 3 + 1 + 1 = 8 /\ 2 * 3 + 2 + 1 = 9
  OBVIOUS
<1> QED BY <1>1, <1>2 DEF Gradient, Term

\* What convolution_grayscale makes of a pixel, and of the place of one.
Shade(data, w, h, x, y) ==
  IF Abs(Gradient(data, kernel_x, x, y, w, h)) + Abs(Gradient(data, kernel_y, x, y, w, h)) > 125
  THEN 220 ELSE 50
LEMMA PixelOfEdges ==
  ASSUME NEW data, NEW w, NEW h, NEW p \in 0 .. w * h - 1
  PROVE  convolution_grayscale(data, w, h)[p] = Shade(data, w, h, p % w, p \div w)
BY DEF convolution_grayscale, Shade

\* An edge is shown where the Sobel gradient of the image, black all around,
\* exceeds the threshold, for images of every size (convolution.c:5-42).
THEOREM EdgesShown == Spec => []EdgesAreSobel
<1>1. Inputs /\ Given => EdgesAreSobel
  <2> SUFFICES ASSUME Inputs, Given, Done("sobel"),
                      NEW x \in 0 .. input.width - 1, NEW y \in 0 .. input.height - 1
               PROVE  result[1][y * input.width + x] =
                        IF Abs(Column(x + 1, y) - Column(x - 1, y))
                             + Abs(Row(x, y + 1) - Row(x, y - 1)) > 125
                        THEN 220 ELSE 50
    BY DEF EdgesAreSobel
  <2>1. PICK size \in Sizes :
          \E bytes \in [0 .. size[1] * size[2] * 1 - 1 -> GreyBytes] :
            input = Image(size, 1, bytes)
    BY DEF Inputs, Done, Images
  <2>2. PICK data \in [0 .. size[1] * size[2] * 1 - 1 -> GreyBytes] : input = Image(size, 1, data)
    BY <2>1
  <2>3. PICK w \in Nat \ {0}, h \in Nat \ {0} : size[1] = w /\ size[2] = h
    BY SizesAssumption
  <2>4. input.width = w /\ input.height = h /\ input.data = data
    BY <2>2, <2>3 DEF Image
  <2>5. data \in [0 .. w * h - 1 -> Int]
    <3>1. w * h * 1 = w * h
      BY <2>3
    <3>2. size[1] * size[2] * 1 - 1 = w * h - 1
      BY <3>1, <2>3
    <3>3. data \in [0 .. w * h - 1 -> GreyBytes]
      BY <3>2, <2>2
    <3>4. GreyBytes \subseteq Int
      BY ValuesAssumption
    <3> QED BY <3>3, <3>4
  <2> DEFINE p == y * w + x
  <2>6. x \in 0 .. w - 1 /\ y \in 0 .. h - 1
    BY <2>4
  <2>7. p \in 0 .. w * h - 1 /\ p % w = x /\ p \div w = y
    <3>1. p \in 0 .. w * h - 1
      BY <2>3, <2>6, PlaceInside
    <3>2. p % w = x /\ p \div w = y
      BY <2>3, <2>6, PixelOfPlace
    <3> QED BY <3>1, <3>2
  <2>8. result[1] = convolution_grayscale(data, w, h)
    BY <2>4 DEF Given, Done
  <2> HIDE DEF p
  <2>9. result[1][p] = IF Abs(Gradient(data, kernel_x, x, y, w, h))
                            + Abs(Gradient(data, kernel_y, x, y, w, h)) > 125
                       THEN 220 ELSE 50
    <3>1. convolution_grayscale(data, w, h)[p] = Shade(data, w, h, p % w, p \div w)
      BY <2>7, PixelOfEdges
    <3>2. result[1][p] = Shade(data, w, h, x, y)
      BY <2>7, <2>8, <3>1, Zenon
    <3> QED BY <3>2 DEF Shade
  <2>10. \A a, b \in Int : Padded(a, b) = At(data, a, b, w, h)
    BY <2>4 DEF Padded, At, Inside
  <2>11. \A n \in 1 .. 9 : kernel_x[n] \in Int /\ kernel_y[n] \in Int
    BY DEF kernel_x, kernel_y
  <2>12. \A u, v \in Int : Padded(u, v) \in Int
    <3> SUFFICES ASSUME NEW u \in Int, NEW v \in Int
                 PROVE  At(data, u, v, w, h) \in Int
      BY <2>10
    <3>1. kernel_x[1] \in Int
      BY <2>11
    <3> QED BY <2>3, <2>5, <3>1, OneTerm
  <2>13. \A u, v \in Int, n \in 1 .. 9 :
           /\ Term(data, kernel_x, n, u, v, w, h) = Padded(u, v) * kernel_x[n]
           /\ Term(data, kernel_y, n, u, v, w, h) = Padded(u, v) * kernel_y[n]
    <3> SUFFICES ASSUME NEW u \in Int, NEW v \in Int, NEW n \in 1 .. 9
                 PROVE  /\ Term(data, kernel_x, n, u, v, w, h) = Padded(u, v) * kernel_x[n]
                        /\ Term(data, kernel_y, n, u, v, w, h) = Padded(u, v) * kernel_y[n]
      OBVIOUS
    <3>1. kernel_x[n] \in Int /\ kernel_y[n] \in Int
      BY <2>11
    <3>2. Term(data, kernel_x, n, u, v, w, h) = At(data, u, v, w, h) * kernel_x[n]
      BY <2>3, <2>5, <3>1, OneTerm
    <3>3. Term(data, kernel_y, n, u, v, w, h) = At(data, u, v, w, h) * kernel_y[n]
      BY <2>3, <2>5, <3>1, OneTerm
    <3> QED BY <2>10, <3>2, <3>3
  <2>14. x \in Int /\ y \in Int /\ x - 1 \in Int /\ x + 1 \in Int /\ y - 1 \in Int /\ y + 1 \in Int
    BY <2>6
  <2> DEFINE a == Padded(x - 1, y - 1)
             b == Padded(x, y - 1)
             c == Padded(x + 1, y - 1)
             d == Padded(x - 1, y)
             e == Padded(x, y)
             f == Padded(x + 1, y)
             g == Padded(x - 1, y + 1)
             hh == Padded(x, y + 1)
             i == Padded(x + 1, y + 1)
  <2>15. /\ a \in Int /\ b \in Int /\ c \in Int /\ d \in Int /\ e \in Int /\ f \in Int
         /\ g \in Int /\ hh \in Int /\ i \in Int
    BY <2>14, <2>12
  <2>16. Gradient(data, kernel_x, x, y, w, h) = Column(x + 1, y) - Column(x - 1, y)
    <3>1. Gradient(data, kernel_x, x, y, w, h)
          = Term(data, kernel_x, 1, x - 1, y - 1, w, h) + Term(data, kernel_x, 2, x, y - 1, w, h)
            + Term(data, kernel_x, 3, x + 1, y - 1, w, h) + Term(data, kernel_x, 4, x - 1, y, w, h)
            + Term(data, kernel_x, 5, x, y, w, h) + Term(data, kernel_x, 6, x + 1, y, w, h)
            + Term(data, kernel_x, 7, x - 1, y + 1, w, h) + Term(data, kernel_x, 8, x, y + 1, w, h)
            + Term(data, kernel_x, 9, x + 1, y + 1, w, h)
      BY <2>14, NineTerms
    <3>2. /\ kernel_x[1] = -1 /\ kernel_x[2] = 0 /\ kernel_x[3] = 1
          /\ kernel_x[4] = -2 /\ kernel_x[5] = 0 /\ kernel_x[6] = 2
          /\ kernel_x[7] = -1 /\ kernel_x[8] = 0 /\ kernel_x[9] = 1
      BY DEF kernel_x
    <3>3. /\ Term(data, kernel_x, 1, x - 1, y - 1, w, h) = a * (-1)
          /\ Term(data, kernel_x, 2, x, y - 1, w, h) = b * 0
          /\ Term(data, kernel_x, 3, x + 1, y - 1, w, h) = c * 1
          /\ Term(data, kernel_x, 4, x - 1, y, w, h) = d * (-2)
          /\ Term(data, kernel_x, 5, x, y, w, h) = e * 0
          /\ Term(data, kernel_x, 6, x + 1, y, w, h) = f * 2
          /\ Term(data, kernel_x, 7, x - 1, y + 1, w, h) = g * (-1)
          /\ Term(data, kernel_x, 8, x, y + 1, w, h) = hh * 0
          /\ Term(data, kernel_x, 9, x + 1, y + 1, w, h) = i * 1
      <4>1. /\ Term(data, kernel_x, 1, x - 1, y - 1, w, h) = a * kernel_x[1]
            /\ Term(data, kernel_x, 2, x, y - 1, w, h) = b * kernel_x[2]
            /\ Term(data, kernel_x, 3, x + 1, y - 1, w, h) = c * kernel_x[3]
            /\ Term(data, kernel_x, 4, x - 1, y, w, h) = d * kernel_x[4]
            /\ Term(data, kernel_x, 5, x, y, w, h) = e * kernel_x[5]
            /\ Term(data, kernel_x, 6, x + 1, y, w, h) = f * kernel_x[6]
            /\ Term(data, kernel_x, 7, x - 1, y + 1, w, h) = g * kernel_x[7]
            /\ Term(data, kernel_x, 8, x, y + 1, w, h) = hh * kernel_x[8]
            /\ Term(data, kernel_x, 9, x + 1, y + 1, w, h) = i * kernel_x[9]
        BY <2>13, <2>14, SMTT(30)
      <4> QED BY <3>2, <4>1
    <3>4. Gradient(data, kernel_x, x, y, w, h)
          = a * (-1) + b * 0 + c * 1 + d * (-2) + e * 0 + f * 2 + g * (-1) + hh * 0 + i * 1
      BY <3>1, <3>3
    <3> HIDE DEF a, b, c, d, e, f, g, hh, i
    <3>5. Gradient(data, kernel_x, x, y, w, h) = (c + 2 * f + i) - (a + 2 * d + g)
      BY <2>15, <3>4
    <3> QED BY <3>5 DEF Column, a, b, c, d, e, f, g, hh, i
  <2>17. Gradient(data, kernel_y, x, y, w, h) = Row(x, y + 1) - Row(x, y - 1)
    <3>1. Gradient(data, kernel_y, x, y, w, h)
          = Term(data, kernel_y, 1, x - 1, y - 1, w, h) + Term(data, kernel_y, 2, x, y - 1, w, h)
            + Term(data, kernel_y, 3, x + 1, y - 1, w, h) + Term(data, kernel_y, 4, x - 1, y, w, h)
            + Term(data, kernel_y, 5, x, y, w, h) + Term(data, kernel_y, 6, x + 1, y, w, h)
            + Term(data, kernel_y, 7, x - 1, y + 1, w, h) + Term(data, kernel_y, 8, x, y + 1, w, h)
            + Term(data, kernel_y, 9, x + 1, y + 1, w, h)
      BY <2>14, NineTerms
    <3>2. /\ kernel_y[1] = -1 /\ kernel_y[2] = -2 /\ kernel_y[3] = -1
          /\ kernel_y[4] = 0 /\ kernel_y[5] = 0 /\ kernel_y[6] = 0
          /\ kernel_y[7] = 1 /\ kernel_y[8] = 2 /\ kernel_y[9] = 1
      BY DEF kernel_y
    <3>3. /\ Term(data, kernel_y, 1, x - 1, y - 1, w, h) = a * (-1)
          /\ Term(data, kernel_y, 2, x, y - 1, w, h) = b * (-2)
          /\ Term(data, kernel_y, 3, x + 1, y - 1, w, h) = c * (-1)
          /\ Term(data, kernel_y, 4, x - 1, y, w, h) = d * 0
          /\ Term(data, kernel_y, 5, x, y, w, h) = e * 0
          /\ Term(data, kernel_y, 6, x + 1, y, w, h) = f * 0
          /\ Term(data, kernel_y, 7, x - 1, y + 1, w, h) = g * 1
          /\ Term(data, kernel_y, 8, x, y + 1, w, h) = hh * 2
          /\ Term(data, kernel_y, 9, x + 1, y + 1, w, h) = i * 1
      <4>1. /\ Term(data, kernel_y, 1, x - 1, y - 1, w, h) = a * kernel_y[1]
            /\ Term(data, kernel_y, 2, x, y - 1, w, h) = b * kernel_y[2]
            /\ Term(data, kernel_y, 3, x + 1, y - 1, w, h) = c * kernel_y[3]
            /\ Term(data, kernel_y, 4, x - 1, y, w, h) = d * kernel_y[4]
            /\ Term(data, kernel_y, 5, x, y, w, h) = e * kernel_y[5]
            /\ Term(data, kernel_y, 6, x + 1, y, w, h) = f * kernel_y[6]
            /\ Term(data, kernel_y, 7, x - 1, y + 1, w, h) = g * kernel_y[7]
            /\ Term(data, kernel_y, 8, x, y + 1, w, h) = hh * kernel_y[8]
            /\ Term(data, kernel_y, 9, x + 1, y + 1, w, h) = i * kernel_y[9]
        BY <2>13, <2>14, SMTT(30)
      <4> QED BY <3>2, <4>1
    <3>4. Gradient(data, kernel_y, x, y, w, h)
          = a * (-1) + b * (-2) + c * (-1) + d * 0 + e * 0 + f * 0 + g * 1 + hh * 2 + i * 1
      BY <3>1, <3>3
    <3> HIDE DEF a, b, c, d, e, f, g, hh, i
    <3>5. Gradient(data, kernel_y, x, y, w, h) = (g + 2 * hh + i) - (a + 2 * b + c)
      BY <2>15, <3>4
    <3> QED BY <3>5 DEF Row, a, b, c, d, e, f, g, hh, i
  <2> QED BY <2>4, <2>9, <2>16, <2>17 DEF p
<1> QED BY <1>1, Computed, PTL

-----------------------------------------------------------------------------
(* The search                                                              *)

\* The loop of the search, as an equation (audio_setup.c:89-102).
Equation(power, f) ==
  f = [i \in 0 .. Last |->
         IF i = 0 THEN [power |-> 0, index |-> 0]
         ELSE IF Louder(power, f[i - 1], i) THEN [power |-> power[i], index |-> i]
         ELSE f[i - 1]]

\* Best is what satisfies it, if anything does.
LEMMA BestChosen ==
  ASSUME NEW power, NEW f, Equation(power, f)
  PROVE  Equation(power, Best(power))
BY DEF Equation, Best

\* max_power and max_index are those of the first of the strongest so far.
FirstLoudest(power, b, i) ==
  /\ b \in [power : Int, index : 0 .. i]
  /\ \A k \in 1 .. i : power[k] <= b.power
  /\ b.index = 0 => b.power = 0
  /\ b.index # 0 => /\ b.power = power[b.index] /\ b.power > 0
                    /\ \A k \in 1 .. b.index - 1 : power[k] < b.power

\* An iteration of the loop keeps it so.
LEMMA LoudestStep ==
  ASSUME NEW power \in [1 .. Last -> Int], NEW i \in 1 .. Last, NEW b,
         FirstLoudest(power, b, i - 1)
  PROVE  FirstLoudest(power, IF Louder(power, b, i) THEN [power |-> power[i], index |-> i] ELSE b, i)
<1>1. Last \in Int /\ i \in Int /\ power[i] \in Int /\ b \in [power : Int, index : 0 .. i - 1]
  BY NAssumption DEF FirstLoudest, Last
<1>2. \A k \in 1 .. i : k = i \/ k \in 1 .. i - 1
  BY <1>1
<1>3. b.power >= 0
  BY <1>1 DEF FirstLoudest
<1>4. CASE Louder(power, b, i)
  <2> DEFINE c == [power |-> power[i], index |-> i]
  <2>1. c \in [power : Int, index : 0 .. i] /\ c.index = i /\ c.power = power[i] /\ i # 0
    BY <1>1
  <2>2. power[i] > b.power
    BY <1>4 DEF Louder
  <2>3. \A k \in 1 .. i - 1 : power[k] \in Int /\ power[k] <= b.power
    BY <1>1 DEF FirstLoudest
  <2>4. \A k \in 1 .. i - 1 : power[k] < power[i]
    BY <1>1, <2>2, <2>3
  <2>5. power[i] > 0
    BY <1>1, <1>3, <2>2
  <2> HIDE DEF c
  <2>6. FirstLoudest(power, c, i)
    BY <1>1, <1>2, <2>1, <2>4, <2>5 DEF FirstLoudest
  <2> QED BY <1>4, <2>6 DEF c
<1>5. CASE ~ Louder(power, b, i)
  <2>1. power[i] <= b.power
    BY <1>1, <1>5 DEF Louder
  <2>2. b \in [power : Int, index : 0 .. i]
    BY <1>1
  <2> QED BY <1>2, <1>5, <2>1, <2>2 DEF FirstLoudest
<1> QED BY <1>4, <1>5

\* There is at most one such pair.
LEMMA LoudestUnique ==
  ASSUME NEW power \in [1 .. Last -> Int], NEW i \in 0 .. Last, NEW b, NEW c,
         FirstLoudest(power, b, i), FirstLoudest(power, c, i)
  PROVE  b = c
<1>1. /\ b \in [power : Int, index : 0 .. i] /\ c \in [power : Int, index : 0 .. i]
      /\ Last \in Int
  BY NAssumption DEF FirstLoudest, Last
<1>2. b.index # 0 => b.index \in 1 .. i
  BY <1>1
<1>3. c.index # 0 => c.index \in 1 .. i
  BY <1>1
<1>4. b.power = c.power
  BY <1>1, <1>2, <1>3 DEF FirstLoudest
<1>5. b.index = c.index
  BY <1>1, <1>2, <1>3, <1>4 DEF FirstLoudest
<1> QED BY <1>1, <1>4, <1>5

\* Before the loop.
LEMMA LoudestFirst ==
  ASSUME NEW power
  PROVE  FirstLoudest(power, [power |-> 0, index |-> 0], 0)
BY DEF FirstLoudest

\* There is such a pair after any number of iterations: the least number after which
\* there is none would follow one after which there is one.
LEMMA LoudestExists ==
  ASSUME NEW power \in [1 .. Last -> Int]
  PROVE  \A i \in 0 .. Last : \E b : FirstLoudest(power, b, i)
<1> DEFINE T == {i \in 0 .. Last : ~ \E b : FirstLoudest(power, b, i)}
<1>1. Last \in Nat
  BY NAssumption DEF Last
<1>2. ASSUME T # {} PROVE FALSE
  <2>1. PICK m \in T : \A k \in T : m <= k
    <3>1. T \subseteq Nat
      BY <1>1
    <3> HIDE DEF T
    <3> QED BY <1>2, <3>1, LeastOf
  <2>2. m \in 1 .. Last /\ m - 1 \in 0 .. Last /\ m - 1 < m
    <3>1. m # 0
      BY LoudestFirst
    <3> QED BY <1>1, <3>1
  <2>3. PICK b : FirstLoudest(power, b, m - 1)
    BY <1>1, <2>1, <2>2
  <2> QED BY <2>2, <2>3, LoudestStep
<1> QED BY <1>2

\* So the equation of the loop has a solution, and Best is one.
LEMMA BestLoop ==
  ASSUME NEW power \in [1 .. Last -> Int]
  PROVE  Equation(power, Best(power))
<1> DEFINE g == [i \in 0 .. Last |-> CHOOSE b : FirstLoudest(power, b, i)]
<1>1. \A i \in 0 .. Last : FirstLoudest(power, g[i], i)
  BY LoudestExists
<1>2. Last \in Nat
  BY NAssumption DEF Last
<1> HIDE DEF g
<1>3. ASSUME NEW i \in 0 .. Last
      PROVE  g[i] = IF i = 0 THEN [power |-> 0, index |-> 0]
                    ELSE IF Louder(power, g[i - 1], i) THEN [power |-> power[i], index |-> i]
                    ELSE g[i - 1]
  <2>1. CASE i = 0
    BY <1>1, <2>1, LoudestFirst, LoudestUnique
  <2>2. CASE i # 0
    <3>1. i \in 1 .. Last /\ i - 1 \in 0 .. Last
      BY <1>2, <2>2
    <3>2. FirstLoudest(power, g[i - 1], i - 1)
      BY <1>1, <3>1
    <3>3. FirstLoudest(power, IF Louder(power, g[i - 1], i)
                              THEN [power |-> power[i], index |-> i] ELSE g[i - 1], i)
      BY <3>1, <3>2, LoudestStep
    <3>4. g[i] = IF Louder(power, g[i - 1], i)
                 THEN [power |-> power[i], index |-> i] ELSE g[i - 1]
      BY <1>1, <3>3, LoudestUnique
    <3> QED BY <2>2, <3>4
  <2> QED BY <2>1, <2>2
<1>4. Equation(power, g)
  <2>1. g = [i \in 0 .. Last |-> g[i]]
    BY DEF g
  <2> QED BY <1>3, <2>1 DEF Equation
<1> QED BY <1>4, BestChosen

\* After every number of iterations the loop holds the first of the strongest.
LEMMA BestIsLoudest ==
  ASSUME NEW power \in [1 .. Last -> Int]
  PROVE  \A i \in 0 .. Last : FirstLoudest(power, Best(power)[i], i)
<1> DEFINE f == Best(power)
           T == {i \in 0 .. Last : ~ FirstLoudest(power, f[i], i)}
<1>1. Last \in Nat
  BY NAssumption DEF Last
<1>2. \A i \in 0 .. Last :
        f[i] = IF i = 0 THEN [power |-> 0, index |-> 0]
               ELSE IF Louder(power, f[i - 1], i) THEN [power |-> power[i], index |-> i]
               ELSE f[i - 1]
  BY BestLoop DEF Equation
<1> HIDE DEF f
<1>3. ASSUME T # {} PROVE FALSE
  <2>1. PICK m \in T : \A k \in T : m <= k
    <3>1. T \subseteq Nat
      BY <1>1
    <3> HIDE DEF T
    <3> QED BY <1>3, <3>1, LeastOf
  <2>2. m # 0
    BY <1>1, <1>2, LoudestFirst
  <2>3. m \in 1 .. Last /\ m - 1 \in 0 .. Last /\ m - 1 < m
    BY <1>1, <2>2
  <2>4. FirstLoudest(power, f[m - 1], m - 1)
    BY <1>1, <2>1, <2>3
  <2>5. FirstLoudest(power, IF Louder(power, f[m - 1], m)
                            THEN [power |-> power[m], index |-> m] ELSE f[m - 1], m)
    BY <2>3, <2>4, LoudestStep
  <2>6. FirstLoudest(power, f[m], m)
    BY <1>2, <2>2, <2>5
  <2> QED BY <2>6
<1> QED BY <1>3 DEF f

\* The frequency reported is the first of the strongest, for every spectrum
\* (audio_setup.c:89-102).
THEOREM PeakReported == Spec => []PeakIsStrongest
<1>1. Inputs /\ Given => PeakIsStrongest
  <2> SUFFICES ASSUME Inputs, Given, Done("peak")
               PROVE  result[1] = Strongest(input)
    BY DEF PeakIsStrongest
  <2>1. input \in [1 .. Last -> Int]
    <3>1. input \in [1 .. Last -> Powers] /\ Powers \subseteq Int
      BY ValuesAssumption DEF Inputs, Done
    <3> QED BY <3>1
  <2> DEFINE b == Best(input)[Last]
  <2>2. result[1] = b.index
    BY DEF Given, Done, max_index
  <2>3. Last \in Nat
    BY NAssumption DEF Last
  <2>4. FirstLoudest(input, b, Last)
    BY <2>1, <2>3, BestIsLoudest
  <2> HIDE DEF b
  <2> DEFINE loudest == {i \in 1 .. Last : input[i] > 0 /\ \A k \in 1 .. Last : input[k] <= input[i]}
  <2>5. b.index \in 0 .. Last /\ b.power \in Int
    BY <2>4 DEF FirstLoudest
  <2>6. CASE b.index = 0
    <3>1. loudest = {}
      BY <2>1, <2>4, <2>6 DEF FirstLoudest
    <3> QED BY <2>2, <2>6, <3>1 DEF Strongest
  <2>7. CASE b.index # 0
    <3>1. b.index \in loudest
      BY <2>1, <2>4, <2>5, <2>7 DEF FirstLoudest
    <3>2. \A i \in loudest : b.index <= i
      BY <2>1, <2>3, <2>4, <2>5, <2>7, <3>1 DEF FirstLoudest
    <3> HIDE DEF loudest
    <3>3. loudest \subseteq Int
      BY DEF loudest
    <3>4. \A i \in loudest : (\A j \in loudest : i <= j) => i = b.index
      <4> SUFFICES ASSUME NEW i \in loudest, \A j \in loudest : i <= j
                   PROVE  i = b.index
        OBVIOUS
      <4>1. i <= b.index /\ b.index <= i
        BY <3>1, <3>2
      <4>2. i \in Int /\ b.index \in Int
        BY <3>1, <3>3
      <4> QED BY <4>1, <4>2
    <3>5. Min(loudest) = b.index
      BY <3>1, <3>2, <3>4 DEF Min
    <3> QED BY <2>2, <3>1, <3>5 DEF Strongest, loudest
  <2> QED BY <2>6, <2>7
<1> QED BY <1>1, Computed, PTL

=============================================================================
