------------------------------- MODULE Filters -------------------------------
(***************************************************************************)
(* grayscale.c and convolution.c: what the two workers compute between the *)
(* frame and the screen.  An image is an img_1D_t, its data a function     *)
(* from 0; a grey image has one byte for each pixel.                       *)
(***************************************************************************)
EXTENDS Integers

Byte(n) == n % 256

Grey(img, first) == (img.data[first] + img.data[first + 1] + img.data[first + 2]) \div 3

rgba_to_grayscale8(img) ==
  [i \in 0 .. img.width * img.height - 1 |-> Byte(Grey(img, img.components * i))]

\* result is the worker's own image: the fourth byte of each of its pixels stays as
\* it was.  (AllFour: the loop
\* counter taken for the pixel's first byte.)
AllFour(img, result) ==
  [result EXCEPT !.data = [i \in DOMAIN @ |-> Byte(Grey(img, i - (i % 4)))]]
rgba_to_grayscale32(img, result) ==
  [result EXCEPT !.data =
     [i \in DOMAIN @ |-> IF i % 4 = 3 THEN @[i] ELSE Byte(Grey(img, i - (i % 4)))]]

grayscale_to_rgba(grey, result) ==
  [result EXCEPT !.data =
     [i \in DOMAIN @ |-> IF i % result.components = 3 THEN @[i]
                         ELSE grey[i \div result.components]]]

Inside(x, y, width, height) == x >= 0 /\ x < width /\ y >= 0 /\ y < height

kernel_x == <<-1, 0, 1, -2, 0, 2, -1, 0, 1>>
NotTurned == kernel_x  \* the same kernel twice
kernel_y == <<-1, -2, -1, 0, 0, 0, 1, 2, 1>>

\* The gradient of one kernel at a pixel; pixels outside the image are skipped.
Gradient(input, kernel, x, y, width, height) ==
  LET term(i, j) ==
        LET x_index == x - 1 + i
            y_index == y - 1 + j
        IN  IF Inside(x_index, y_index, width, height)
            THEN input[y_index * width + x_index] * kernel[j * 3 + i + 1] ELSE 0
  IN  term(0, 0) + term(1, 0) + term(2, 0)
      + term(0, 1) + term(1, 1) + term(2, 1)
      + term(0, 2) + term(1, 2) + term(2, 2)

Abs(n) == IF n < 0 THEN -n ELSE n

convolution_grayscale(input, width, height) ==
  [p \in 0 .. width * height - 1 |->
     LET x == p % width
         y == p \div width
         gradient_mag == Abs(Gradient(input, kernel_x, x, y, width, height))
                         + Abs(Gradient(input, kernel_y, x, y, width, height))
     IN  IF gradient_mag > 125 THEN 220 ELSE 50]

\* The screen takes every byte of a worker's image, the fourth ones too.
Memcpy(screen, result) == [i \in DOMAIN screen |-> result.data[i]]

\* The screen after a pass of convolution_task and of greyscale_task over a frame:
\* result is the image that the worker has from malloc.
convolution_task(img, result, screen) ==
  LET edges == convolution_grayscale(rgba_to_grayscale8(img), img.width, img.height)
  IN  Memcpy(screen, grayscale_to_rgba(edges, result))
greyscale_task(img, result, screen) == Memcpy(screen, rgba_to_grayscale32(img, result))

=============================================================================
