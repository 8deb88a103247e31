------------------------------ MODULE FrameCopy ------------------------------
(***************************************************************************)
(* SurfaceCamera.cpp: what processCaptureRequest() does with the captured  *)
(* frame for each buffer of a request.  A frame is NV12: Width x Height    *)
(* luma samples, then one chroma pair for each block of 2 x 2 pixels.      *)
(* A step is one iteration of the copy loops.  Samples have no values:     *)
(* each byte of the buffer records the bytes of the frame it was made of.  *)
(***************************************************************************)
EXTENDS Integers

CONSTANTS
  Width, Height,  \* kCaptureWidth, kCaptureHeight
  Padding         \* pixels the allocator may add to a row of a buffer

EvenNumber(n) == n % 2 = 0

ASSUME SizeAssumption ==
  /\ Width \in Nat /\ Width > 0 /\ EvenNumber(Width)
  /\ Height \in Nat /\ Height > 0 /\ EvenNumber(Height)
ASSUME PaddingAssumption ==
  Padding \subseteq Nat /\ \A p \in Padding : EvenNumber(p)

VARIABLES
  step,    \* the loop that runs, or how the last buffer was finished
  buffer,  \* its stream's format and size, and where its samples go
  x, y,    \* the loop counters
  memory   \* for each address written, the frame's bytes that went into it

vars == <<step, buffer, x, y, memory>>

Buffer == [format : {"YCBCR_420_888", "RGBA_8888", "BLOB"},
           layout : {"planar", "interleaved"},
           width : 1..Width, height : 1..Height, stride : Nat]

FrameBytes == Width * Height + Width * (Height \div 2)

TypeOK == /\ step \in {"luma", "chroma", "rgba", "copied", "finished", "failed"}
          /\ buffer \in Buffer
          /\ x \in 0..(Width - 1) /\ y \in 0..(Height - 1)
          /\ memory \in [DOMAIN memory -> SUBSET Int]

----------------------------------------------------------------------------
(* Which bytes of the frame a sample is made of                            *)

Scaled(i, from, to) == (i * from) \div to

RoundDown(i) == i - (i % 2)   \* & ~1U

SourceX(i) == Scaled(i, Width, buffer.width)
SourceY(j) == Scaled(j, Height, buffer.height)

Luma(i, j) == SourceY(j) * Width + SourceX(i)

(* A slip: the column is not rounded down to the first byte of its pair. *)
UnroundedPair(sx, sy) == Width * Height + (sy \div 2) * Width + sx

(* The first byte of the chroma pair of the frame's pixel (sx, sy). *)
Pair(sx, sy) == Width * Height + (sy \div 2) * Width + RoundDown(sx)

(* A slip: the row of the block is taken for the row of its first pixel. *)
BlockRowPair(i, j) == Pair(SourceX(2 * i), RoundDown(SourceY(j)))

(* copyToYuv() gives a block the pair of its first pixel. *)
BlockPair(i, j) == Pair(SourceX(2 * i), RoundDown(SourceY(2 * j)))

----------------------------------------------------------------------------
(* Where a sample goes in the buffer                                       *)

LumaBytes == buffer.stride * buffer.height

PlaneBytes == (buffer.stride \div 2) * (buffer.height \div 2)

BufferBytes == IF buffer.format = "RGBA_8888" THEN LumaBytes * 4
                                              ELSE LumaBytes + 2 * PlaneBytes

At(i, j) == j * buffer.stride + i

Cb(i, j) == IF buffer.layout = "planar"
            THEN LumaBytes + j * (buffer.stride \div 2) + i
            ELSE LumaBytes + At(2 * i, j)

Cr(i, j) == IF buffer.layout = "planar" THEN Cb(i, j) + PlaneBytes
                                        ELSE Cb(i, j) + 1

(* The bytes written by an iteration: a set of <<address, frame bytes>>. *)
Write(bytes) ==
  memory' = [a \in DOMAIN memory \cup {b[1] : b \in bytes} |->
               IF \E b \in bytes : b[1] = a
               THEN (CHOOSE b \in bytes : b[1] = a)[2]
               ELSE memory[a]]

(* A slip: the loops run one iteration too far. *)
NextOverruns(columns, rows, after) ==
  \/ /\ x < columns
     /\ x' = x + 1 /\ UNCHANGED <<step, y>>
  \/ /\ x >= columns /\ y + 1 < rows
     /\ x' = 0 /\ y' = y + 1 /\ UNCHANGED step
  \/ /\ x >= columns /\ y + 1 >= rows
     /\ x' = 0 /\ y' = 0 /\ step' = after

(* The loops over x, then y; then what follows them. *)
NextIteration(columns, rows, after) ==
  \/ /\ x + 1 < columns
     /\ x' = x + 1 /\ UNCHANGED <<step, y>>
  \/ /\ x + 1 >= columns /\ y + 1 < rows
     /\ x' = 0 /\ y' = y + 1 /\ UNCHANGED step
  \/ /\ x + 1 >= columns /\ y + 1 >= rows
     /\ x' = 0 /\ y' = 0 /\ step' = after

----------------------------------------------------------------------------
(* configure(): the sizes a stream may have. *)
Accepted == {s \in (1..Width) \X (1..Height) : EvenNumber(s[1]) /\ EvenNumber(s[2])}

(* A buffer as the allocator lays it out, or, for a JPEG, as                *)
(* copyToScaledNv12() lays out the pixels that will be compressed.          *)
Allocated ==
  {[format |-> f, layout |-> l, width |-> s[1], height |-> s[2],
    stride |-> s[1] + p] :
      f \in {"YCBCR_420_888", "RGBA_8888"}, l \in {"planar", "interleaved"},
      s \in Accepted, p \in Padding}
  \cup
  {[format |-> "BLOB", layout |-> "interleaved", width |-> s[1],
    height |-> s[2], stride |-> s[1]] : s \in Accepted}

(* No buffer has been filled yet. *)
Init == /\ step = "failed" /\ buffer \in Allocated
        /\ x = 0 /\ y = 0
        /\ memory = [a \in {} |-> {}]

(* The next buffer of a request; without a frame, its fence, a stream or the *)
(* mapping of its memory, it is finished with an error.                       *)
Begin ==
  /\ step \in {"finished", "failed"}
  /\ buffer' \in Allocated
  /\ \/ step' = "failed"
     \/ step' = IF buffer'.format = "RGBA_8888" THEN "rgba" ELSE "luma"
  /\ x' = 0 /\ y' = 0
  /\ memory' = [a \in {} |-> {}]

CopyLuma ==
  /\ step = "luma"
  /\ Write({<<At(x, y), {Luma(x, y)}>>})
  /\ NextIteration(buffer.width, buffer.height, "chroma")
  /\ UNCHANGED buffer

CopyChroma ==
  /\ step = "chroma"
  /\ Write({<<Cb(x, y), {BlockPair(x, y)}>>, <<Cr(x, y), {BlockPair(x, y) + 1}>>})
  /\ NextIteration(buffer.width \div 2, buffer.height \div 2, "copied")
  /\ UNCHANGED buffer

(* copyToRgba(): red is made of Y and V, green of all, blue of Y and U. *)
CopyRgba ==
  LET out == At(x, y) * 4
      Y == Luma(x, y)
      U == Pair(SourceX(x), SourceY(y))
      V == U + 1
  IN  /\ step = "rgba"
      /\ Write({<<out, {Y, V}>>, <<out + 1, {Y, U, V}>>, <<out + 2, {Y, U}>>,
                <<out + 3, {}>>})
      /\ NextIteration(buffer.width, buffer.height, "copied")
      /\ UNCHANGED buffer

(* The memory is unmapped, or the JPEG compressed, which may fail. *)
Finish ==
  /\ step = "copied"
  /\ step' \in {"finished", "failed"}
  /\ UNCHANGED <<buffer, x, y, memory>>

Next == Begin \/ CopyLuma \/ CopyChroma \/ CopyRgba \/ Finish

Spec == Init /\ [][Next]_vars

----------------------------------------------------------------------------
(* Properties                                                              *)

(* No copy reads past the frame or writes past the buffer, whatever the size *)
(* of the stream and the layout of its buffers.                               *)
InBounds ==
  /\ DOMAIN memory \subseteq 0..(BufferBytes - 1)
  /\ \A a \in DOMAIN memory : memory[a] \subseteq 0..(FrameBytes - 1)

(* The frame's pixel that the pixel i of `to` shows when `from` are scaled. *)
Nearest(i, from, to) == CHOOSE k \in 0..(from - 1) :
                          k * to <= i * from /\ i * from < (k + 1) * to

FrameY(sx, sy) == sy * Width + sx
FrameU(sx, sy) == Width * Height + 2 * ((sy \div 2) * (Width \div 2) + sx \div 2)

Made(address, bytes) == address \in DOMAIN memory /\ memory[address] = bytes

(* Pixel (i, j) shows the nearest pixel of the frame, in the colour of that  *)
(* pixel or, in a format with one colour for each block, in the colour of    *)
(* the block's first pixel.                                                  *)
Shown(i, j) ==
  LET near(a, b) == <<Nearest(a, Width, buffer.width),
                      Nearest(b, Height, buffer.height)>>
      pixel == near(i, j)
      corner == near(RoundDown(i), RoundDown(j))
      Y == FrameY(pixel[1], pixel[2])
      U == FrameU(pixel[1], pixel[2])
      blockU == FrameU(corner[1], corner[2])
  IN  IF buffer.format = "RGBA_8888"
      THEN /\ Made(At(i, j) * 4, {Y, U + 1})
           /\ Made(At(i, j) * 4 + 1, {Y, U, U + 1})
           /\ Made(At(i, j) * 4 + 2, {Y, U})
           /\ Made(At(i, j) * 4 + 3, {})
      ELSE /\ Made(At(i, j), {Y})
           /\ Made(Cb(i \div 2, j \div 2), {blockU})
           /\ Made(Cr(i \div 2, j \div 2), {blockU + 1})

(* A buffer that is finished without an error holds the whole picture: every *)
(* pixel was written, none was overwritten by a later sample.                 *)
PictureComplete ==
  step = "finished" =>
    \A i \in 0..(buffer.width - 1), j \in 0..(buffer.height - 1) : Shown(i, j)
=============================================================================
