--------------------------- MODULE FrameCopyProofs ---------------------------
(***************************************************************************)
(* The copy loops stay inside the frame and inside the buffer for every    *)
(* size of frame, size of stream and padding, in both layouts, and leave   *)
(* the whole picture in it.                                                *)
(***************************************************************************)
EXTENDS FrameCopy, TLAPS

----------------------------------------------------------------------------
(* Arithmetic                                                              *)

(* i * from \div to is below from when i is below to: a scaled coordinate is *)
(* a coordinate of the frame.                                                *)
LEMMA ScaledBelow ==
  ASSUME NEW i \in Nat, NEW from \in Nat, NEW to \in Nat, i < to, from > 0
  PROVE  Scaled(i, from, to) \in 0..(from - 1)
<1> DEFINE q == (i * from) \div to
<1>1. i * from \in Nat /\ to * from \in Nat /\ to \in Nat /\ to > 0
  OBVIOUS
<1>2. i * from < to * from
  <2>1. to - i \in Nat /\ to - i > 0
    OBVIOUS
  <2>2. (to - i) * from > 0
    BY <2>1
  <2> QED BY <2>2
<1>3. q \in Int /\ q * to <= i * from /\ i * from < (q + 1) * to
  BY <1>1
<1>4. q >= 0
  BY <1>1, <1>3
<1>5. q < from
  BY <1>1, <1>2, <1>3
<1> QED BY <1>3, <1>4, <1>5 DEF Scaled

(* Row j, column i of rows * columns cells in rows of `stride` is a cell. *)
LEMMA CellInside ==
  ASSUME NEW i \in Nat, NEW j \in Nat, NEW stride \in Nat, NEW rows \in Nat,
         i < stride, j < rows
  PROVE  j * stride + i \in 0..(stride * rows - 1)
<1>1. (rows - 1 - j) * stride >= 0
  OBVIOUS
<1>2. j * stride >= 0
  OBVIOUS
<1> QED BY <1>1, <1>2

(* Half of an even number. *)
LEMMA HalfOfEven ==
  ASSUME NEW n \in Nat, EvenNumber(n)
  PROVE  n \div 2 \in Nat /\ n = 2 * (n \div 2)
BY DEF EvenNumber

----------------------------------------------------------------------------
(* The bytes of the frame that the loops read                              *)

(* What is known of a buffer that the allocator laid out. *)
LEMMA AllocatedFacts ==
  ASSUME NEW b \in Allocated
  PROVE  /\ b \in Buffer
         /\ b.width > 0 /\ b.height > 0
         /\ b.width <= b.stride
         /\ EvenNumber(b.width) /\ EvenNumber(b.height)
         /\ EvenNumber(b.stride)
<1> USE SizeAssumption
<1>1. CASE \E f \in {"YCBCR_420_888", "RGBA_8888"}, l \in {"planar", "interleaved"},
              s \in Accepted, p \in Padding :
             b = [format |-> f, layout |-> l, width |-> s[1],
                  height |-> s[2], stride |-> s[1] + p]
  <2>1. PICK f \in {"YCBCR_420_888", "RGBA_8888"}, l \in {"planar", "interleaved"},
             s \in Accepted, p \in Padding :
               b = [format |-> f, layout |-> l, width |-> s[1],
                    height |-> s[2], stride |-> s[1] + p]
    BY <1>1
  <2>2. /\ s[1] \in 1..Width /\ s[2] \in 1..Height
        /\ EvenNumber(s[1]) /\ EvenNumber(s[2])
    BY DEF Accepted
  <2>3. p \in Nat /\ EvenNumber(p)
    BY PaddingAssumption
  <2>4. EvenNumber(s[1] + p)
    BY <2>2, <2>3 DEF EvenNumber
  <2> QED BY <2>1, <2>2, <2>3, <2>4 DEF Buffer
<1>2. CASE \E s \in Accepted :
             b = [format |-> "BLOB", layout |-> "interleaved",
                  width |-> s[1], height |-> s[2], stride |-> s[1]]
  BY <1>2 DEF Accepted, Buffer
<1> QED BY <1>1, <1>2 DEF Allocated

(* The luma sample of a pixel of the buffer is in the luma plane. *)
LEMMA LumaInside ==
  ASSUME buffer \in Allocated, NEW i \in Nat, NEW j \in Nat,
         i < buffer.width, j < buffer.height
  PROVE  Luma(i, j) \in 0..(FrameBytes - 1)
<1>1. SourceX(i) \in 0..(Width - 1)
  BY SizeAssumption, AllocatedFacts, ScaledBelow DEF SourceX, Buffer
<1>2. SourceY(j) \in 0..(Height - 1)
  BY SizeAssumption, AllocatedFacts, ScaledBelow DEF SourceY, Buffer
<1>3. Luma(i, j) \in 0..(Width * Height - 1)
  BY <1>1, <1>2, SizeAssumption, CellInside DEF Luma
<1> DEFINE half == Height \div 2
<1>4. half \in Nat
  BY SizeAssumption, HalfOfEven
<1> HIDE DEF half
<1>5. Width * half \in Nat /\ Width * Height \in Nat
  BY <1>4, SizeAssumption
<1>6. FrameBytes = Width * Height + Width * half
  BY DEF FrameBytes, half
<1> QED BY <1>3, <1>5, <1>6

(* The pair of a pixel of the frame is in the chroma plane, both bytes. *)
LEMMA PairInside ==
  ASSUME NEW sx \in 0..(Width - 1), NEW sy \in 0..(Height - 1)
  PROVE  /\ Pair(sx, sy) \in 0..(FrameBytes - 1)
         /\ Pair(sx, sy) + 1 \in 0..(FrameBytes - 1)
<1> DEFINE half == Height \div 2
           row == sy \div 2
<1>1. half \in Nat /\ Height = 2 * half
  BY SizeAssumption, HalfOfEven
<1>2. row \in Nat /\ row < half
  BY <1>1, SizeAssumption
<1>3. /\ RoundDown(sx) \in Nat /\ RoundDown(sx) + 1 \in Nat
      /\ RoundDown(sx) + 1 < Width
  BY SizeAssumption DEF RoundDown, EvenNumber
<1>4. /\ row * Width + RoundDown(sx) \in 0..(Width * half - 1)
      /\ row * Width + (RoundDown(sx) + 1) \in 0..(Width * half - 1)
  BY <1>1, <1>2, <1>3, CellInside, SizeAssumption
<1>5. Width * Height \in Nat /\ Width * half \in Nat /\ row * Width \in Nat
  BY <1>1, <1>2, SizeAssumption
<1> HIDE DEF half, row
<1>6. Pair(sx, sy) = Width * Height + row * Width + RoundDown(sx)
  BY DEF Pair, row
<1>7. FrameBytes = Width * Height + Width * half
  BY DEF FrameBytes, half
<1> QED BY <1>3, <1>4, <1>5, <1>6, <1>7

(* copyToRgba() reads a pair of the frame. *)
LEMMA PixelPairInside ==
  ASSUME buffer \in Allocated, NEW i \in Nat, NEW j \in Nat,
         i < buffer.width, j < buffer.height
  PROVE  /\ Pair(SourceX(i), SourceY(j)) \in 0..(FrameBytes - 1)
         /\ Pair(SourceX(i), SourceY(j)) + 1 \in 0..(FrameBytes - 1)
<1>1. SourceX(i) \in 0..(Width - 1)
  BY SizeAssumption, AllocatedFacts, ScaledBelow DEF SourceX, Buffer
<1>2. SourceY(j) \in 0..(Height - 1)
  BY SizeAssumption, AllocatedFacts, ScaledBelow DEF SourceY, Buffer
<1> QED BY <1>1, <1>2, PairInside

(* copyToYuv() reads a pair of the frame. *)
LEMMA BlockPairInside ==
  ASSUME buffer \in Allocated, NEW i \in Nat, NEW j \in Nat,
         i < buffer.width \div 2, j < buffer.height \div 2
  PROVE  /\ BlockPair(i, j) \in 0..(FrameBytes - 1)
         /\ BlockPair(i, j) + 1 \in 0..(FrameBytes - 1)
<1>1. /\ 2 * i \in Nat /\ 2 * i < buffer.width
      /\ 2 * j \in Nat /\ 2 * j < buffer.height
  BY AllocatedFacts, HalfOfEven DEF Buffer
<1>2. SourceX(2 * i) \in 0..(Width - 1)
  BY <1>1, SizeAssumption, AllocatedFacts, ScaledBelow DEF SourceX, Buffer
<1>3. SourceY(2 * j) \in 0..(Height - 1)
  BY <1>1, SizeAssumption, AllocatedFacts, ScaledBelow DEF SourceY, Buffer
<1>4. RoundDown(SourceY(2 * j)) \in 0..(Height - 1)
  BY <1>3, SizeAssumption DEF RoundDown
<1> QED BY <1>2, <1>4, PairInside DEF BlockPair

----------------------------------------------------------------------------
(* The bytes of the buffer that the loops write                            *)

(* A pixel's cell is in the first stride * height cells of the buffer. *)
LEMMA AtInside ==
  ASSUME buffer \in Allocated, NEW i \in Nat, NEW j \in Nat,
         i < buffer.width, j < buffer.height
  PROVE  At(i, j) \in 0..(LumaBytes - 1)
<1>1. i < buffer.stride
  BY AllocatedFacts DEF Buffer
<1> QED BY <1>1, AllocatedFacts, CellInside DEF At, LumaBytes, Buffer

(* How the planes of a YUV buffer add up. *)
LEMMA PlaneFacts ==
  ASSUME buffer \in Allocated
  PROVE  /\ LumaBytes \in Nat /\ PlaneBytes \in Nat
         /\ buffer.stride \div 2 \in Nat
         /\ buffer.stride = 2 * (buffer.stride \div 2)
         /\ buffer.height \div 2 \in Nat
         /\ 2 * PlaneBytes = buffer.stride * (buffer.height \div 2)
<1>1. /\ buffer.stride \in Nat /\ EvenNumber(buffer.stride)
      /\ buffer.height \in Nat /\ EvenNumber(buffer.height)
  BY AllocatedFacts DEF Buffer
<1> DEFINE s == buffer.stride \div 2
           h == buffer.height \div 2
<1>2. s \in Nat /\ buffer.stride = 2 * s /\ h \in Nat
  BY <1>1, HalfOfEven
<1>3. PlaneBytes = s * h
  BY DEF PlaneBytes
<1>4. LumaBytes \in Nat
  BY <1>1 DEF LumaBytes
<1> HIDE DEF s, h
<1>5. s * h \in Nat /\ 2 * (s * h) = (2 * s) * h
  BY <1>2
<1> QED BY <1>2, <1>3, <1>4, <1>5 DEF s, h

(* The chroma samples of a block are after the luma plane and in the buffer. *)
LEMMA ChromaInside ==
  ASSUME buffer \in Allocated, buffer.format # "RGBA_8888",
         NEW i \in Nat, NEW j \in Nat,
         i < buffer.width \div 2, j < buffer.height \div 2
  PROVE  Cb(i, j) \in 0..(BufferBytes - 1) /\ Cr(i, j) \in 0..(BufferBytes - 1)
<1> DEFINE s == buffer.stride \div 2
           h == buffer.height \div 2
<1>1. /\ LumaBytes \in Nat /\ PlaneBytes \in Nat
      /\ s \in Nat /\ buffer.stride = 2 * s /\ h \in Nat
      /\ 2 * PlaneBytes = buffer.stride * h
      /\ PlaneBytes = s * h
  BY PlaneFacts DEF PlaneBytes
<1>2. BufferBytes = LumaBytes + 2 * PlaneBytes
  BY DEF BufferBytes
<1>3. buffer.width = 2 * (buffer.width \div 2) /\ buffer.width \div 2 \in Nat
  BY AllocatedFacts, HalfOfEven DEF Buffer
<1>4. i < s
  BY <1>1, <1>3, AllocatedFacts DEF Buffer
<1>5. j < h
  OBVIOUS
<1>6. 2 * i \in Nat /\ 2 * i + 1 \in Nat /\ 2 * i + 1 < buffer.stride
  BY <1>1, <1>4
<1> HIDE DEF s, h
<1>7. CASE buffer.layout = "planar"
  <2>1. j * s + i \in 0..(s * h - 1)
    BY <1>1, <1>4, <1>5, CellInside
  <2>2. Cb(i, j) = LumaBytes + j * s + i /\ Cr(i, j) = Cb(i, j) + PlaneBytes
    BY <1>7 DEF Cb, Cr, s
  <2>3. j * s \in Nat
    BY <1>1
  <2> QED BY <2>1, <2>2, <2>3, <1>1, <1>2
<1>8. CASE buffer.layout # "planar"
  <2>1. /\ j * buffer.stride + 2 * i \in 0..(buffer.stride * h - 1)
        /\ j * buffer.stride + (2 * i + 1) \in 0..(buffer.stride * h - 1)
    BY <1>1, <1>5, <1>6, AllocatedFacts, CellInside DEF Buffer
  <2>2. /\ Cb(i, j) = LumaBytes + (j * buffer.stride + 2 * i)
        /\ Cr(i, j) = Cb(i, j) + 1
    BY <1>8 DEF Cb, Cr, At
  <2>3. j * buffer.stride \in Nat /\ buffer.stride * h \in Nat
    BY <1>1
  <2> QED BY <2>1, <2>2, <2>3, <1>1, <1>2
<1> QED BY <1>7, <1>8

----------------------------------------------------------------------------
(* The inductive invariant                                                 *)

(* Where the loops are: inside the rectangle the current one runs over. *)
Inside(columns, rows) == x \in 0..(columns - 1) /\ y \in 0..(rows - 1)

LoopsInside ==
  /\ step \in {"luma", "chroma"} => buffer.format # "RGBA_8888"
  /\ step = "rgba" => buffer.format = "RGBA_8888"
  /\ step \in {"luma", "rgba"} => Inside(buffer.width, buffer.height)
  /\ step = "chroma" => Inside(buffer.width \div 2, buffer.height \div 2)
  /\ step \in {"copied", "finished", "failed"} => x = 0 /\ y = 0

Steps == {"luma", "chroma", "rgba", "copied", "finished", "failed"}

IsMemory == memory = [a \in DOMAIN memory |-> memory[a]]

Inv == /\ step \in Steps /\ buffer \in Allocated
       /\ IsMemory
       /\ LoopsInside
       /\ InBounds

(* A write of bytes of the frame inside the buffer keeps the memory in bounds. *)
LEMMA WriteInBounds ==
  ASSUME InBounds, IsMemory, NEW bytes, Write(bytes), buffer' = buffer,
         \A b \in bytes : /\ b[1] \in 0..(BufferBytes - 1)
                          /\ b[2] \subseteq 0..(FrameBytes - 1)
  PROVE  InBounds' /\ IsMemory'
<1>1. DOMAIN memory' = DOMAIN memory \cup {b[1] : b \in bytes}
  BY DEF Write
<1>2. BufferBytes' = BufferBytes
  BY DEF BufferBytes, LumaBytes, PlaneBytes
<1>3. DOMAIN memory' \subseteq 0..(BufferBytes - 1)
  BY <1>1 DEF InBounds
<1>4. ASSUME NEW a \in DOMAIN memory'
      PROVE  memory'[a] \subseteq 0..(FrameBytes - 1)
  <2>1. CASE \E b \in bytes : b[1] = a
    <3> DEFINE chosen == CHOOSE b \in bytes : b[1] = a
    <3>1. chosen \in bytes
      BY <2>1
    <3>2. memory'[a] = chosen[2]
      BY <1>1, <1>4, <2>1 DEF Write
    <3> QED BY <3>1, <3>2
  <2>2. CASE ~ \E b \in bytes : b[1] = a
    <3>1. memory'[a] = memory[a] /\ a \in DOMAIN memory
      BY <1>1, <1>4, <2>2 DEF Write
    <3> QED BY <3>1 DEF InBounds
  <2> QED BY <2>1, <2>2
<1>5. IsMemory'
  BY DEF Write, IsMemory
<1>6. FrameBytes' = FrameBytes
  BY DEF FrameBytes
<1> QED BY <1>2, <1>3, <1>4, <1>5, <1>6 DEF InBounds

(* An iteration that does not end the loops leaves them inside; one that does *)
(* starts what follows at 0, 0.                                               *)
LEMMA LoopsGoOn ==
  ASSUME NEW columns \in Nat, NEW rows \in Nat, NEW after,
         Inside(columns, rows), NextIteration(columns, rows, after)
  PROVE  \/ step' = step /\ Inside(columns, rows)'
         \/ step' = after /\ x' = 0 /\ y' = 0
BY DEF Inside, NextIteration

(* The loops over the rectangles of a buffer are not empty. *)
LEMMA Rectangles ==
  ASSUME NEW b \in Allocated
  PROVE  /\ b.width \in Nat /\ b.width > 0 /\ b.width <= Width
         /\ b.height \in Nat /\ b.height > 0 /\ b.height <= Height
         /\ b.width \div 2 \in Nat /\ b.width \div 2 > 0
         /\ b.height \div 2 \in Nat /\ b.height \div 2 > 0
         /\ b.width \div 2 <= b.width
         /\ b.height \div 2 <= b.height
BY SizeAssumption, AllocatedFacts, HalfOfEven DEF Buffer

(* The initial states satisfy the invariant: nothing has been written. *)
LEMMA InvInit == Init => Inv
BY DEF Init, Inv, Steps, IsMemory, LoopsInside, InBounds

LEMMA BeginKeepsInv == ASSUME Inv, Begin PROVE Inv'
<1>1. step' \in Steps /\ buffer' \in Allocated
  BY DEF Begin, Steps, Allocated
<1>2. IsMemory' /\ InBounds'
  BY DEF Begin, IsMemory, InBounds
<1>3. /\ step' \in {"luma", "rgba", "failed"} /\ x' = 0 /\ y' = 0
      /\ step' = "luma" => buffer'.format # "RGBA_8888"
      /\ step' = "rgba" => buffer'.format = "RGBA_8888"
  BY DEF Begin
<1>4. buffer'.width \in Nat /\ buffer'.width > 0
      /\ buffer'.height \in Nat /\ buffer'.height > 0
  BY <1>1, Rectangles
<1>5. LoopsInside'
  BY <1>3, <1>4 DEF LoopsInside, Inside
<1> QED BY <1>1, <1>2, <1>5 DEF Inv

LEMMA CopyLumaKeepsInv == ASSUME Inv, CopyLuma PROVE Inv'
<1>1. /\ step = "luma" /\ buffer \in Allocated /\ buffer' = buffer
      /\ buffer.format # "RGBA_8888" /\ Inside(buffer.width, buffer.height)
  BY DEF Inv, LoopsInside, CopyLuma
<1>2. x \in Nat /\ y \in Nat /\ x < buffer.width /\ y < buffer.height
  BY <1>1, Rectangles DEF Inside
<1>3. At(x, y) \in 0..(BufferBytes - 1)
  BY <1>1, <1>2, AtInside, PlaneFacts DEF BufferBytes
<1>4. Luma(x, y) \in 0..(FrameBytes - 1)
  BY <1>1, <1>2, LumaInside
<1>5. Write({<<At(x, y), {Luma(x, y)}>>})
  BY DEF CopyLuma
<1>6. InBounds' /\ IsMemory'
  BY <1>1, <1>3, <1>4, <1>5, WriteInBounds DEF Inv
<1>7. NextIteration(buffer.width, buffer.height, "chroma")
  BY DEF CopyLuma
<1>8. \/ step' = "luma" /\ Inside(buffer.width, buffer.height)'
      \/ step' = "chroma" /\ x' = 0 /\ y' = 0
  BY <1>1, <1>7, Rectangles, LoopsGoOn
<1>9. LoopsInside' /\ step' \in Steps
  BY <1>1, <1>8, Rectangles DEF LoopsInside, Inside, Steps
<1> QED BY <1>1, <1>6, <1>9 DEF Inv, Allocated

LEMMA CopyChromaKeepsInv == ASSUME Inv, CopyChroma PROVE Inv'
<1> DEFINE columns == buffer.width \div 2
           rows == buffer.height \div 2
<1>1. /\ step = "chroma" /\ buffer \in Allocated /\ buffer' = buffer
      /\ buffer.format # "RGBA_8888" /\ Inside(columns, rows)
  BY DEF Inv, LoopsInside, CopyChroma
<1>2. x \in Nat /\ y \in Nat /\ x < columns /\ y < rows
  BY <1>1, Rectangles DEF Inside
<1>3. Cb(x, y) \in 0..(BufferBytes - 1) /\ Cr(x, y) \in 0..(BufferBytes - 1)
  BY <1>1, <1>2, ChromaInside
<1>4. /\ BlockPair(x, y) \in 0..(FrameBytes - 1)
      /\ BlockPair(x, y) + 1 \in 0..(FrameBytes - 1)
  BY <1>1, <1>2, BlockPairInside
<1>5. Write({<<Cb(x, y), {BlockPair(x, y)}>>, <<Cr(x, y), {BlockPair(x, y) + 1}>>})
  BY DEF CopyChroma
<1>6. InBounds' /\ IsMemory'
  BY <1>1, <1>3, <1>4, <1>5, WriteInBounds DEF Inv
<1>7. NextIteration(columns, rows, "copied")
  BY DEF CopyChroma
<1>8. \/ step' = "chroma" /\ Inside(columns, rows)'
      \/ step' = "copied" /\ x' = 0 /\ y' = 0
  BY <1>1, <1>7, Rectangles, LoopsGoOn
<1>9. LoopsInside' /\ step' \in Steps
  BY <1>1, <1>8 DEF LoopsInside, Inside, Steps
<1> QED BY <1>1, <1>6, <1>9 DEF Inv, Allocated

LEMMA CopyRgbaKeepsInv == ASSUME Inv, CopyRgba PROVE Inv'
<1> DEFINE out == At(x, y) * 4
           Y == Luma(x, y)
           U == Pair(SourceX(x), SourceY(y))
           bytes == {<<out, {Y, U + 1}>>, <<out + 1, {Y, U, U + 1}>>,
                     <<out + 2, {Y, U}>>, <<out + 3, {}>>}
<1>1. /\ step = "rgba" /\ buffer \in Allocated /\ buffer' = buffer
      /\ buffer.format = "RGBA_8888" /\ Inside(buffer.width, buffer.height)
  BY DEF Inv, LoopsInside, CopyRgba
<1>2. x \in Nat /\ y \in Nat /\ x < buffer.width /\ y < buffer.height
  BY <1>1, Rectangles DEF Inside
<1>3. /\ out \in 0..(BufferBytes - 1) /\ out + 1 \in 0..(BufferBytes - 1)
      /\ out + 2 \in 0..(BufferBytes - 1) /\ out + 3 \in 0..(BufferBytes - 1)
  <2>1. At(x, y) \in 0..(LumaBytes - 1) /\ LumaBytes \in Nat
    BY <1>1, <1>2, AtInside, PlaneFacts
  <2>2. BufferBytes = LumaBytes * 4
    BY <1>1 DEF BufferBytes
  <2> QED BY <2>1, <2>2
<1>4. Y \in 0..(FrameBytes - 1)
  BY <1>1, <1>2, LumaInside
<1>5. U \in 0..(FrameBytes - 1) /\ U + 1 \in 0..(FrameBytes - 1)
  BY <1>1, <1>2, PixelPairInside
<1>6. Write(bytes)
  BY DEF CopyRgba
<1>7. InBounds' /\ IsMemory'
  <2> HIDE DEF out, Y, U
  <2>1. \A b \in bytes : /\ b[1] \in 0..(BufferBytes - 1)
                         /\ b[2] \subseteq 0..(FrameBytes - 1)
    BY <1>3, <1>4, <1>5
  <2> QED BY <1>1, <1>6, <2>1, WriteInBounds DEF Inv
<1>8. NextIteration(buffer.width, buffer.height, "copied")
  BY DEF CopyRgba
<1>9. \/ step' = "rgba" /\ Inside(buffer.width, buffer.height)'
      \/ step' = "copied" /\ x' = 0 /\ y' = 0
  BY <1>1, <1>8, Rectangles, LoopsGoOn
<1>10. LoopsInside' /\ step' \in Steps
  BY <1>1, <1>9 DEF LoopsInside, Inside, Steps
<1> QED BY <1>1, <1>7, <1>10 DEF Inv, Allocated

LEMMA FinishKeepsInv == ASSUME Inv, Finish PROVE Inv'
<1>1. InBounds' /\ IsMemory'
  BY DEF Inv, Finish, InBounds, IsMemory, BufferBytes, LumaBytes, PlaneBytes,
         FrameBytes
<1>2. LoopsInside' /\ step' \in Steps
  BY DEF Inv, Finish, LoopsInside, Steps
<1> QED BY <1>1, <1>2 DEF Inv, Finish, Allocated

(* The invariant holds in every state of every behaviour. *)
THEOREM Invariance == Spec => []Inv
<1>1. Inv /\ [Next]_vars => Inv'
  <2> SUFFICES ASSUME Inv, [Next]_vars PROVE Inv'
    OBVIOUS
  <2>1. CASE UNCHANGED vars
    BY <2>1 DEF vars, Inv, Steps, Allocated, IsMemory, LoopsInside, Inside,
                InBounds, BufferBytes, LumaBytes, PlaneBytes, FrameBytes
  <2> QED BY <2>1, BeginKeepsInv, CopyLumaKeepsInv, CopyChromaKeepsInv,
             CopyRgbaKeepsInv, FinishKeepsInv DEF Next
<1> QED BY <1>1, InvInit, PTL DEF Spec

(* InBounds: for every size, no copy reads past the frame or writes past the  *)
(* buffer (copyToYuv, copyToScaledNv12, copyToRgba).                          *)
THEOREM NeverOutOfBounds == Spec => []InBounds
<1>1. Inv => InBounds
  BY DEF Inv
<1> QED BY <1>1, Invariance, PTL

(* TypeOK: the loop counters stay coordinates of the frame and the memory     *)
(* holds sets of numbers, for every size.                                     *)
THEOREM TypeCorrect == Spec => []TypeOK
<1>1. Inv => TypeOK
  <2> SUFFICES ASSUME Inv PROVE TypeOK
    OBVIOUS
  <2>1. buffer \in Buffer /\ step \in Steps
    BY AllocatedFacts DEF Inv
  <2>2. x \in 0..(Width - 1) /\ y \in 0..(Height - 1)
    BY Rectangles, SizeAssumption DEF Inv, LoopsInside, Inside, Steps
  <2>3. memory \in [DOMAIN memory -> SUBSET Int]
    <3>1. FrameBytes \in Int
      BY SizeAssumption DEF FrameBytes
    <3> QED BY <3>1 DEF Inv, IsMemory, InBounds
  <2> QED BY <2>1, <2>2, <2>3 DEF TypeOK, Steps
<1> QED BY <1>1, Invariance, PTL

----------------------------------------------------------------------------
(* Every sample goes to a byte of its own                                  *)

(* Two cells of rows of `stride` at the same place are the same cell. *)
LEMMA CellsApart ==
  ASSUME NEW i \in Nat, NEW j \in Nat, NEW k \in Nat, NEW l \in Nat,
         NEW stride \in Nat, i < stride, k < stride,
         j * stride + i = l * stride + k
  PROVE  i = k /\ j = l
<1>1. ~ (j < l)
  <2> SUFFICES ASSUME j < l PROVE FALSE
    OBVIOUS
  <2>1. (l - j - 1) * stride >= 0
    OBVIOUS
  <2>2. l * stride >= j * stride + stride
    BY <2>1
  <2>3. j * stride \in Nat /\ l * stride \in Nat
    OBVIOUS
  <2> QED BY <2>2, <2>3
<1>2. ~ (l < j)
  <2> SUFFICES ASSUME l < j PROVE FALSE
    OBVIOUS
  <2>1. (j - l - 1) * stride >= 0
    OBVIOUS
  <2>2. j * stride >= l * stride + stride
    BY <2>1
  <2>3. j * stride \in Nat /\ l * stride \in Nat
    OBVIOUS
  <2> QED BY <2>2, <2>3
<1>3. j = l
  BY <1>1, <1>2
<1> QED BY <1>3

(* No two pixels of a buffer share a cell. *)
LEMMA PixelsApart ==
  ASSUME buffer \in Allocated,
         NEW i \in 0..(buffer.width - 1), NEW j \in 0..(buffer.height - 1),
         NEW k \in 0..(buffer.width - 1), NEW l \in 0..(buffer.height - 1),
         At(i, j) = At(k, l)
  PROVE  i = k /\ j = l
<1>1. /\ i \in Nat /\ j \in Nat /\ k \in Nat /\ l \in Nat
      /\ buffer.stride \in Nat /\ i < buffer.stride /\ k < buffer.stride
  BY AllocatedFacts DEF Buffer
<1>2. j * buffer.stride + i = l * buffer.stride + k
  BY DEF At
<1> QED BY <1>1, <1>2, CellsApart

(* A block of a buffer: its coordinates, in rows of half the stride. *)
LEMMA BlockFacts ==
  ASSUME buffer \in Allocated,
         NEW i \in 0..(buffer.width \div 2 - 1),
         NEW j \in 0..(buffer.height \div 2 - 1)
  PROVE  /\ i \in Nat /\ j \in Nat
         /\ i < buffer.width \div 2 /\ j < buffer.height \div 2
         /\ i < buffer.stride \div 2
<1>1. buffer.width = 2 * (buffer.width \div 2) /\ buffer.width \div 2 \in Nat
  BY AllocatedFacts, HalfOfEven DEF Buffer
<1>2. buffer.stride = 2 * (buffer.stride \div 2) /\ buffer.stride \div 2 \in Nat
  BY PlaneFacts
<1>3. buffer.height \div 2 \in Nat
  BY PlaneFacts
<1> QED BY <1>1, <1>2, <1>3, AllocatedFacts DEF Buffer

(* The chroma samples of two blocks are in different bytes, the two samples  *)
(* of a block too, and all of them after the luma plane.                     *)
LEMMA BlocksApart ==
  ASSUME buffer \in Allocated,
         NEW i \in 0..(buffer.width \div 2 - 1),
         NEW j \in 0..(buffer.height \div 2 - 1),
         NEW k \in 0..(buffer.width \div 2 - 1),
         NEW l \in 0..(buffer.height \div 2 - 1)
  PROVE  /\ Cb(i, j) = Cb(k, l) => i = k /\ j = l
         /\ Cr(i, j) = Cr(k, l) => i = k /\ j = l
         /\ Cb(i, j) # Cr(k, l)
         /\ Cb(i, j) \in Nat /\ Cb(i, j) >= LumaBytes
         /\ Cr(i, j) \in Nat /\ Cr(i, j) >= LumaBytes
<1> DEFINE s == buffer.stride \div 2
           h == buffer.height \div 2
<1>1. /\ LumaBytes \in Nat /\ s \in Nat /\ h \in Nat
      /\ buffer.stride = 2 * s /\ PlaneBytes = s * h
  BY PlaneFacts DEF PlaneBytes
<1>2. /\ i \in Nat /\ j \in Nat /\ k \in Nat /\ l \in Nat
      /\ i < s /\ k < s /\ j < h /\ l < h
  BY BlockFacts
<1> HIDE DEF s, h
<1>3. CASE buffer.layout = "planar"
  <2>1. /\ Cb(i, j) = LumaBytes + j * s + i /\ Cr(i, j) = Cb(i, j) + s * h
        /\ Cb(k, l) = LumaBytes + l * s + k /\ Cr(k, l) = Cb(k, l) + s * h
    BY <1>1, <1>3 DEF Cb, Cr, s
  <2>2. /\ j * s \in Nat /\ l * s \in Nat /\ s * h \in Nat
    BY <1>1, <1>2
  <2>3. j * s + i \in 0..(s * h - 1) /\ l * s + k \in 0..(s * h - 1)
    BY <1>1, <1>2, CellInside
  <2>4. j * s + i = l * s + k => i = k /\ j = l
    BY <1>1, <1>2, CellsApart
  <2> QED BY <2>1, <2>2, <2>3, <2>4, <1>1, <1>2
<1>4. CASE buffer.layout # "planar"
  <2> DEFINE w == 2 * s
  <2>1. /\ Cb(i, j) = LumaBytes + (j * w + 2 * i) /\ Cr(i, j) = Cb(i, j) + 1
        /\ Cb(k, l) = LumaBytes + (l * w + 2 * k) /\ Cr(k, l) = Cb(k, l) + 1
    BY <1>1, <1>4 DEF Cb, Cr, At
  <2>2. /\ w \in Nat /\ 2 * i \in Nat /\ 2 * k \in Nat /\ 2 * k + 1 \in Nat
        /\ 2 * i < w /\ 2 * k < w /\ 2 * k + 1 < w
    BY <1>1, <1>2
  <2> HIDE DEF w
  <2>3. j * w \in Nat /\ l * w \in Nat
    BY <2>2, <1>2
  <2>4. j * w + 2 * i = l * w + 2 * k => 2 * i = 2 * k /\ j = l
    BY <2>2, <1>2, CellsApart
  <2>5. j * w + 2 * i = l * w + (2 * k + 1) => 2 * i = 2 * k + 1 /\ j = l
    BY <2>2, <1>2, CellsApart
  <2>6. j * w + 2 * i # l * w + (2 * k + 1)
    BY <2>5, <1>2
  <2> QED BY <2>1, <2>2, <2>3, <2>4, <2>6, <1>1, <1>2
<1> QED BY <1>3, <1>4

----------------------------------------------------------------------------
(* What the loops have drawn                                               *)

(* A write leaves the other bytes as they were. *)
LEMMA WriteKeeps ==
  ASSUME NEW bytes, Write(bytes), NEW a, NEW v, Made(a, v),
         \A b \in bytes : b[1] # a
  PROVE  a \in DOMAIN memory' /\ memory'[a] = v
<1>1. a \in DOMAIN memory /\ memory[a] = v
  BY DEF Made
<1>2. a \in DOMAIN memory'
  BY <1>1 DEF Write
<1>3. memory'[a] = memory[a]
  BY <1>1 DEF Write
<1> QED BY <1>1, <1>2, <1>3

(* A write makes the byte of each of its addresses, when they differ. *)
LEMMA WriteMakes ==
  ASSUME NEW bytes, Write(bytes), NEW b \in bytes,
         \A c \in bytes : c[1] = b[1] => c = b
  PROVE  b[1] \in DOMAIN memory' /\ memory'[b[1]] = b[2]
<1>1. b[1] \in DOMAIN memory'
  BY DEF Write
<1> DEFINE chosen == CHOOSE c \in bytes : c[1] = b[1]
<1>2. chosen \in bytes /\ chosen[1] = b[1]
  OBVIOUS
<1>3. chosen = b
  BY <1>2
<1>4. memory'[b[1]] = chosen[2]
  BY <1>1 DEF Write
<1> QED BY <1>1, <1>3, <1>4

(* The loops have passed (i, j). *)
Passed(i, j) == j < y \/ (j = y /\ i < x)

(* An iteration passes the place it is at, and no other; the last one has    *)
(* passed every place.                                                       *)
LEMMA IterationPasses ==
  ASSUME NEW columns \in Nat, NEW rows \in Nat, NEW after,
         Inside(columns, rows), NextIteration(columns, rows, after),
         NEW i \in 0..(columns - 1), NEW j \in 0..(rows - 1)
  PROVE  \/ /\ step' = step
            /\ Passed(i, j)' <=> (Passed(i, j) \/ (i = x /\ j = y))
         \/ /\ step' = after
            /\ Passed(i, j) \/ (i = x /\ j = y)
BY DEF Inside, NextIteration, Passed

(* At the start, no place has been passed. *)
LEMMA NothingPassed ==
  ASSUME x = 0, y = 0, NEW i \in Nat, NEW j \in Nat
  PROVE  ~ Passed(i, j)
BY DEF Passed

(* The samples of a pixel or of a block are in the buffer. *)
LumaMade(i, j) == Made(At(i, j), {Luma(i, j)})

PairMade(i, j) == /\ Made(Cb(i, j), {BlockPair(i, j)})
                  /\ Made(Cr(i, j), {BlockPair(i, j) + 1})

PixelMade(i, j) ==
  LET Y == Luma(i, j)
      U == Pair(SourceX(i), SourceY(j))
  IN  /\ Made(At(i, j) * 4, {Y, U + 1})
      /\ Made(At(i, j) * 4 + 1, {Y, U, U + 1})
      /\ Made(At(i, j) * 4 + 2, {Y, U})
      /\ Made(At(i, j) * 4 + 3, {})

Done == {"copied", "finished"}

LumaDrawn ==
  buffer.format # "RGBA_8888" /\ step \in {"luma", "chroma"} \cup Done =>
    \A i \in 0..(buffer.width - 1), j \in 0..(buffer.height - 1) :
      step # "luma" \/ Passed(i, j) => LumaMade(i, j)

ChromaDrawn ==
  buffer.format # "RGBA_8888" /\ step \in {"chroma"} \cup Done =>
    \A i \in 0..(buffer.width \div 2 - 1), j \in 0..(buffer.height \div 2 - 1) :
      step # "chroma" \/ Passed(i, j) => PairMade(i, j)

RgbaDrawn ==
  buffer.format = "RGBA_8888" /\ step \in {"rgba"} \cup Done =>
    \A i \in 0..(buffer.width - 1), j \in 0..(buffer.height - 1) :
      step # "rgba" \/ Passed(i, j) => PixelMade(i, j)

(* What every loop has passed is drawn, and nothing of it is overwritten. *)
Drawn == LumaDrawn /\ ChromaDrawn /\ RgbaDrawn

(* The places of the samples do not move while a buffer is drawn. *)
LEMMA SamplesStay ==
  ASSUME buffer' = buffer, NEW i \in Nat, NEW j \in Nat
  PROVE  /\ At(i, j)' = At(i, j) /\ Cb(i, j)' = Cb(i, j) /\ Cr(i, j)' = Cr(i, j)
         /\ Luma(i, j)' = Luma(i, j) /\ BlockPair(i, j)' = BlockPair(i, j)
         /\ Pair(SourceX(i), SourceY(j))' = Pair(SourceX(i), SourceY(j))
BY DEF At, Cb, Cr, LumaBytes, PlaneBytes, Luma, BlockPair, Pair, SourceX, SourceY

(* A write to other bytes keeps a pixel's luma, a block's pair, a pixel. *)
LEMMA WriteKeepsLuma ==
  ASSUME NEW bytes, Write(bytes), buffer' = buffer, NEW i \in Nat, NEW j \in Nat,
         LumaMade(i, j), \A b \in bytes : b[1] # At(i, j)
  PROVE  LumaMade(i, j)'
BY WriteKeeps, SamplesStay DEF LumaMade, Made

LEMMA WriteKeepsPair ==
  ASSUME NEW bytes, Write(bytes), buffer' = buffer, NEW i \in Nat, NEW j \in Nat,
         PairMade(i, j), \A b \in bytes : b[1] # Cb(i, j) /\ b[1] # Cr(i, j)
  PROVE  PairMade(i, j)'
<1>1. /\ Cb(i, j) \in DOMAIN memory' /\ memory'[Cb(i, j)] = {BlockPair(i, j)}
      /\ Cr(i, j) \in DOMAIN memory' /\ memory'[Cr(i, j)] = {BlockPair(i, j) + 1}
  BY WriteKeeps DEF PairMade
<1> QED BY <1>1, SamplesStay DEF PairMade, Made

LEMMA WriteKeepsPixel ==
  ASSUME NEW bytes, Write(bytes), buffer' = buffer, NEW i \in Nat, NEW j \in Nat,
         PixelMade(i, j),
         \A b \in bytes : /\ b[1] # At(i, j) * 4 /\ b[1] # At(i, j) * 4 + 1
                          /\ b[1] # At(i, j) * 4 + 2 /\ b[1] # At(i, j) * 4 + 3
  PROVE  PixelMade(i, j)'
<1> DEFINE out == At(i, j) * 4
           Y == Luma(i, j)
           U == Pair(SourceX(i), SourceY(j))
<1>1. /\ out \in DOMAIN memory' /\ memory'[out] = {Y, U + 1}
      /\ out + 1 \in DOMAIN memory' /\ memory'[out + 1] = {Y, U, U + 1}
  BY WriteKeeps DEF PixelMade
<1>2. /\ out + 2 \in DOMAIN memory' /\ memory'[out + 2] = {Y, U}
      /\ out + 3 \in DOMAIN memory' /\ memory'[out + 3] = {}
  BY WriteKeeps DEF PixelMade
<1> QED BY <1>1, <1>2, SamplesStay DEF PixelMade, Made

LEMMA BeginKeepsDrawn == ASSUME Inv, Begin PROVE Drawn'
<1>1. /\ step' \in {"luma", "rgba", "failed"} /\ x' = 0 /\ y' = 0
      /\ step' = "luma" => buffer'.format # "RGBA_8888"
      /\ step' = "rgba" => buffer'.format = "RGBA_8888"
      /\ buffer' \in Allocated
  BY DEF Begin
<1>2. \A i, j \in Nat : ~ Passed(i, j)'
  BY <1>1 DEF Passed
<1>3. buffer'.width \in Nat /\ buffer'.height \in Nat
  BY <1>1, Rectangles
<1>4. LumaDrawn'
  BY <1>1, <1>2, <1>3 DEF LumaDrawn, Done
<1>5. RgbaDrawn'
  BY <1>1, <1>2, <1>3 DEF RgbaDrawn, Done
<1>6. ChromaDrawn'
  BY <1>1 DEF ChromaDrawn, Done
<1> QED BY <1>4, <1>5, <1>6 DEF Drawn

LEMMA CopyLumaKeepsDrawn == ASSUME Inv, Drawn, CopyLuma PROVE Drawn'
<1> DEFINE bytes == {<<At(x, y), {Luma(x, y)}>>}
<1>1. /\ step = "luma" /\ buffer \in Allocated /\ buffer' = buffer
      /\ buffer.format # "RGBA_8888" /\ Inside(buffer.width, buffer.height)
      /\ Write(bytes) /\ NextIteration(buffer.width, buffer.height, "chroma")
  BY DEF Inv, LoopsInside, CopyLuma
<1>2. /\ buffer.width \in Nat /\ buffer.height \in Nat
      /\ buffer.width \div 2 \in Nat /\ buffer.height \div 2 \in Nat
      /\ x \in 0..(buffer.width - 1) /\ y \in 0..(buffer.height - 1)
  BY <1>1, Rectangles DEF Inside
<1>3. \/ step' = "luma"
      \/ step' = "chroma" /\ x' = 0 /\ y' = 0
  BY <1>1, <1>2, LoopsGoOn
<1>4. RgbaDrawn'
  BY <1>1 DEF RgbaDrawn
<1>5. ChromaDrawn'
  BY <1>1, <1>2, <1>3 DEF ChromaDrawn, Passed, Done
<1>6. ASSUME NEW i \in 0..(buffer.width - 1), NEW j \in 0..(buffer.height - 1),
             i = x /\ j = y
      PROVE  LumaMade(i, j)'
  <2>1. At(i, j) \in DOMAIN memory' /\ memory'[At(i, j)] = {Luma(i, j)}
    BY <1>1, <1>6 DEF Write
  <2> QED BY <2>1, <1>1, <1>2, SamplesStay DEF LumaMade, Made
<1>7. ASSUME NEW i \in 0..(buffer.width - 1), NEW j \in 0..(buffer.height - 1),
             LumaMade(i, j), ~ (i = x /\ j = y)
      PROVE  LumaMade(i, j)'
  <2>1. At(x, y) # At(i, j)
    BY <1>1, <1>2, <1>7, PixelsApart
  <2>2. \A b \in bytes : b[1] # At(i, j)
    BY <2>1
  <2> QED BY <1>1, <1>2, <1>7, <2>2, WriteKeepsLuma
<1>8. ASSUME NEW i \in 0..(buffer.width - 1), NEW j \in 0..(buffer.height - 1),
             step' # "luma" \/ Passed(i, j)'
      PROVE  LumaMade(i, j)'
  <2>1. Passed(i, j) \/ (i = x /\ j = y)
    BY <1>1, <1>2, <1>8, IterationPasses
  <2>2. Passed(i, j) => LumaMade(i, j)
    BY <1>1, <1>2 DEF Drawn, LumaDrawn
  <2> QED BY <1>6, <1>7, <2>1, <2>2
<1>9. LumaDrawn'
  BY <1>1, <1>8 DEF LumaDrawn
<1> QED BY <1>4, <1>5, <1>9 DEF Drawn

LEMMA CopyChromaKeepsDrawn == ASSUME Inv, Drawn, CopyChroma PROVE Drawn'
<1> DEFINE columns == buffer.width \div 2
           rows == buffer.height \div 2
           cb == <<Cb(x, y), {BlockPair(x, y)}>>
           cr == <<Cr(x, y), {BlockPair(x, y) + 1}>>
           bytes == {cb, cr}
<1>1. /\ step = "chroma" /\ buffer \in Allocated /\ buffer' = buffer
      /\ buffer.format # "RGBA_8888" /\ Inside(columns, rows)
      /\ Write(bytes) /\ NextIteration(columns, rows, "copied")
  BY DEF Inv, LoopsInside, CopyChroma
<1>2. /\ columns \in Nat /\ rows \in Nat
      /\ buffer.width \in Nat /\ buffer.height \in Nat
      /\ x \in 0..(columns - 1) /\ y \in 0..(rows - 1)
  BY <1>1, Rectangles DEF Inside
<1>3. step' \in {"chroma", "copied"}
  BY <1>1, <1>2, LoopsGoOn
<1>4. RgbaDrawn'
  BY <1>1 DEF RgbaDrawn
<1>5. ASSUME NEW i \in 0..(buffer.width - 1), NEW j \in 0..(buffer.height - 1)
      PROVE  LumaMade(i, j)'
  <2>1. LumaMade(i, j)
    BY <1>1 DEF Drawn, LumaDrawn
  <2>2. At(i, j) < LumaBytes /\ At(i, j) \in Nat /\ LumaBytes \in Nat
    BY <1>1, <1>2, AtInside, PlaneFacts
  <2>3. /\ Cb(x, y) \in Nat /\ Cb(x, y) >= LumaBytes
        /\ Cr(x, y) \in Nat /\ Cr(x, y) >= LumaBytes
    BY <1>1, <1>2, BlocksApart
  <2>4. \A b \in bytes : b[1] # At(i, j)
    BY <2>2, <2>3
  <2> QED BY <1>1, <1>2, <2>1, <2>4, WriteKeepsLuma
<1>6. LumaDrawn'
  BY <1>1, <1>5 DEF LumaDrawn
<1>7. ASSUME NEW i \in 0..(columns - 1), NEW j \in 0..(rows - 1),
             i = x /\ j = y
      PROVE  PairMade(i, j)'
  <2>1. Cb(x, y) # Cr(x, y)
    BY <1>1, <1>2, BlocksApart
  <2>2. \A c \in bytes : (c[1] = cb[1] => c = cb) /\ (c[1] = cr[1] => c = cr)
    BY <2>1
  <2>3. /\ Cb(x, y) \in DOMAIN memory' /\ memory'[Cb(x, y)] = {BlockPair(x, y)}
        /\ Cr(x, y) \in DOMAIN memory' /\ memory'[Cr(x, y)] = {BlockPair(x, y) + 1}
    <3>1. cb[1] \in DOMAIN memory' /\ memory'[cb[1]] = cb[2]
      <4> HIDE DEF cb, cr
      <4> QED BY <1>1, <2>2, WriteMakes
    <3>2. cr[1] \in DOMAIN memory' /\ memory'[cr[1]] = cr[2]
      <4> HIDE DEF cb, cr
      <4> QED BY <1>1, <2>2, WriteMakes
    <3> QED BY <3>1, <3>2
  <2> QED BY <1>1, <1>2, <1>7, <2>3, SamplesStay DEF PairMade, Made
<1>8. ASSUME NEW i \in 0..(columns - 1), NEW j \in 0..(rows - 1),
             PairMade(i, j), ~ (i = x /\ j = y)
      PROVE  PairMade(i, j)'
  <2>1. /\ Cb(x, y) # Cb(i, j) /\ Cr(x, y) # Cr(i, j)
        /\ Cb(x, y) # Cr(i, j) /\ Cb(i, j) # Cr(x, y)
    BY <1>1, <1>2, <1>8, BlocksApart
  <2>2. \A b \in bytes : b[1] # Cb(i, j) /\ b[1] # Cr(i, j)
    BY <2>1
  <2> QED BY <1>1, <1>2, <1>8, <2>2, WriteKeepsPair
<1>9. ASSUME NEW i \in 0..(columns - 1), NEW j \in 0..(rows - 1),
             step' # "chroma" \/ Passed(i, j)'
      PROVE  PairMade(i, j)'
  <2>1. Passed(i, j) \/ (i = x /\ j = y)
    BY <1>1, <1>2, <1>9, IterationPasses
  <2>2. Passed(i, j) => PairMade(i, j)
    BY <1>1, <1>2 DEF Drawn, ChromaDrawn
  <2> QED BY <1>7, <1>8, <2>1, <2>2
<1>10. ChromaDrawn'
  BY <1>1, <1>9 DEF ChromaDrawn
<1> QED BY <1>4, <1>6, <1>10 DEF Drawn

(* The four bytes of a pixel have four addresses. *)
LEMMA FourBytes ==
  ASSUME NEW n \in Nat, NEW p, NEW q, NEW r, NEW s
  PROVE  \A b, c \in {<<n, p>>, <<n + 1, q>>, <<n + 2, r>>, <<n + 3, s>>} :
           c[1] = b[1] => c = b
<1> SUFFICES ASSUME NEW b \in {<<n, p>>, <<n + 1, q>>, <<n + 2, r>>, <<n + 3, s>>},
                    NEW c \in {<<n, p>>, <<n + 1, q>>, <<n + 2, r>>, <<n + 3, s>>},
                    c[1] = b[1]
             PROVE  c = b
  OBVIOUS
<1>1. n # n + 1 /\ n # n + 2 /\ n # n + 3 /\ n + 1 # n + 2 /\ n + 1 # n + 3
      /\ n + 2 # n + 3
  OBVIOUS
<1>2. CASE b = <<n, p>>
  BY <1>1, <1>2
<1>3. CASE b = <<n + 1, q>>
  BY <1>1, <1>3
<1>4. CASE b = <<n + 2, r>>
  BY <1>1, <1>4
<1>5. CASE b = <<n + 3, s>>
  BY <1>1, <1>5
<1> QED BY <1>2, <1>3, <1>4, <1>5

LEMMA CopyRgbaKeepsDrawn == ASSUME Inv, Drawn, CopyRgba PROVE Drawn'
<1> DEFINE out == At(x, y) * 4
           Y == Luma(x, y)
           U == Pair(SourceX(x), SourceY(y))
           bytes == {<<out, {Y, U + 1}>>, <<out + 1, {Y, U, U + 1}>>,
                     <<out + 2, {Y, U}>>, <<out + 3, {}>>}
<1>1. /\ step = "rgba" /\ buffer \in Allocated /\ buffer' = buffer
      /\ buffer.format = "RGBA_8888" /\ Inside(buffer.width, buffer.height)
      /\ Write(bytes) /\ NextIteration(buffer.width, buffer.height, "copied")
  BY DEF Inv, LoopsInside, CopyRgba
<1>2. /\ buffer.width \in Nat /\ buffer.height \in Nat
      /\ x \in 0..(buffer.width - 1) /\ y \in 0..(buffer.height - 1)
  BY <1>1, Rectangles DEF Inside
<1>3. LumaDrawn' /\ ChromaDrawn'
  BY <1>1 DEF LumaDrawn, ChromaDrawn
<1>4. At(x, y) \in Nat /\ out \in Nat
  BY <1>1, <1>2, AtInside, PlaneFacts
<1>5. ASSUME NEW i \in 0..(buffer.width - 1), NEW j \in 0..(buffer.height - 1),
             i = x /\ j = y
      PROVE  PixelMade(i, j)'
  <2>1. \A b \in bytes, c \in bytes : c[1] = b[1] => c = b
    <3> HIDE DEF out, Y, U
    <3> QED BY <1>4, FourBytes
  <2>2. \A b \in bytes : b[1] \in DOMAIN memory' /\ memory'[b[1]] = b[2]
    <3> HIDE DEF bytes
    <3> QED BY <1>1, <2>1, WriteMakes
  <2>3. /\ out \in DOMAIN memory' /\ memory'[out] = {Y, U + 1}
        /\ out + 1 \in DOMAIN memory' /\ memory'[out + 1] = {Y, U, U + 1}
        /\ out + 2 \in DOMAIN memory' /\ memory'[out + 2] = {Y, U}
        /\ out + 3 \in DOMAIN memory' /\ memory'[out + 3] = {}
    <3> HIDE DEF out, Y, U
    <3> QED BY <2>2
  <2> QED BY <1>1, <1>2, <1>5, <2>3, SamplesStay DEF PixelMade, Made
<1>6. ASSUME NEW i \in 0..(buffer.width - 1), NEW j \in 0..(buffer.height - 1),
             PixelMade(i, j), ~ (i = x /\ j = y)
      PROVE  PixelMade(i, j)'
  <2>1. At(x, y) # At(i, j) /\ At(i, j) \in Nat
    BY <1>1, <1>2, <1>6, PixelsApart, AtInside, PlaneFacts
  <2>2. \A b \in bytes : /\ b[1] # At(i, j) * 4 /\ b[1] # At(i, j) * 4 + 1
                         /\ b[1] # At(i, j) * 4 + 2 /\ b[1] # At(i, j) * 4 + 3
    BY <1>4, <2>1
  <2> QED BY <1>1, <1>2, <1>6, <2>2, WriteKeepsPixel
<1>7. ASSUME NEW i \in 0..(buffer.width - 1), NEW j \in 0..(buffer.height - 1),
             step' # "rgba" \/ Passed(i, j)'
      PROVE  PixelMade(i, j)'
  <2>1. Passed(i, j) \/ (i = x /\ j = y)
    BY <1>1, <1>2, <1>7, IterationPasses
  <2>2. Passed(i, j) => PixelMade(i, j)
    BY <1>1, <1>2 DEF Drawn, RgbaDrawn
  <2> QED BY <1>5, <1>6, <2>1, <2>2
<1>8. RgbaDrawn'
  BY <1>1, <1>7 DEF RgbaDrawn
<1> QED BY <1>3, <1>8 DEF Drawn

(* What is drawn stays while buffer and memory do. *)
LEMMA MemoryStays ==
  ASSUME buffer' = buffer, memory' = memory
  PROVE  \A i, j \in Nat : /\ LumaMade(i, j)' <=> LumaMade(i, j)
                           /\ PairMade(i, j)' <=> PairMade(i, j)
                           /\ PixelMade(i, j)' <=> PixelMade(i, j)
BY SamplesStay DEF LumaMade, PairMade, PixelMade, Made

LEMMA FinishKeepsDrawn == ASSUME Inv, Drawn, Finish PROVE Drawn'
<1>1. /\ step = "copied" /\ step' \in {"finished", "failed"}
      /\ buffer' = buffer /\ memory' = memory
      /\ buffer.width \in Nat /\ buffer.height \in Nat
      /\ buffer.width \div 2 \in Nat /\ buffer.height \div 2 \in Nat
  BY Rectangles DEF Inv, Finish
<1>2. \A i, j \in Nat : /\ LumaMade(i, j)' <=> LumaMade(i, j)
                        /\ PairMade(i, j)' <=> PairMade(i, j)
                        /\ PixelMade(i, j)' <=> PixelMade(i, j)
  BY <1>1, MemoryStays
<1>3. LumaDrawn'
  BY <1>1, <1>2 DEF Drawn, LumaDrawn, Done
<1>4. ChromaDrawn'
  BY <1>1, <1>2 DEF Drawn, ChromaDrawn, Done
<1>5. RgbaDrawn'
  BY <1>1, <1>2 DEF Drawn, RgbaDrawn, Done
<1> QED BY <1>3, <1>4, <1>5 DEF Drawn

(* Every buffer is drawn as far as its loops have come. *)
THEOREM DrawnInvariant == Spec => []Drawn
<1>1. Init => Drawn
  BY DEF Init, Drawn, LumaDrawn, ChromaDrawn, RgbaDrawn, Done
<1>2. Inv /\ Drawn /\ [Next]_vars => Drawn'
  <2> SUFFICES ASSUME Inv, Drawn, [Next]_vars PROVE Drawn'
    OBVIOUS
  <2>1. CASE UNCHANGED vars
    <3>1. step' = step /\ buffer' = buffer /\ x' = x /\ y' = y /\ memory' = memory
      BY <2>1 DEF vars
    <3>2. /\ buffer.width \in Nat /\ buffer.height \in Nat
          /\ buffer.width \div 2 \in Nat /\ buffer.height \div 2 \in Nat
      BY Rectangles DEF Inv
    <3>3. \A i, j \in Nat : /\ LumaMade(i, j)' <=> LumaMade(i, j)
                            /\ PairMade(i, j)' <=> PairMade(i, j)
                            /\ PixelMade(i, j)' <=> PixelMade(i, j)
      BY <3>1, MemoryStays
    <3>4. \A i, j \in Nat : Passed(i, j)' <=> Passed(i, j)
      BY <3>1 DEF Passed
    <3>5. LumaDrawn'
      BY <3>1, <3>2, <3>3, <3>4 DEF Drawn, LumaDrawn
    <3>6. ChromaDrawn'
      BY <3>1, <3>2, <3>3, <3>4 DEF Drawn, ChromaDrawn
    <3>7. RgbaDrawn'
      BY <3>1, <3>2, <3>3, <3>4 DEF Drawn, RgbaDrawn
    <3> QED BY <3>5, <3>6, <3>7 DEF Drawn
  <2> QED BY <2>1, BeginKeepsDrawn, CopyLumaKeepsDrawn, CopyChromaKeepsDrawn,
             CopyRgbaKeepsDrawn, FinishKeepsDrawn DEF Next
<1> QED BY <1>1, <1>2, Invariance, PTL DEF Spec

----------------------------------------------------------------------------
(* What is drawn is the picture                                            *)

(* Only one coordinate is the nearest, and Scaled() is the one. *)
LEMMA NearestIsScaled ==
  ASSUME NEW i \in Nat, NEW from \in Nat, NEW to \in Nat, i < to, from > 0
  PROVE  Nearest(i, from, to) = Scaled(i, from, to)
<1> DEFINE q == Scaled(i, from, to)
           n == i * from
           Fits(k) == k * to <= n /\ n < (k + 1) * to
<1>1. q \in 0..(from - 1)
  BY ScaledBelow
<1>2. n \in Nat
  OBVIOUS
<1>3. Fits(q)
  <2>1. q = n \div to
    BY DEF Scaled
  <2> HIDE DEF n
  <2> QED BY <1>2, <2>1
<1>4. ASSUME NEW k \in 0..(from - 1), Fits(k) PROVE k = q
  <2> HIDE DEF q
  <2>1. ~ (k < q)
    <3> SUFFICES ASSUME k < q PROVE FALSE
      OBVIOUS
    <3>1. (q - (k + 1)) * to >= 0
      BY <1>1
    <3>2. (k + 1) * to <= q * to
      BY <1>1, <3>1
    <3>3. (k + 1) * to \in Int /\ q * to \in Int
      BY <1>1
    <3> HIDE DEF n
    <3> QED BY <1>2, <1>3, <1>4, <3>2, <3>3
  <2>2. ~ (q < k)
    <3> SUFFICES ASSUME q < k PROVE FALSE
      OBVIOUS
    <3>1. (k - (q + 1)) * to >= 0
      BY <1>1
    <3>2. (q + 1) * to <= k * to
      BY <1>1, <3>1
    <3>3. (q + 1) * to \in Int /\ k * to \in Int
      BY <1>1
    <3> HIDE DEF n
    <3> QED BY <1>2, <1>3, <1>4, <3>2, <3>3
  <2> QED BY <1>1, <2>1, <2>2
<1> HIDE DEF q, n
<1>5. Nearest(i, from, to) = CHOOSE k \in 0..(from - 1) : Fits(k)
  BY DEF Nearest, n
<1> HIDE DEF Fits
<1>6. (CHOOSE k \in 0..(from - 1) : Fits(k)) = q
  BY <1>1, <1>3, <1>4
<1> QED BY <1>5, <1>6 DEF q

(* The pair of a pixel of the frame, counted in pairs. *)
LEMMA PairIsFrameU ==
  ASSUME NEW sx \in Nat, NEW sy \in Nat
  PROVE  Pair(sx, sy) = FrameU(sx, sy) /\ Pair(sx, RoundDown(sy)) = FrameU(sx, sy)
<1> DEFINE r == sy \div 2
           h == Width \div 2
<1>1. r \in Nat /\ h \in Nat /\ Width = 2 * h
  BY SizeAssumption, HalfOfEven
<1>2. /\ RoundDown(sx) = 2 * (sx \div 2) /\ sx \div 2 \in Nat
      /\ RoundDown(sy) \div 2 = r
  BY DEF RoundDown
<1>3. Width * Height \in Nat
  BY SizeAssumption
<1> HIDE DEF r, h
<1>4. r * Width = 2 * (r * h) /\ r * h \in Nat
  BY <1>1
<1>5. /\ Pair(sx, sy) = Width * Height + r * Width + 2 * (sx \div 2)
      /\ Pair(sx, RoundDown(sy)) = Width * Height + r * Width + 2 * (sx \div 2)
  BY <1>2 DEF Pair, r
<1>6. FrameU(sx, sy) = Width * Height + 2 * (r * h + sx \div 2)
  BY DEF FrameU, r, h
<1> QED BY <1>2, <1>3, <1>4, <1>5, <1>6

(* The nearest pixel of the frame, as the loops compute it. *)
LEMMA SourceIsNearest ==
  ASSUME buffer \in Allocated,
         NEW i \in 0..(buffer.width - 1), NEW j \in 0..(buffer.height - 1)
  PROVE  /\ Nearest(i, Width, buffer.width) = SourceX(i) /\ SourceX(i) \in Nat
         /\ Nearest(j, Height, buffer.height) = SourceY(j) /\ SourceY(j) \in Nat
<1>1. /\ i \in Nat /\ j \in Nat /\ i < buffer.width /\ j < buffer.height
      /\ buffer.width \in Nat /\ buffer.height \in Nat
  BY Rectangles
<1>2. /\ Nearest(i, Width, buffer.width) = SourceX(i)
      /\ SourceX(i) \in 0..(Width - 1)
  BY <1>1, SizeAssumption, NearestIsScaled, ScaledBelow DEF SourceX
<1>3. /\ Nearest(j, Height, buffer.height) = SourceY(j)
      /\ SourceY(j) \in 0..(Height - 1)
  BY <1>1, SizeAssumption, NearestIsScaled, ScaledBelow DEF SourceY
<1>4. SourceX(i) \in Nat /\ SourceY(j) \in Nat
  BY <1>2, <1>3, SizeAssumption
<1> QED BY <1>2, <1>3, <1>4

(* A pixel whose samples are in the buffer shows the picture. *)
LEMMA PixelShown ==
  ASSUME buffer \in Allocated, buffer.format = "RGBA_8888",
         NEW i \in 0..(buffer.width - 1), NEW j \in 0..(buffer.height - 1),
         PixelMade(i, j)
  PROVE  Shown(i, j)
<1>1. /\ Luma(i, j) = FrameY(SourceX(i), SourceY(j))
      /\ Pair(SourceX(i), SourceY(j)) = FrameU(SourceX(i), SourceY(j))
  BY SourceIsNearest, PairIsFrameU DEF Luma, FrameY
<1> QED BY <1>1, SourceIsNearest DEF PixelMade, Shown

LEMMA BlockShown ==
  ASSUME buffer \in Allocated, buffer.format # "RGBA_8888",
         NEW i \in 0..(buffer.width - 1), NEW j \in 0..(buffer.height - 1),
         LumaMade(i, j), PairMade(i \div 2, j \div 2)
  PROVE  Shown(i, j)
<1>1. Luma(i, j) = FrameY(SourceX(i), SourceY(j))
  BY DEF Luma, FrameY
<1>2. /\ i \in Nat /\ j \in Nat
      /\ buffer.width \in Nat /\ buffer.height \in Nat
  BY Rectangles
<1>3. /\ RoundDown(i) = 2 * (i \div 2) /\ RoundDown(i) \in 0..(buffer.width - 1)
      /\ RoundDown(j) = 2 * (j \div 2) /\ RoundDown(j) \in 0..(buffer.height - 1)
  BY <1>2 DEF RoundDown
<1>4. /\ Nearest(RoundDown(i), Width, buffer.width) = SourceX(2 * (i \div 2))
      /\ Nearest(RoundDown(j), Height, buffer.height) = SourceY(2 * (j \div 2))
      /\ SourceX(2 * (i \div 2)) \in Nat /\ SourceY(2 * (j \div 2)) \in Nat
  BY <1>3, SourceIsNearest
<1>5. BlockPair(i \div 2, j \div 2) =
        FrameU(SourceX(2 * (i \div 2)), SourceY(2 * (j \div 2)))
  BY <1>4, PairIsFrameU DEF BlockPair
<1> QED BY <1>1, <1>4, <1>5, SourceIsNearest DEF LumaMade, PairMade, Shown

(* PictureComplete: for every size of frame, stream and padding and in both   *)
(* layouts, a buffer finished without an error holds the whole picture        *)
(* (copyToYuv, copyToScaledNv12, copyToRgba).                                 *)
THEOREM PicturesComplete == Spec => []PictureComplete
<1>1. Inv /\ Drawn => PictureComplete
  <2> SUFFICES ASSUME Inv, Drawn, step = "finished",
                      NEW i \in 0..(buffer.width - 1),
                      NEW j \in 0..(buffer.height - 1)
               PROVE  Shown(i, j)
    BY DEF PictureComplete
  <2>1. buffer \in Allocated
    BY DEF Inv
  <2>2. CASE buffer.format = "RGBA_8888"
    BY <2>1, <2>2, PixelShown DEF Drawn, RgbaDrawn, Done
  <2>3. CASE buffer.format # "RGBA_8888"
    <3>1. LumaMade(i, j)
      BY <2>3 DEF Drawn, LumaDrawn, Done
    <3>2. /\ i \div 2 \in 0..(buffer.width \div 2 - 1)
          /\ j \div 2 \in 0..(buffer.height \div 2 - 1)
      BY <2>1, Rectangles, AllocatedFacts DEF EvenNumber
    <3>3. PairMade(i \div 2, j \div 2)
      BY <2>3, <3>2 DEF Drawn, ChromaDrawn, Done
    <3> QED BY <2>1, <2>3, <3>1, <3>3, BlockShown
  <2> QED BY <2>2, <2>3
<1> QED BY <1>1, Invariance, DrawnInvariant, PTL
=============================================================================
