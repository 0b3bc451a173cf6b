------------------------------ MODULE Pictures ------------------------------
(***************************************************************************)
(* From the bytes of a picture to the texture a widget draws (pngu.c,      *)
(* jmemsrc.cpp, texture.h).  Any call of libpng and libjpeg may fail; one  *)
(* of libjpeg then leaves DecodeJPEG through its longjmp.  The GUI thread  *)
(* draws the widget's data between any two steps.                          *)
(***************************************************************************)
EXTENDS Naturals, Sequences, FiniteSets, FiniteSetsExt, SequencesExt

CONSTANTS
  Sources,                \* of each: "png" with its chunks, or "jpeg" with a size
  MaxSide, MaxPixels,     \* 4096, 1024 * 1024
  MaxChunk, MaxChunks,    \* 64 KiB, 4096
  MaxWidth, MaxHeight,    \* 768, 480
  MaxLoads                \* bound: pictures loaded

VARIABLES
  pc, source,
  heap,          \* buffers allocated and not freed
  raw, target,   \* the size of the pixels, and of the picture in its texture
  data, shape,   \* the widget's texture, NULL or in the heap, and its size
  loads

vars == <<pc, source, heap, raw, target, data, shape, loads>>

None == [w |-> 0, h |-> 0]
NULL == <<>>
Image == <<"image">>
Pixels == <<"pixels">>
State == <<"state">>
Texture(n) == <<"texture", n>>

-----------------------------------------------------------------------------
(* The chunks of a PNG, walked before libpng sees it.  "length" counts the *)
(* bytes there are, which a chunk may claim more than.                     *)

imageSize(s) ==
  /\ s.w > 0 /\ s.h > 0
  /\ s.w <= MaxSide /\ s.h <= MaxSide
  /\ s.w <= MaxPixels \div s.h

Compressed == {"iCCP", "zTXt", "iTXt"}

\* The cursor after each chunk; the signature has 8 bytes, a chunk 12 more
\* than it claims.
Cursor(s, i) == 8 + FoldSeq(LAMBDA c, sum : sum + c.claims + 12, 0, SubSeq(s.chunks, 1, i - 1))

preflight(s) ==
  LET visit[i \in 1..Len(s.chunks) + 1, dataSeen \in BOOLEAN] ==
        IF i > Len(s.chunks) \/ Cursor(s, i) > s.length - 12 \/ i > MaxChunks THEN FALSE
        ELSE LET c == s.chunks[i]
                 seen == dataSeen \/ c.type = "IDAT" IN
             IF \/ c.claims > s.length - Cursor(s, i) - 12
                \/ c.type \in Compressed
                \/ c.type # "IDAT" /\ c.claims > MaxChunk THEN FALSE
             ELSE IF c.type = "IEND" THEN seen /\ c.claims = 0 /\ Cursor(s, i) + 12 = s.length
             ELSE visit[i + 1, seen]
  IN s.length >= 33 /\ s.chunks[1].type = "IHDR" /\ s.chunks[1].claims = 13
     /\ imageSize(s.size) /\ visit[1, FALSE]

-----------------------------------------------------------------------------
(* The texture: tiles of 4 by 4, in each first alpha and red, then green   *)
(* and blue.                                                               *)

Padded(n) == ((n + 3) \div 4) * 4

\* width * min(768 / width, 480 / height), cut to an integer of at least 1;
\* rounding may lose one where it is exact.
targets(s) ==
  IF s.w <= MaxWidth /\ s.h <= MaxHeight THEN {s}
  ELSE LET wide == MaxWidth * s.h <= MaxHeight * s.w
           Cut(n) == IF wide THEN (n * MaxWidth) \div s.w ELSE (n * MaxHeight) \div s.h
           Exact(n) == IF wide THEN (n * MaxWidth) % s.w = 0 ELSE (n * MaxHeight) % s.h = 0
           Sides(n) == {Max({1, Cut(n)})} \cup {Max({1, Cut(n) - 1}) : z \in {y \in {0} : Exact(n)}} IN
       {[w |-> w, h |-> h] : w \in Sides(s.w), h \in Sides(s.h)}

offset(x, y, width) ==
  ((((y \div 4) * (width \div 4) + (x \div 4)) * 32) + ((y % 4) * 4) + (x % 4)) * 2
Bytes(x, y, width) == {offset(x, y, width) + k : k \in {0, 1, 32, 33}}
TextureLength(s) == Padded(s.w) * Padded(s.h) * 4

\* The source pixel of a target pixel.
Nearest(x, y, s, t) == [x |-> (x * s.w) \div t.w, y |-> (y * s.h) \div t.h]

-----------------------------------------------------------------------------
Init ==
  /\ pc = "idle" /\ source \in Sources
  /\ heap = {} /\ raw = None /\ target = None
  /\ data = NULL /\ shape = None /\ loads = 0

GoTo(step) == pc' = step
Keep == UNCHANGED <<target, data, shape, loads>>

SetImage ==
  /\ pc = "idle" /\ loads < MaxLoads
  /\ source' \in Sources
  /\ GoTo(IF source'.kind = "png" THEN "read png" ELSE "decode jpeg")
  /\ loads' = loads + 1
  /\ UNCHANGED <<heap, raw, target, data, shape>>

\* png_image_begin_read_from_memory
BeginPng ==
  /\ pc = "read png"
  /\ IF ~preflight(source) THEN GoTo("idle") /\ UNCHANGED heap
     ELSE \/ GoTo("allocate png") /\ heap' = heap \cup {Image}
          \/ GoTo("idle") /\ UNCHANGED heap
  /\ UNCHANGED <<source, raw>> /\ Keep

AllocatePng ==
  /\ pc = "allocate png"
  /\ \/ imageSize(source.size) /\ GoTo("finish png") /\ heap' = heap \cup {Pixels}
     \/ GoTo("idle") /\ heap' = heap \ {Image}
  /\ UNCHANGED <<source, raw>> /\ Keep

FinishPng ==
  /\ pc = "finish png"
  /\ \/ GoTo("tile") /\ heap' = heap \ {Image} /\ raw' = source.size
     \/ GoTo("idle") /\ heap' = heap \ {Pixels, Image} /\ UNCHANGED raw
  /\ UNCHANGED source /\ Keep

\* calloc of the state, setjmp, jpeg_create_decompress and jpeg_read_header.
BeginJpeg ==
  /\ pc = "decode jpeg"
  /\ \/ GoTo("idle") /\ UNCHANGED heap
     \/ heap' = heap \cup {State} /\ GoTo(IF imageSize(source.size) THEN "start jpeg" ELSE "fail jpeg")
  /\ UNCHANGED <<source, raw>> /\ Keep

\* The first of the scales 1, 1/2, 1/4, 1/8 that fits, or the last.
Scaled(s, d) == [w |-> (s.w + d - 1) \div d, h |-> (s.h + d - 1) \div d]
Fits(s) == s.w <= MaxWidth /\ s.h <= MaxHeight
jpeg_calc_output_dimensions(s) ==
  LET fitting == {d \in {1, 2, 4, 8} : Fits(Scaled(s, d))} IN
  Scaled(s, IF fitting = {} THEN 8 ELSE Min(fitting))

StartJpeg ==
  /\ pc = "start jpeg"
  /\ \/ /\ raw' = jpeg_calc_output_dimensions(source.size)
        /\ imageSize(raw')
        /\ heap' = heap \cup {Pixels}
        /\ GoTo("scan jpeg")
     \/ UNCHANGED <<raw, heap>> /\ GoTo("fail jpeg")
  /\ UNCHANGED source /\ Keep

ScanJpeg ==
  /\ pc = "scan jpeg"
  /\ GoTo("tile") \/ GoTo("fail jpeg")
  /\ UNCHANGED <<source, heap, raw>> /\ Keep

\* Where longjmp lands, and the early returns: pixels is NULL until allocated.
FailJpeg ==
  /\ pc = "fail jpeg"
  /\ heap' = heap \ {State, Pixels}
  /\ GoTo("idle")
  /\ UNCHANGED <<source, raw>> /\ Keep

TilePixels ==
  /\ pc = "tile"
  /\ \/ /\ heap' = (heap \ {State, Pixels}) \cup {Texture(loads)}
        /\ target' \in targets(raw)
        /\ GoTo("replace")
     \/ heap' = heap \ {State, Pixels} /\ GoTo("idle") /\ UNCHANGED target
  /\ UNCHANGED <<source, raw, data, shape, loads>>

\* Under the lock: the old texture is freed, the new one takes its place.
Replace ==
  /\ pc = "replace"
  /\ heap' = heap \ {data}
  /\ data' = Texture(loads)
  /\ shape' = [w |-> Padded(target.w), h |-> Padded(target.h)]
  /\ GoTo("idle")
  /\ UNCHANGED <<source, raw, target, loads>>

Next ==
  \/ SetImage \/ BeginPng \/ AllocatePng \/ FinishPng
  \/ BeginJpeg \/ StartJpeg \/ ScanJpeg \/ FailJpeg \/ TilePixels \/ Replace

Spec == Init /\ [][Next]_vars

-----------------------------------------------------------------------------
\* What the walk accepts is a whole PNG within the limits: IHDR first, IEND
\* last and only there, pixels between, and nothing missing or left over.
WholePng(s) ==
  \E n \in 2..Len(s.chunks) :
  /\ n <= MaxChunks /\ imageSize(s.size)
  /\ s.length = Cursor(s, n + 1)
  /\ s.chunks[1].type = "IHDR" /\ s.chunks[1].claims = 13
  /\ {i \in 1..n : s.chunks[i].type = "IEND"} = {n} /\ s.chunks[n].claims = 0
  /\ \E i \in 1..n : s.chunks[i].type = "IDAT"
  /\ \A i \in 1..n : /\ s.chunks[i].type \notin Compressed
                     /\ s.chunks[i].type # "IDAT" => s.chunks[i].claims <= MaxChunk

\* The widget always has a whole texture of the size it believes or none, no
\* failure leaves a buffer behind, only a whole PNG reaches libpng, and the
\* tiling reads pixels of the picture and writes every texel to bytes of the
\* texture that are no other's (pngu.c:27, jmemsrc.cpp:27, texture.h:34).
PicturesHold ==
  /\ data # NULL => data \in heap
  /\ pc = "idle" => heap \subseteq {data}
  /\ pc = "read png" => (preflight(source) <=> WholePng(source))
  /\ pc = "replace" =>
       LET T == (0..target.w - 1) \X (0..target.h - 1)
           width == Padded(target.w) IN
       /\ width <= MaxWidth /\ Padded(target.h) <= MaxHeight
       /\ \A p \in T : LET from == Nearest(p[1], p[2], raw, target) IN from.x < raw.w /\ from.y < raw.h
       /\ \A p \in T : Bytes(p[1], p[2], width) \subseteq 0..TextureLength(target) - 1
       /\ Cardinality(UNION {Bytes(p[1], p[2], width) : p \in T}) = 4 * Cardinality(T)
=============================================================================
