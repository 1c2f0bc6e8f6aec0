---------------------------- MODULE CanonExtras ----------------------------
(***************************************************************************)
(* Two extras for Canon cameras: the blocks of a firmware upload (canon.c) *)
(* and the picture made of Magic Lantern's bitmap memory (ml.c).           *)
(***************************************************************************)
EXTENDS Integers, Sequences, SequencesExt

CONSTANTS FirmMax,       \* EOS_FIRM_MAX: bytes of a block
          FirmName,      \* EOS_NAME_LEN: bytes of the name before its data
          ScreenWidth, ScreenHeight, VramWidth  \* 720, 480, 960

ASSUME FirmAssumption == FirmMax \in Nat /\ FirmName \in Nat /\ FirmName < FirmMax
ASSUME ScreenAssumption ==
  ScreenWidth \in Nat /\ ScreenHeight \in Nat /\ VramWidth \in Nat /\ ScreenWidth < VramWidth

Least(a, b) == IF a < b THEN a ELSE b

-----------------------------------------------------------------------------
(* ptp_eos_update_firmware on a file of "size" bytes.  A block holds the   *)
(* name and as many bytes as were read next from the file; "at" is where   *)
(* the file was read, "offset" where the camera is told they belong.       *)

BlockSize(size, sent) == IF sent + FirmMax > size THEN FirmMax - (size - sent) ELSE FirmMax

Block(size, up) ==
  [offset |-> up.sent, at |-> up.position, data |-> BlockSize(size, up.sent) - FirmName]

\* Every block is answered with OK; a failure ends the upload.
SendBlock(size, up) ==
  IF up.done THEN up
  ELSE LET sent == up.sent + BlockSize(size, up.sent) - FirmName
       IN  [sent |-> sent, position |-> Least(size, up.position + FirmMax - FirmName),
            blocks |-> Append(up.blocks, Block(size, up)), done |-> sent >= size]

\* Bound: what the first "turns" blocks have done.
UpdateFirmware(size, turns) ==
  FoldLeft(LAMBDA up, i : SendBlock(size, up),
           [sent |-> 0, position |-> 0, blocks |-> <<>>, done |-> FALSE],
           [i \in 1..turns |-> i])

-----------------------------------------------------------------------------
(* ptp_ml_get_bmp_lv.  The bitmap and the picture are functions of the     *)
(* position of a pixel; the palette gives alpha, Y, U and V.               *)

\* C's division, and an int8_t.
Div(a, b) == IF a < 0 THEN -((-a) \div b) ELSE a \div b
Int8(u) == IF u > 127 THEN u - 256 ELSE u
Coerce(x) == IF x < 0 THEN 0 ELSE IF x > 255 THEN 255 ELSE x

Rgb(y, u, v) ==
  [r |-> Coerce(y + Div(1437 * Int8(v), 1024)),
   g |-> Coerce(y + Div(-352 * Int8(u), 1024) + Div(-731 * Int8(v), 1024)),
   b |-> Coerce(y + Div(1812 * Int8(u), 1024))]

Clear == [a |-> 0, y |-> 255, u |-> 0, v |-> 0]      \* 0x00FF0000

Pixel(palette, color) ==
  LET pal == IF color \in {0, 4} THEN Clear ELSE palette[color]
  IN  [a |-> IF pal = Clear THEN 255 ELSE 0, rgb |-> Rgb(pal.y, pal.u, pal.v)]

\* Mutant: the pixels right of the screen are not stepped over.
SourceShort(x, y) == y * (ScreenWidth + 1) + x

\* i, which counts the pixels outside the screen too.
Source(x, y) == y * VramWidth + x

\* "x > SCREEN_WIDTH" lets the column x = SCREEN_WIDTH pass: it is stored as
\* the first pixel of the next row, which that row then overwrites.
Columns == 0..ScreenWidth
Rows == 0..ScreenHeight - 1
Stored(p) == {y \in Rows : p - y * ScreenWidth \in Columns}
LastRow(p) == CHOOSE y \in Stored(p) : \A z \in Stored(p) : z <= y

\* The picture, and every position of memory that was written for it.
Frame(bmp, palette) ==
  [p \in {y * ScreenWidth + x : x \in Columns, y \in Rows} |->
     Pixel(palette, bmp[Source(p - LastRow(p) * ScreenWidth, LastRow(p))])]
=============================================================================
