----------------------------- MODULE BmpViewer -----------------------------
(***************************************************************************)
(* `0711/bmpViewer.c` and the readBmp() of `0711/bmpHeader.c`: a bitmap is *)
(* read into memory, converted pixel by pixel into a buffer of the size of *)
(* the screen, and that buffer is copied to the framebuffer.  Any call may *)
(* fail.  A pixel is known by its offset in the data read; colours are     *)
(* left out.  An int that overflows wraps, as it does in the builds; a     *)
(* negative size is a huge size_t, and malloc() refuses more than half of  *)
(* the address space.                                                      *)
(***************************************************************************)
EXTENDS Integers

CONSTANTS IntHalf,      \* ints are -IntHalf..IntHalf - 1: 2^31
          SizeHalf,     \* size_t is 0..2 * SizeHalf - 1: 2^31 or 2^63
          Sides,        \* bound: what a header may give for a side
          ScreenSides   \* bound: sides of screens

ASSUME ViewerAssumption ==
    /\ IntHalf \in Nat \ {0} /\ IntHalf % 4 = 0
    /\ SizeHalf \in Nat /\ SizeHalf >= IntHalf
    /\ Sides \subseteq -IntHalf..(IntHalf - 1)
    /\ ScreenSides \subseteq 1..(IntHalf - 1)

VARIABLES
    viewAt,     \* the next call
    held,       \* what is open, mapped or allocated
    pData,      \* the buffer pData points to, "null" or "unset"
    badFree,    \* free() was given a buffer that is not allocated
    screen,     \* fb_width and fb_height
    picture,    \* bmp_width and bmp_height; they may be negative
    drawn       \* pairs <<index in pBmpData, offset in the data>> written

viewVars == <<viewAt, held, pData, badFree, screen, picture, drawn>>

ViewInit ==
    /\ viewAt = "open"
    /\ held = {} /\ pData = "unset" /\ badFree = FALSE
    /\ screen = [w |-> 0, h |-> 0] /\ picture = [w |-> 0, h |-> 0]
    /\ drawn = {}

\* C rounds a quotient towards zero.
Quotient(a, b) == IF a >= 0 THEN a \div b ELSE -((-a) \div b)

\* What an int holds of a number.
Wrapped(n) == ((n + IntHalf) % (2 * IntHalf)) - IntHalf

\* Bytes of a row in the file, and of all rows as a size_t.
PaddedRow(w) == Quotient(Wrapped(w * 3 + 3), 4) * 4
DataSize(p) == (PaddedRow(p.w) * p.h) % (2 * SizeHalf)

ScreenSize == screen.w * screen.h

-----------------------------------------------------------------------------
\* free() of a list of buffers, and close() or munmap() of the rest.
Release(things) == held' = held \ things
FreeData == badFree' = (badFree \/ pData \notin held \cup {"null"})

\* A call that either gets its resource or ends the program, which gives
\* back what it has.
Acquire(from, resource, to) ==
    /\ viewAt = from
    /\ \/ held' = held \cup {resource} /\ viewAt' = to
       \/ held' = {} /\ viewAt' = "end"

OpenScreen ==
    /\ Acquire("open", "fb", "info")
    /\ UNCHANGED <<pData, badFree, screen, picture, drawn>>

\* FBIOGET_VSCREENINFO; only 16 bits per pixel will do.  No screen has so
\* many pixels that three bytes for each are more than an int counts.
QueryScreen ==
    /\ viewAt = "info"
    /\ \/ /\ \E w, h \in ScreenSides :
              /\ w * h * 3 < IntHalf
              /\ screen' = [w |-> w, h |-> h]
          /\ viewAt' = "pixels" /\ UNCHANGED held
       \/ viewAt' = "end" /\ held' = {} /\ UNCHANGED screen
    /\ UNCHANGED <<pData, badFree, picture, drawn>>

\* pBmpData.
AllocPixels ==
    /\ Acquire("pixels", "pixels", "first")
    /\ UNCHANGED <<pData, badFree, screen, picture, drawn>>

\* The pData that readBmp() will overwrite without freeing it.
AllocFirst ==
    /\ Acquire("first", "first", "map")
    /\ pData' = IF viewAt' = "map" THEN "first" ELSE "null"
    /\ UNCHANGED <<badFree, screen, picture, drawn>>

MapScreen ==
    /\ Acquire("map", "map", "file")
    /\ UNCHANGED <<pData, badFree, screen, picture, drawn>>

\* fopen() in readBmp(); from here on a failure makes main() unwind.
OpenBmp ==
    /\ viewAt = "file"
    /\ \/ held' = held \cup {"file"} /\ viewAt' = "header"
       \/ viewAt' = "unwind" /\ UNCHANGED held
    /\ UNCHANGED <<pData, badFree, screen, picture, drawn>>

\* Both headers, their checks and fseek().
ReadHeader ==
    /\ viewAt = "header"
    /\ \/ /\ \E w, h \in Sides : picture' = [w |-> w, h |-> h]
          /\ viewAt' = "data" /\ UNCHANGED held
       \/ viewAt' = "unwind" /\ Release({"file"}) /\ UNCHANGED picture
    /\ UNCHANGED <<pData, badFree, screen, drawn>>

AllocData ==
    /\ viewAt = "data"
    /\ \/ /\ DataSize(picture) < SizeHalf
          /\ held' = held \cup {"data"}
          /\ pData' = "data" /\ viewAt' = "read"
       \/ Release({"file"}) /\ pData' = "null" /\ viewAt' = "unwind"
    /\ UNCHANGED <<badFree, screen, picture, drawn>>

\* Seeded fault: *data keeps pointing to what was freed.
M_ReadData ==
    /\ viewAt = "read"
    /\ \/ Release({"file"}) /\ viewAt' = "convert"
       \/ /\ DataSize(picture) > 0
          /\ Release({"file", "data"}) /\ viewAt' = "unwind"
    /\ UNCHANGED <<pData, badFree, screen, picture, drawn>>

\* fread() of all rows; when it falls short the buffer is freed and *data
\* cleared.
ReadData ==
    /\ viewAt = "read"
    /\ \/ Release({"file"}) /\ viewAt' = "convert" /\ UNCHANGED pData
       \/ /\ DataSize(picture) > 0
          /\ Release({"file", "data"})
          /\ pData' = "null" /\ viewAt' = "unwind"
    /\ UNCHANGED <<badFree, screen, picture, drawn>>

\* Seeded fault: rows are counted from bmp_height, not from the last row.
M_SourceRow(y) == Wrapped((picture.h - y) * picture.w * 3)

\* k: rows are stored from the bottom up.  The padding is not counted.
SourceRow(y) == Wrapped((picture.h - 1 - y) * picture.w * 3)

\* Seeded fault: the picture is not cut off at the edge of the screen.
M_Visible == {p \in (0..(picture.w - 1)) \X (0..(picture.h - 1)) :
                 p[2] < screen.h}

\* The pixels that fall on the screen.
Visible == {p \in (0..(picture.w - 1)) \X (0..(picture.h - 1)) :
               p[1] < screen.w /\ p[2] < screen.h}

\* Where a pixel goes and where it is read.
Pixels == {<<p[2] * screen.w + p[1], Wrapped(SourceRow(p[2]) + p[1] * 3)>> :
              p \in Visible}

InData(d) == d[2] >= 0 /\ d[2] + 2 < DataSize(picture)

\* The loops; a pixel read outside the data may end the program.
Convert ==
    /\ viewAt = "convert"
    /\ drawn' = Pixels
    /\ \/ viewAt' = "copy" /\ UNCHANGED held
       \/ ~(\A d \in Pixels : InData(d)) /\ viewAt' = "end" /\ held' = {}
    /\ UNCHANGED <<pData, badFree, screen, picture>>

\* memcpy() to the screen, munmap(), free() twice, close().
CopyAndEnd ==
    /\ viewAt = "copy"
    /\ FreeData
    /\ Release({"map", "pixels", pData, "fb"})
    /\ viewAt' = "end"
    /\ UNCHANGED <<pData, screen, picture, drawn>>

\* The same after readBmp() has failed.
Unwind ==
    /\ viewAt = "unwind"
    /\ FreeData
    /\ Release({"map", "pixels", pData, "fb"})
    /\ viewAt' = "end"
    /\ UNCHANGED <<pData, screen, picture, drawn>>

ViewNext ==
    \/ OpenScreen \/ QueryScreen \/ AllocPixels \/ AllocFirst \/ MapScreen
    \/ OpenBmp \/ ReadHeader \/ AllocData \/ ReadData
    \/ Convert \/ CopyAndEnd \/ Unwind

-----------------------------------------------------------------------------
\* The rows of the picture, as many bytes as they really have, are counted by
\* an int.
Countable == ((picture.w * 3 + 3) \div 4) * 4 * picture.h < IntHalf

\* The conversion writes nothing outside the screen's buffer whatever the
\* header says, a picture larger than the screen, a negative side and sizes
\* whose products wrap included.  It reads nothing outside the data where the
\* rows are countable; nothing in the code asks whether they are, and past
\* that a row wraps to a few bytes (bmpViewer.c:136-158 against the sizes of
\* bmpViewer.c:84 and bmpHeader.c:110-113).
StaysInBuffers ==
    \A d \in drawn : /\ d[1] \in 0..(ScreenSize - 1)
                     /\ Countable => InData(d)

\* A picture whose rows are countable and need no padding appears the right
\* way up, each visible pixel at its place and from its place in the file.
\* With padding it would be slanted (bmpViewer.c:139-156).
PictureIsUpright ==
    viewAt = "copy" /\ picture.w % 4 = 0 /\ Countable =>
        drawn = {<<(picture.h - 1 - c[1]) * screen.w + c[2],
                   c[1] * PaddedRow(picture.w) + c[2] * 3>> :
                     c \in {d \in (0..(picture.h - 1)) \X (0..(picture.w - 1)) :
                            d[2] < screen.w /\ picture.h - 1 - d[1] < screen.h}}

\* Whichever call fails, no buffer is freed twice: readBmp() frees what it
\* allocated and main() frees pData again (bmpHeader.c:128-129,
\* bmpViewer.c:120-128).
NoDoubleFree == ~badFree
=============================================================================
