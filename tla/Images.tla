------------------------------- MODULE Images -------------------------------
(* The pictures of punks. A script (punks-assets/scripts/encode.ts) encodes  *)
(* the PNG files with the SDK's run-length encoder; the web site draws them  *)
(* with the SDK (svg-builder.ts) from the parts getPunkData selects, and the *)
(* contracts draw them with SVGRenderer from the parts of getPartsForSeed.   *)
(* An encoded image is a sequence of bytes, given as its bounds and its      *)
(* runs; an entry of a palette is the sequence of its bytes, three for the   *)
(* six digits the encoder writes and four with an opacity.                   *)
EXTENDS Seeder

CONSTANTS
    Colors,       \* the colours of pixels: rgb, three bytes, and opacity a
    Sizes,        \* the sizes of the files: width, height
    MaxPixels,    \* pixels of all the files together
    ByteMax,      \* 255: the largest number in a byte
    Palettes      \* palettes an encoder is made with: none, or the one of
                  \* image-data.json, whose entries have four bytes

ASSUME ImagesAssumption ==
    /\ \A c \in Colors : c.a \in 0 .. 255 /\ Len(c.rgb) = 3
    /\ \A s \in Sizes : s[1] \in 1 .. ByteMax /\ s[2] \in 1 .. ByteMax
    /\ MaxPixels \in Nat
    /\ \A p \in Palettes : \A i \in DOMAIN p : Len(p[i]) = 4

VARIABLE
    encoder       \* the palette, and the files with what they were encoded to

(* The first entry, that of transparent pixels, is empty.                    *)
EncoderInit(palettes) ==
    \E p \in palettes : encoder = [palette |-> <<<<>>>> \o p, files |-> <<>>]

-----------------------------------------------------------------------------
(* readPngImage: the pixels of a file lie row by row.                        *)
RgbaAt(png, x, y) == png.data[png.width * y + x + 1]

Columns(png) == 0 .. png.width - 1
Rows(png) == 0 .. png.height - 1
IsTransparentColumn(png, x) == \A y \in Rows(png) : RgbaAt(png, x, y).a = 0
IsTransparentRow(png, y) == \A x \in Columns(png) : RgbaAt(png, x, y).a = 0

\* Variant: the right bound is the last column, and not the one after it.
CalcBoundsInclusive(png) ==
    LET right == Max({-1} \cup {x \in Columns(png) : ~ IsTransparentColumn(png, x)})
    IN  [top |-> 0, right |-> right, bottom |-> png.height - 1, left |-> 0]

(* image.ts, calcBounds. An image without a visible pixel has the row 0 and  *)
(* no column.                                                                *)
CalcBounds(png) ==
    LET rows == {y \in Rows(png) : ~ IsTransparentRow(png, y)}
        columns == {x \in Columns(png) : ~ IsTransparentColumn(png, x)}
        bottom == Max({0} \cup rows)
        right == Max({-1} \cup columns)
    IN  [top |-> Min({bottom} \cup rows),
         right |-> right + 1,
         bottom |-> bottom,
         left |-> Min({Max({right, 0})} \cup columns)]

(* The pixels inside the bounds, the right one excluded.                     *)
Cells(png, b) ==
    LET width == b.right - b.left
    IN  [i \in 1 .. width * (b.bottom - b.top + 1) |->
            RgbaAt(png, b.left + ((i - 1) % width), b.top + ((i - 1) \div width))]

(* A colour is inserted when it is first met, that of a transparent pixel    *)
(* too. It has no opacity, so it is never one the encoder was made with.     *)
Insert(palette, cell) ==
    IF Contains(palette, cell.rgb) THEN palette ELSE Append(palette, cell.rgb)

ColorIndex(palette, cell) ==
    IF cell.a = 0 THEN 0 ELSE SelectInSeq(palette, LAMBDA c : c = cell.rgb) - 1

(* encode: a run is a length and a colour, and at most ByteMax long.         *)
AddToRuns(runs, index) ==
    IF runs # <<>> /\ Last(runs)[2] = index /\ Last(runs)[1] < ByteMax
    THEN Append(Front(runs), <<Last(runs)[1] + 1, index>>)
    ELSE Append(runs, <<1, index>>)

Encode(indexes) == FoldLeft(AddToRuns, <<>>, indexes)

ToRLE(png, palette) ==
    LET b == CalcBounds(png)
        cells == Cells(png, b)
    IN  [bounds |-> b, rects |-> Encode([i \in DOMAIN cells |-> ColorIndex(palette, cells[i])])]

(* encodeImage, for the next file of the script.                             *)
EncodeImage(png) ==
    LET palette == FoldLeft(Insert, encoder.palette, Cells(png, CalcBounds(png)))
    IN  encoder' = [palette |-> palette,
                    files |-> Append(encoder.files, [png |-> png, data |-> ToRLE(png, palette)])]

Pixels == FoldLeft(LAMBDA n, f : n + Len(f.png.data), 0, encoder.files)

(* The script's loop over the files of the folders.                          *)
EncodeFile ==
    \E size \in Sizes :
        /\ Pixels + size[1] * size[2] <= MaxPixels
        /\ \E data \in [1 .. size[1] * size[2] -> Colors] :
              EncodeImage([width |-> size[1], height |-> size[2], data |-> data])

-----------------------------------------------------------------------------
(* svg-builder.ts. SVGRenderer._generateSVGRects walks the runs the same way.*)

GetRectLength(x, length, right) == IF length <= right - x THEN length ELSE right - x

(* One run: a rectangle on this line, and the rest of the run on the lines   *)
(* below. Transparent runs only move the pen.                                *)
RECURSIVE DrawRun(_, _, _, _)
DrawRun(pen, length, index, b) ==
    LET n == GetRectLength(pen.x, length, b.right)
        wraps == pen.x + n = b.right
    IN  IF n <= 0 THEN pen
        ELSE DrawRun([x |-> IF wraps THEN b.left ELSE pen.x + n,
                      y |-> IF wraps THEN pen.y + 1 ELSE pen.y,
                      rects |-> IF index = 0 THEN pen.rects
                                ELSE pen.rects \cup {[x |-> pen.x, y |-> pen.y,
                                                      width |-> n, index |-> index]}],
                     length - n, index, b)

RectsOf(data) ==
    FoldLeft(LAMBDA pen, run : DrawRun(pen, run[1], run[2], data.bounds),
             [x |-> data.bounds.left, y |-> data.bounds.top, rects |-> {}],
             data.rects).rects

(* What a rectangle is written with: a colour of three bytes and a number of *)
(* percent. buildSVG writes "0." and the number: 5 percent becomes 0.5. The  *)
(* opacity of an entry without a fourth byte is written as 0.NaN, which is   *)
(* no number: whoever shows the picture leaves it out.                       *)
NoOpacity == -1
Percent(a) == (a * 100) \div 255

SvgFill(entry) ==
    [color |-> SubSeq(entry, 1, 3),
     opacity |-> IF Len(entry) < 4 THEN NoOpacity
                 ELSE IF entry[4] = 255 THEN 100
                 ELSE IF Percent(entry[4]) < 10 THEN 10 * Percent(entry[4])
                 ELSE Percent(entry[4])]

BuildSVG(data, palette) ==
    {[x |-> r.x, y |-> r.y, width |-> r.width, fill |-> SvgFill(palette[r.index + 1])] :
        r \in RectsOf(data)}

(* external: opacity is 1 where there is none.                               *)
Seen(fill) == [fill EXCEPT !.opacity = IF @ = NoOpacity THEN 100 ELSE @]

(* populate-descriptor.ts gives the contract the entries' bytes one after    *)
(* another, after four zeros.                                                *)
SetPalette(palette) == FoldLeft(LAMBDA bytes, entry : bytes \o entry, <<0, 0, 0, 0>>, palette)

(* SVGRenderer._getColorPart takes four bytes for each entry and writes two  *)
(* digits of opacity.                                                        *)
GetColorPart(bytes, index) ==
    LET entry == SubSeq(bytes, 4 * index + 1, 4 * index + 4)
    IN  [color |-> SubSeq(entry, 1, 3),
         opacity |-> IF entry[4] = 255 THEN 100 ELSE Percent(entry[4])]

-----------------------------------------------------------------------------
(* punks-assets/src/utils.ts: getPunkData.                                   *)

Type2PunkBasic == <<<<0, 0>>, <<0, 1>>, <<0, 2>>, <<0, 3>>, <<1, 0>>, <<1, 1>>, <<1, 2>>, <<1, 3>>,
                    <<2, 6>>, <<3, 5>>, <<4, 4>>>>

AccResource == <<"necks", "cheekses", "faces", "lipses", "emotions", "teeths", "beards",
                 "earses", "hats", "helmets", "hairs", "mouths", "glasseses", "goggleses",
                 "eyeses", "noses">>

(* The place of the picture among the types, -1 if there is none.            *)
TypePart(type, skin) == SelectInSeq(Type2PunkBasic, LAMBDA p : p = <<type - 1, skin - 1>>) - 1

-----------------------------------------------------------------------------
(* Properties.                                                               *)

(* What the site draws from an encoded file is the file: at every place the  *)
(* colour of its pixel and no other, nothing where it is transparent, and    *)
(* nothing outside. It stays so when later files extend the palette, for a   *)
(* file that is all transparent, and for runs longer than a byte can say.    *)
(* But the encoder drops the opacity: what is half transparent is drawn full.*)
DrawnAsGiven ==
    \A i \in DOMAIN encoder.files :
        LET png == encoder.files[i].png
            rects == BuildSVG(encoder.files[i].data, encoder.palette)
            fill(x, y) == {Seen(r.fill) :
                              r \in {q \in rects : q.y = y /\ x \in q.x .. q.x + q.width - 1}}
        IN  /\ \A r \in rects : r.x + r.width <= png.width /\ r.y < png.height
            /\ \A run \in Range(encoder.files[i].data.rects) :
                  run[1] \in 1 .. ByteMax /\ run[2] < Len(encoder.palette)
            /\ \A x \in Columns(png), y \in Rows(png) :
                  fill(x, y) = IF RgbaAt(png, x, y).a = 0 THEN {}
                               ELSE {[color |-> RgbaAt(png, x, y).rgb, opacity |-> 100]}

(* The contracts draw an entry of the palette like the site, in colour and   *)
(* opacity, as long as it and those before it have four bytes. (One of three *)
(* shifts all that come after it: the encoder's own palette is of no use to  *)
(* SVGRenderer.)                                                             *)
SameColors ==
    LET bytes == SetPalette(encoder.palette)
        whole(i) == \A k \in 2 .. i : Len(encoder.palette[k]) = 4
    IN  \A i \in 2 .. Len(encoder.palette) :
            whole(i) => GetColorPart(bytes, i - 1) = SvgFill(encoder.palette[i])

(* The web site and the contracts draw a seed from the same images, in the   *)
(* same order. (A seed that the draw 0 gave a skin of probability 0 has no   *)
(* picture on the site, see OnlyZeroDraw.)                                   *)
SameParts ==
    (gen.stage = "seed" /\ ~ gen.zero) =>
        /\ TypePart(gen.type, gen.skin) = PunkTypeId(gen.type, gen.skin)
        /\ \A i \in DOMAIN AccTypes : AccTypes[i] \in gen.picked => AccResource[i] = Traits[i]

(* The site draws the colours that were encoded, and the contracts draw what *)
(* the site draws from a palette with opacities.                             *)
PicturesExact == DrawnAsGiven /\ SameColors /\ SameParts

=============================================================================
