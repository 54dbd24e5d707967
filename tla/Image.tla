---------------------------------- MODULE Image ----------------------------------
(***************************************************************************)
(* lib/image.c: which bytes of the two buffers image_convert_to_rgb and      *)
(* image_diff touch, for a frame of the geometry the driver has set: it      *)
(* chooses how many bytes a line and the whole image have.  The values of    *)
(* the pixels are left out.                                                  *)
(***************************************************************************)
EXTENDS Integers, FiniteSets

CONSTANTS MaxWidth, MaxHeight, MaxPadding   \* bounds of the geometries

ASSUME GeometryAssumption ==
  MaxWidth \in Nat \ {0} /\ MaxHeight \in Nat \ {0} /\ MaxPadding \in Nat

(* One format of each size, and one that is not supported (0 bytes).         *)
format_pixel_size ==
  [RGB332 |-> 1, RGB565 |-> 2, RGB24 |-> 3, XRGB32 |-> 4, YUYV |-> 2, other |-> 0]

img_format_t ==
  {f \in [pixelformat : DOMAIN format_pixel_size,
          width : 1 .. MaxWidth, height : 1 .. MaxHeight,
          bytesperline : 0 .. 4 * MaxWidth + MaxPadding,
          sizeimage : 0 .. (4 * MaxWidth + MaxPadding) * MaxHeight] :
     /\ f.bytesperline <= format_pixel_size[f.pixelformat] * f.width + MaxPadding
     /\ f.sizeimage <= f.bytesperline * f.height + MaxPadding}

image_rgb_size(width, height) == width * height * 3

(* A plausible bug: that a line has room for its pixels is not checked.      *)
check_format_ignores_width(f) ==
  f.pixelformat # "other" /\ f.bytesperline * f.height <= f.sizeimage

check_format(f) ==
  /\ f.pixelformat # "other"
  /\ f.bytesperline * f.height <= f.sizeimage
  /\ f.width * format_pixel_size[f.pixelformat] <= f.bytesperline

(* The pixels that are converted: in YUYV a pair at a time.                  *)
Pixels(f) ==
  (0 .. IF f.pixelformat = "YUYV" THEN 2 * (f.width \div 2) - 1 ELSE f.width - 1)
    \X (0 .. f.height - 1)

(* The bytes of pixel <<x, y>>; those of a YUYV pair belong to both.          *)
read_pos(f, p) ==
  IF f.pixelformat = "YUYV"
  THEN {p[2] * f.bytesperline + (p[1] \div 2) * 4 + i : i \in 0 .. 3}
  ELSE {p[2] * f.bytesperline + p[1] * format_pixel_size[f.pixelformat] + i :
          i \in 0 .. format_pixel_size[f.pixelformat] - 1}

write_pos(f, p) == {(p[2] * f.width + p[1]) * 3 + i : i \in 0 .. 2}

image_convert_to_rgb(f, dst_size) ==
  IF check_format(f) /\ dst_size >= image_rgb_size(f.width, f.height)
  THEN [ok |-> TRUE, read |-> UNION {read_pos(f, p) : p \in Pixels(f)},
        written |-> [p \in Pixels(f) |-> write_pos(f, p)]]
  ELSE [ok |-> FALSE, read |-> {}, written |-> <<>>]

(* The bytes of each frame image_diff compares: x counts pixels, but is       *)
(* advanced by the four bytes of a pair.                                     *)
image_diff(f) ==
  {y * f.bytesperline + x * 4 + i :
     x \in 0 .. f.width - 1, y \in 0 .. f.height - 1, i \in {0, 2}}
===============================================================================
