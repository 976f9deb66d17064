-------------------------- MODULE YuyvConversion ---------------------------
(***************************************************************************)
(* The conversions of a YUYV image (y0 u y1 v for two pixels): the RGB and   *)
(* monochrome images the ROS adapter publishes (yuyv_conversion.hpp) and    *)
(* the PPM files the pipeline and CameraDevice save.  \div rounds towards   *)
(* minus infinity, as the arithmetic shift does.                            *)
(***************************************************************************)
EXTENDS Integers, Sequences

clamp_u8(value) == IF value < 0 THEN 0 ELSE IF value > 255 THEN 255 ELSE value

\* c, d, e are the offsets of y, u and v.
Rgb(c, d, e) ==
  << clamp_u8((298 * c + 409 * e + 128) \div 256),
     clamp_u8((298 * c - 100 * d - 208 * e + 128) \div 256),
     clamp_u8((298 * c + 516 * d + 128) \div 256) >>

\* write_pixel of the adapter: a y below 16 is black.
write_pixel(yuv) ==
  Rgb(IF yuv[1] > 16 THEN yuv[1] - 16 ELSE 0, yuv[2] - 128, yuv[3] - 128)

\* Mutant: u and v exchanged.
ConvertSwapped(yuv) == Rgb(yuv[1] - 16, yuv[3] - 128, yuv[2] - 128)

\* The lambda convert of the two savers: no lower limit for y.
convert(yuv) == Rgb(yuv[1] - 16, yuv[2] - 128, yuv[3] - 128)

\* y, u and v of pixel k (from 0) of the image at data.
Pixel(data, k) ==
  LET at == 4 * (k \div 2)
  IN  <<data[at + 1 + 2 * (k % 2)], data[at + 2], data[at + 4]>>

SizeMatches(payload, width, height) ==
  Len(payload) = width * height * 2 /\ width % 2 = 0

\* The pixels of the published image; <<>> stands for the exception.
convert_yuyv_to_rgb8(payload, width, height) ==
  IF SizeMatches(payload, width, height)
    THEN [k \in 1 .. width * height |-> write_pixel(Pixel(payload, k - 1))]
    ELSE <<>>

convert_yuyv_to_mono8(payload, width, height) ==
  IF SizeMatches(payload, width, height)
    THEN [k \in 1 .. width * height |-> Pixel(payload, k - 1)[1]]
    ELSE <<>>

\* The loop takes two pixels at a time while i + 1 < pixel_count: the last
\* pixel of an odd number keeps the zeros of resize.
yuyv_to_rgb(data, width, height) ==
  [k \in 1 .. width * height |->
     IF k - 1 < 2 * ((width * height) \div 2)
       THEN convert(Pixel(data, k - 1)) ELSE <<0, 0, 0>>]

\* save_frame_to_files of the pipeline: the files it leaves behind, whether
\* or not it ends with an exception.
save_frame_to_files(data, width, height, format) ==
  IF data = <<>> \/ width = 0 \/ height = 0 \/ format = "unknown"
    THEN [raw |-> <<>>, ppm |-> <<>>]
    ELSE [raw |-> data,
          ppm |-> IF format = "YUYV" /\ Len(data) >= width * height * 2
                    THEN yuyv_to_rgb(data, width, height) ELSE <<>>]
=============================================================================
