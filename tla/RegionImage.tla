------------------------------ MODULE RegionImage ------------------------------
(***************************************************************************)
(* document/render.py: the picture of a page region that a model is given, *)
(* and the digest its extraction is cached under.                          *)
(*                                                                         *)
(* Boxes, pages and padding are binary floats.  They are kept here as      *)
(* integers: coordinates in Unit-ths of a point and positions in Unit-ths  *)
(* of a pixel, so that a Unit of 2^1074 expresses every double, and        *)
(* truncating and rounding a position are exact.  What is not exact in     *)
(* floats, a sum of coordinates times dpi / 72, is the constant Scaled: it *)
(* may differ from the true position by Slack.                             *)
(***************************************************************************)
EXTENDS Integers

CONSTANTS
  WholePage,      \* bbox None
  Unit,           \* the parts of a point and of a pixel that are told apart
  Slack,          \* how far floating point may be off, in Unit-ths of a pixel
  Scaled(_, _)    \* the position of a coordinate at a resolution

\* A position is never off by more than half a pixel.
ASSUME UnitAssumption == Unit \in Nat \ {0} /\ Slack \in Nat /\ 2 * Slack <= Unit

\* Scaled(s, dpi) is s * dpi / 72, but for the slack.
NearScaled(s, dpi) ==
  /\ Scaled(s, dpi) \in Int
  /\ s * dpi - 72 * Slack <= 72 * Scaled(s, dpi)
  /\ 72 * Scaled(s, dpi) <= s * dpi + 72 * Slack

Greater(m, n) == IF m >= n THEN m ELSE n
Lesser(m, n) == IF m <= n THEN m ELSE n

\* int(): towards zero.
Truncated(n) == IF n >= 0 THEN n \div Unit ELSE -((-n) \div Unit)

\* round(): to the nearest pixel, a half to the even one.
Rounded(n) ==
  LET q == n \div Unit
      r == n % Unit
  IN  IF 2 * r < Unit \/ (2 * r = Unit /\ q % 2 = 0) THEN q ELSE q + 1

\* The two sides of a box along one axis, padded and clamped to the page.
LowSide(n, pad, dpi) == Greater(0, Truncated(Scaled(n - pad, dpi)))
HighSide(n, pad, dpi, limit) == Lesser(limit, Rounded(Scaled(n + pad, dpi)))

\* How many pixels pdfium renders an extent to: rounded up.
Extent(size, dpi) == (Scaled(size, dpi) + (Unit - 1)) \div Unit

\* mutant: the far sides are truncated like the near ones, without padding
CropTight(box, page, dpi, padding) ==
  [left |-> LowSide(box.left, 0, dpi),
   top |-> LowSide(box.top, 0, dpi),
   right |-> Lesser(Extent(page.width, dpi), Truncated(Scaled(box.right, dpi))),
   bottom |-> Lesser(Extent(page.height, dpi), Truncated(Scaled(box.bottom, dpi)))]

\* The pixels _crop keeps.
Crop(box, page, dpi, padding) ==
  [left |-> LowSide(box.left, padding, dpi),
   top |-> LowSide(box.top, padding, dpi),
   right |-> HighSide(box.right, padding, dpi, Extent(page.width, dpi)),
   bottom |-> HighSide(box.bottom, padding, dpi, Extent(page.height, dpi))]

HasArea(box) == box.left < box.right /\ box.top < box.bottom

\* Whether there is a page to render at this resolution; page.exists stands
\* for a number from 1 to the length of the document.
Renders(page, dpi) == dpi > 0 /\ page.exists

\* Whether _crop refuses a page that was rendered.
NothingLeft(box, page, dpi, padding) ==
  /\ box # WholePage
  /\ ~HasArea(box) \/ ~HasArea(Crop(box, page, dpi, padding))

WholePicture(page, dpi) ==
  [left |-> 0, top |-> 0,
   right |-> Extent(page.width, dpi), bottom |-> Extent(page.height, dpi)]

\* The PNG of a page that renders: what is drawn, at which resolution, and
\* which pixels of it.
Png(box, page, dpi, padding) ==
  [drawn |-> page.drawn, dpi |-> dpi,
   pixels |-> IF box = WholePage THEN WholePicture(page, dpi)
              ELSE Crop(box, page, dpi, padding)]

\* digest_for: a hash of the renderer's version, the settings and the bytes.
Digest(version, dpi, box, png) == <<version, dpi, box, png>>

----------------------------------------------------------------------------
\* The region meets the page.
OnPage(box, page) ==
  /\ HasArea(box)
  /\ box.left < page.width /\ box.top < page.height
  /\ box.right > 0 /\ box.bottom > 0

\* Padding of at least half a pixel, which is what rounding may take away,
\* and the slack.
PaddingHolds(dpi, padding) ==
  dpi > 0 /\ 2 * padding * dpi >= 72 * (Unit + 2 * Slack)

\* Everything of the region that the page's bitmap has is among the pixels
\* kept, by the true position of its sides.
Shows(pixels, box, page, dpi) ==
  /\ 72 * (Unit * pixels.left) <= Greater(0, box.left * dpi)
  /\ 72 * (Unit * pixels.top) <= Greater(0, box.top * dpi)
  /\ 72 * (Unit * pixels.right)
       >= Lesser(72 * (Unit * Extent(page.width, dpi)), box.right * dpi)
  /\ 72 * (Unit * pixels.bottom)
       >= Lesser(72 * (Unit * Extent(page.height, dpi)), box.bottom * dpi)

=============================================================================
