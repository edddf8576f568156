---------------------- MODULE ExtractionIdentityTheorems ----------------------
(***************************************************************************)
(* Whatever releases and workers share the cache, in any order of upgrades *)
(* and roll-backs and for any number of calls, a call is answered with     *)
(* what its own release would have made.                                   *)
(***************************************************************************)
EXTENDS ExtractionIdentity, TLAPS

----------------------------------------------------------------------------
(* The picture.                                                            *)

(* What a division by the unit leaves.                                     *)
LEMMA UnitDivides ==
  ASSUME NEW n \in Int
  PROVE  /\ n \div Unit \in Int /\ n % Unit \in Int
         /\ n = Unit * (n \div Unit) + (n % Unit)
         /\ 0 <= n % Unit /\ n % Unit < Unit
<1>1. ASSUME NEW u \in Nat, u > 0
      PROVE  /\ n \div u \in Int /\ (n % u) \in 0 .. (u - 1)
             /\ n = u * (n \div u) + (n % u)
  BY <1>1
<1> QED BY <1>1, UnitAssumption

(* A multiple of the unit keeps the order of its factors.                  *)
LEMMA UnitKeepsOrder ==
  ASSUME NEW m \in Int, NEW n \in Int
  PROVE  /\ Unit * m \in Int
         /\ Unit * m < Unit * n => m < n
         /\ m <= n => Unit * m <= Unit * n
<1>1. ASSUME NEW u \in Nat, u > 0
      PROVE  u * m \in Int /\ (u * m < u * n => m < n)
  BY <1>1
<1>2. ASSUME NEW u \in Nat, u > 0, m <= n
      PROVE  u * m <= u * n
  <2>1. n - m \in Nat /\ u * (n - m) \in Nat
    BY <1>2
  <2> QED BY <1>2, <2>1
<1> QED BY <1>1, <1>2, UnitAssumption

(* The near side is never inside of its position, and never off the page.  *)
LEMMA TruncatedBelow ==
  ASSUME NEW n \in Int
  PROVE  LET low == Greater(0, Truncated(n))
         IN  low \in Nat /\ (low = 0 \/ Unit * low <= n)
<1>1. Truncated(n) \in Int /\ (n >= 0 => Unit * Truncated(n) <= n)
  <2>1. n \div Unit \in Int /\ Unit * (n \div Unit) <= n
    BY UnitDivides, UnitKeepsOrder
  <2>2. (-n) \div Unit \in Int
    BY UnitDivides
  <2> QED BY <2>1, <2>2 DEF Truncated
<1>2. n < 0 => Truncated(n) <= 0
  <2>1. ASSUME n < 0 PROVE (-n) \div Unit >= 0
    <3>1. /\ (-n) \div Unit \in Int /\ (-n) % Unit \in Int
          /\ -n = Unit * ((-n) \div Unit) + ((-n) % Unit) /\ (-n) % Unit < Unit
      BY UnitDivides
    <3>2. Unit * (-1) = -Unit /\ Unit \in Nat
      BY UnitAssumption
    <3>3. Unit * (-1) < Unit * ((-n) \div Unit)
      BY <2>1, <3>1, <3>2, UnitKeepsOrder
    <3>4. -1 < (-n) \div Unit
      BY <3>1, <3>3, UnitKeepsOrder
    <3> QED BY <3>1, <3>4
  <2> QED BY <2>1, UnitDivides DEF Truncated
<1> QED BY <1>1, <1>2 DEF Greater

(* Rounding takes half a pixel away at most.                               *)
LEMMA RoundedNear ==
  ASSUME NEW n \in Int
  PROVE  Rounded(n) \in Int /\ 2 * (Unit * Rounded(n)) >= 2 * n - Unit
<1>1. /\ n \div Unit \in Int /\ n % Unit \in Int
      /\ n = Unit * (n \div Unit) + (n % Unit)
      /\ 0 <= n % Unit /\ n % Unit < Unit
      /\ Unit * (n \div Unit) \in Int /\ Unit \in Int
  BY UnitDivides, UnitKeepsOrder, UnitAssumption
<1>2. Unit * ((n \div Unit) + 1) = Unit * (n \div Unit) + Unit
  BY <1>1
<1>3. CASE Rounded(n) = n \div Unit /\ 2 * (n % Unit) <= Unit
  BY <1>1, <1>3
<1>4. CASE Rounded(n) = (n \div Unit) + 1
  BY <1>1, <1>2, <1>4
<1> QED BY <1>1, <1>3, <1>4 DEF Rounded

(* A bitmap has room for all of its page.                                  *)
LEMMA ExtentHolds ==
  ASSUME NEW size, NEW dpi, Scaled(size, dpi) \in Int
  PROVE  /\ Extent(size, dpi) \in Int
         /\ Unit * Extent(size, dpi) >= Scaled(size, dpi)
<1> DEFINE n == Scaled(size, dpi) + (Unit - 1)
<1>1. n \in Int /\ Unit \in Int
  BY UnitAssumption
<1>2. /\ n \div Unit \in Int /\ n % Unit \in Int
      /\ n = Unit * (n \div Unit) + (n % Unit) /\ n % Unit < Unit
      /\ Unit * (n \div Unit) \in Int
  BY <1>1, UnitDivides, UnitKeepsOrder
<1>3. Extent(size, dpi) = n \div Unit
  BY DEF Extent
<1>4. Unit * (n \div Unit) > n - Unit
  <2> HIDE DEF n
  <2> QED BY <1>1, <1>2
<1> QED BY <1>1, <1>2, <1>3, <1>4

(* Along one axis, a stretch that meets the page leaves pixels, and they   *)
(* show all of it that the bitmap has.  lo and hi are its true positions,  *)
(* in 72nds of the unit, and n and f what floats make of the padded sides. *)
LEMMA AxisShown ==
  ASSUME NEW lo \in Int, NEW hi \in Int, lo < hi, hi > 0,
         NEW n \in Int, 72 * n <= lo - 36 * Unit,
         NEW f \in Int, 72 * f >= hi + 36 * Unit,
         NEW limit \in Int, limit > 0, 72 * (Unit * limit) > lo - 36 * Unit
  PROVE  LET low == Greater(0, Truncated(n))
             high == Lesser(limit, Rounded(f))
         IN  /\ low < high
             /\ 72 * (Unit * low) <= Greater(0, lo)
             /\ 72 * (Unit * high) >= Lesser(72 * (Unit * limit), hi)
<1> DEFINE low == Greater(0, Truncated(n))
           far == Rounded(f)
<1>1. Unit \in Int /\ Unit > 0 /\ Unit * 0 = 0
  BY UnitAssumption
<1>2. /\ low \in Int /\ Unit * low \in Int
      /\ low = 0 \/ Unit * low <= n
  <2>1. low \in Nat /\ (low = 0 \/ Unit * low <= n)
    BY TruncatedBelow
  <2> HIDE DEF low
  <2> QED BY <2>1, UnitKeepsOrder
<1>3. /\ far \in Int /\ Unit * far \in Int
      /\ 2 * (Unit * far) >= 2 * f - Unit
  BY RoundedNear, UnitKeepsOrder
<1>4. Unit * limit \in Int
  BY UnitKeepsOrder
<1> HIDE DEF low, far
<1>5. 72 * (Unit * far) >= hi
  BY <1>1, <1>3
<1>6. low = 0 \/ 72 * (Unit * low) <= lo - 36 * Unit
  BY <1>1, <1>2
<1>7. low < far
  <2>1. Unit * low < Unit * far
    BY <1>1, <1>2, <1>3, <1>5, <1>6
  <2> QED BY <1>2, <1>3, <2>1, UnitKeepsOrder
<1>8. low < limit
  <2>1. low = 0 \/ Unit * low < Unit * limit
    BY <1>1, <1>2, <1>4, <1>6
  <2> QED BY <1>2, <2>1, UnitKeepsOrder
<1>9. 72 * (Unit * low) <= Greater(0, lo)
  BY <1>1, <1>2, <1>6 DEF Greater
<1>10. 72 * (Unit * Lesser(limit, far)) >= Lesser(72 * (Unit * limit), hi)
  BY <1>3, <1>4, <1>5 DEF Lesser
<1>11. low < Lesser(limit, far)
  BY <1>7, <1>8 DEF Lesser
<1> QED BY <1>9, <1>10, <1>11 DEF low, far

(* A product by a positive number keeps the order of its factors.          *)
LEMMA ProductKeepsOrder ==
  ASSUME NEW m \in Int, NEW n \in Int, NEW d \in Nat, d > 0, m < n
  PROVE  m * d \in Int /\ m * d < n * d
<1>1. (n - m) * d = n * d - m * d
  OBVIOUS
<1>2. n - m \in Nat /\ n - m > 0
  OBVIOUS
<1>3. (n - m) * d > 0
  BY <1>2
<1> QED BY <1>1, <1>3

(* One side of a box along with its opposite, at a resolution.             *)
LEMMA SidesShown ==
  ASSUME NEW lo \in Int, NEW hi \in Int, NEW size \in Nat \ {0},
         NEW d \in Int, NEW padding \in Nat, PaddingHolds(d, padding),
         lo < hi, lo < size, hi > 0,
         NearScaled(lo - padding, d), NearScaled(hi + padding, d),
         NearScaled(size, d), Scaled(size, d) > 0
  PROVE  LET low == LowSide(lo, padding, d)
             high == HighSide(hi, padding, d, Extent(size, d))
         IN  /\ low < high
             /\ 72 * (Unit * low) <= Greater(0, lo * d)
             /\ 72 * (Unit * high) >= Lesser(72 * (Unit * Extent(size, d)), hi * d)
<1>1. d \in Nat /\ d > 0
  BY DEF PaddingHolds
<1>2. /\ lo * d \in Int /\ hi * d \in Int /\ size * d \in Int
      /\ lo * d < hi * d /\ lo * d < size * d /\ hi * d > 0
  <2>1. 0 * d = 0
    BY <1>1
  <2>2. lo * d < hi * d /\ lo * d < size * d /\ 0 * d < hi * d
    BY <1>1, ProductKeepsOrder
  <2>3. lo * d \in Int /\ hi * d \in Int /\ size * d \in Int
    BY <1>1
  <2> QED BY <2>1, <2>2, <2>3
<1>3. /\ padding * d \in Int
      /\ 2 * (padding * d) >= 72 * (Unit + 2 * Slack)
      /\ (lo - padding) * d = lo * d - padding * d
      /\ (hi + padding) * d = hi * d + padding * d
  <2>1. 2 * padding * d = 2 * (padding * d)
    BY <1>1
  <2> QED BY <1>1, <2>1 DEF PaddingHolds
<1>4. /\ Extent(size, d) \in Int
      /\ Unit * Extent(size, d) >= Scaled(size, d)
  BY ExtentHolds DEF NearScaled
<1>5. /\ Scaled(lo - padding, d) \in Int
      /\ 72 * Scaled(lo - padding, d) <= lo * d - 36 * Unit
  BY <1>2, <1>3, UnitAssumption DEF NearScaled
<1>6. /\ Scaled(hi + padding, d) \in Int
      /\ 72 * Scaled(hi + padding, d) >= hi * d + 36 * Unit
  BY <1>2, <1>3, UnitAssumption DEF NearScaled
<1>7. 72 * (Unit * Extent(size, d)) > lo * d - 36 * Unit
  <2>1. 72 * Scaled(size, d) >= size * d - 36 * Unit /\ Scaled(size, d) \in Int
    BY <1>2, UnitAssumption DEF NearScaled
  <2>2. Unit * Extent(size, d) \in Int /\ Unit \in Int
    BY <1>4, UnitKeepsOrder, UnitAssumption
  <2> QED BY <1>2, <1>4, <2>1, <2>2
<1>8. Extent(size, d) > 0
  <2>1. Scaled(size, d) \in Int /\ Unit * Extent(size, d) \in Int /\ Unit * 0 = 0
    BY <1>4, UnitKeepsOrder, UnitAssumption DEF NearScaled
  <2>2. Unit * 0 < Unit * Extent(size, d)
    BY <1>4, <2>1
  <2> QED BY <1>4, <2>2, UnitKeepsOrder
<1> QED BY <1>2, <1>4, <1>5, <1>6, <1>7, <1>8, AxisShown DEF LowSide, HighSide

(* A region that meets its page is not taken for an empty one, and all of  *)
(* it that the page has is in the picture.                                 *)
LEMMA CropShows ==
  ASSUME NEW a \in Requests, NEW r \in Releases, a.box # WholePage,
         PaddingHolds(r.dpi, r.padding), OnPage(a.box, a.page)
  PROVE  /\ ~NothingLeft(a.box, a.page, r.dpi, r.padding)
         /\ Shows(Crop(a.box, a.page, r.dpi, r.padding), a.box, a.page, r.dpi)
<1>1. r.dpi \in Int /\ r.dpi > 0 /\ r.padding \in Nat
  BY ReleaseAssumption DEF PaddingHolds
<1>2. /\ a.page.width \in Nat \ {0} /\ a.page.height \in Nat \ {0}
      /\ a.box.left \in Int /\ a.box.right \in Int
      /\ a.box.top \in Int /\ a.box.bottom \in Int
  BY RequestAssumption
<1>3. /\ a.box.left < a.box.right /\ a.box.left < a.page.width /\ a.box.right > 0
      /\ a.box.top < a.box.bottom /\ a.box.top < a.page.height /\ a.box.bottom > 0
  BY DEF OnPage, HasArea
<1>4. /\ NearScaled(a.page.width, r.dpi) /\ Scaled(a.page.width, r.dpi) > 0
      /\ NearScaled(a.page.height, r.dpi) /\ Scaled(a.page.height, r.dpi) > 0
      /\ NearScaled(a.box.left - r.padding, r.dpi)
      /\ NearScaled(a.box.top - r.padding, r.dpi)
      /\ NearScaled(a.box.right + r.padding, r.dpi)
      /\ NearScaled(a.box.bottom + r.padding, r.dpi)
  BY <1>1, FloatAssumption
<1> DEFINE crop == Crop(a.box, a.page, r.dpi, r.padding)
<1>5. /\ crop.left < crop.right
      /\ 72 * (Unit * crop.left) <= Greater(0, a.box.left * r.dpi)
      /\ 72 * (Unit * crop.right)
           >= Lesser(72 * (Unit * Extent(a.page.width, r.dpi)), a.box.right * r.dpi)
  <2>1. /\ crop.left = LowSide(a.box.left, r.padding, r.dpi)
        /\ crop.right = HighSide(a.box.right, r.padding, r.dpi,
                                 Extent(a.page.width, r.dpi))
    BY DEF Crop
  <2> HIDE DEF crop
  <2>2. LET low == LowSide(a.box.left, r.padding, r.dpi)
            high == HighSide(a.box.right, r.padding, r.dpi,
                             Extent(a.page.width, r.dpi))
        IN  /\ low < high
            /\ 72 * (Unit * low) <= Greater(0, a.box.left * r.dpi)
            /\ 72 * (Unit * high)
                 >= Lesser(72 * (Unit * Extent(a.page.width, r.dpi)),
                           a.box.right * r.dpi)
    BY <1>1, <1>2, <1>3, <1>4, SidesShown
  <2> QED BY <2>1, <2>2
<1>6. /\ crop.top < crop.bottom
      /\ 72 * (Unit * crop.top) <= Greater(0, a.box.top * r.dpi)
      /\ 72 * (Unit * crop.bottom)
           >= Lesser(72 * (Unit * Extent(a.page.height, r.dpi)), a.box.bottom * r.dpi)
  <2>1. /\ crop.top = LowSide(a.box.top, r.padding, r.dpi)
        /\ crop.bottom = HighSide(a.box.bottom, r.padding, r.dpi,
                                  Extent(a.page.height, r.dpi))
    BY DEF Crop
  <2> HIDE DEF crop
  <2>2. LET low == LowSide(a.box.top, r.padding, r.dpi)
            high == HighSide(a.box.bottom, r.padding, r.dpi,
                             Extent(a.page.height, r.dpi))
        IN  /\ low < high
            /\ 72 * (Unit * low) <= Greater(0, a.box.top * r.dpi)
            /\ 72 * (Unit * high)
                 >= Lesser(72 * (Unit * Extent(a.page.height, r.dpi)),
                           a.box.bottom * r.dpi)
    BY <1>1, <1>2, <1>3, <1>4, SidesShown
  <2> QED BY <2>1, <2>2
<1> HIDE DEF crop
<1>7. HasArea(crop) /\ HasArea(a.box)
  BY <1>3, <1>5, <1>6 DEF HasArea
<1>8. Shows(crop, a.box, a.page, r.dpi)
  BY <1>5, <1>6 DEF Shows
<1> QED BY <1>7, <1>8 DEF NothingLeft, crop

----------------------------------------------------------------------------
(* The inductive invariant.                                                *)

\* What a key alone says of the result it stands for.
Told(key) ==
  [provider |-> "modal", model |-> key[3], revision |-> key[4],
   png |-> key[2][4], prompt |-> key[5], preprocess |-> key[6],
   contract |-> key[7], doc |-> key[1]]

CacheTrue == \A e \in cache : e.result = Told(e.key)

Drawn(c) == figure[c] # Nothing

\* A call that began has rendered its region, or gave up.
Begun(c) ==
  /\ pc[c] = "new" => ~Drawn(c)
  /\ pc[c] # "new" =>
       /\ ask[c] \in Requests /\ under[c] \in Releases
       /\ ~Drawn(c) => pc[c] = "done" /\ outcome[c].output = Nothing
       /\ Drawn(c) => figure[c] = Rendered(ask[c], under[c])
       /\ outcome[c].state = "REGION_EMPTY" =>
            NothingLeft(ask[c].box, ask[c].page, under[c].dpi, under[c].padding)
       /\ outcome[c].state = "COMPLETED" => Drawn(c)

\* A row is that of its call, and a completed one has its result.
RowTrue(c) ==
  \/ row[c] = NoRow
  \/ /\ pc[c] \notin {"new", "open"} /\ Drawn(c)
     /\ row[c].state \in {"LIVE", "COMPLETED", "FAILED"}
     /\ row[c] = RowOf(c, row[c].state)
     /\ row[c].state = "COMPLETED" => Stored(KeyOf(c)) # {}

\* An answer comes from where its labels say.
ReplyTrue(c) ==
  pc[c] = "answered" =>
    /\ row[c] # NoRow
    /\ reply[c].ok =>
         \/ reply[c].provider = "modal" /\ reply[c].made = Wanted(c)
         \/ reply[c].names = "mock"

SentRow(c) == pc[c] = "sent" => row[c] # NoRow

OutcomeTrue(c) ==
  /\ pc[c] # "done" => outcome[c] = [state |-> "NONE", output |-> Nothing]
  /\ outcome[c].output # Nothing => outcome[c].output = Wanted(c)
  /\ outcome[c].state = "COMPLETED" => outcome[c].output # Nothing

CallTrue(c) ==
  Begun(c) /\ RowTrue(c) /\ SentRow(c) /\ ReplyTrue(c) /\ OutcomeTrue(c)

Shape ==
  /\ DOMAIN pc = Calls /\ DOMAIN ask = Calls /\ DOMAIN under = Calls
  /\ DOMAIN figure = Calls /\ DOMAIN row = Calls /\ DOMAIN reply = Calls
  /\ DOMAIN outcome = Calls

IdentityInv == Shape /\ CacheTrue /\ \A c \in Calls : CallTrue(c)

(* The key of a picture determines the result that is wanted for it.       *)
LEMMA KeyTells ==
  ASSUME NEW c \in Calls, figure[c] = Rendered(ask[c], under[c])
  PROVE  Wanted(c) = Told(KeyOf(c))
BY DEF Rendered, Digest, KeyOf, CacheKey, Told, Wanted, Made

(* A result is something.                                                  *)
LEMMA WantedIsSomething ==
  ASSUME NEW c \in Calls
  PROVE  Wanted(c) # Nothing
<1>1. Wanted(c).provider = "modal"
  BY DEF Wanted, Made
<1>2. Nothing.provider = "nobody"
  BY DEF Nothing
<1> QED BY <1>1, <1>2

(* So is a picture.                                                        *)
LEMMA PictureIsSomething ==
  ASSUME NEW a, NEW r
  PROVE  Rendered(a, r) # Nothing
<1>1. DOMAIN Rendered(a, r) = {"png", "sha"}
  BY DEF Rendered
<1>2. DOMAIN Nothing = {"provider"}
  BY DEF Nothing
<1> QED BY <1>1, <1>2

(* What the cache gives for the key of a picture is what is wanted.        *)
LEMMA CacheServes ==
  ASSUME CacheTrue, NEW c \in Calls, figure[c] = Rendered(ask[c], under[c])
  PROVE  /\ Stored(KeyOf(c)) # {} => Cached(KeyOf(c)) = Wanted(c)
         /\ Stored(KeyOf(c)) = {} => Cached(KeyOf(c)) = Nothing
<1>1. \A e \in Stored(KeyOf(c)) : e.result = Wanted(c)
  BY KeyTells DEF CacheTrue, Stored
<1>2. ASSUME Stored(KeyOf(c)) # {}
      PROVE  Cached(KeyOf(c)) = Wanted(c)
  <2>1. (CHOOSE e \in Stored(KeyOf(c)) : TRUE) \in Stored(KeyOf(c))
    BY <1>2
  <2> QED BY <1>1, <1>2, <2>1 DEF Cached
<1> QED BY <1>2 DEF Cached

(* A step of another call leaves a call's part of the invariant true.      *)
LEMMA OthersStayTrue ==
  ASSUME NEW d \in Calls, CallTrue(d), cache \subseteq cache',
         pc'[d] = pc[d], ask'[d] = ask[d], under'[d] = under[d],
         figure'[d] = figure[d], row'[d] = row[d], reply'[d] = reply[d],
         outcome'[d] = outcome[d]
  PROVE  CallTrue(d)'
<1>1. (Drawn(d)' <=> Drawn(d)) /\ Wanted(d)' = Wanted(d) /\ KeyOf(d)' = KeyOf(d)
  BY DEF Drawn, Wanted, Made, KeyOf
<1>2. Begun(d)'
  BY <1>1 DEF CallTrue, Begun
<1>3. RowOf(d, row[d].state)' = RowOf(d, row[d].state)
  BY <1>1 DEF RowOf, RowIdentity
<1>4. Stored(KeyOf(d)) \subseteq Stored(KeyOf(d))'
  BY <1>1 DEF Stored
<1>5. RowTrue(d)'
  BY <1>1, <1>3, <1>4 DEF CallTrue, RowTrue
<1>6. SentRow(d)' /\ ReplyTrue(d)' /\ OutcomeTrue(d)'
  BY <1>1 DEF CallTrue, ReplyTrue, SentRow, OutcomeTrue, NoRow, Nothing
<1> QED BY <1>2, <1>5, <1>6 DEF CallTrue

(* An action that settles the call c alone, and adds only true results.    *)
LEMMA OneCallMoves ==
  ASSUME IdentityInv, NEW c \in Calls, Shape', CacheTrue', CallTrue(c)',
         cache \subseteq cache',
         \A d \in Calls \ {c} :
           /\ pc'[d] = pc[d] /\ ask'[d] = ask[d] /\ under'[d] = under[d]
           /\ figure'[d] = figure[d] /\ row'[d] = row[d]
           /\ reply'[d] = reply[d] /\ outcome'[d] = outcome[d]
  PROVE  IdentityInv'
<1>1. ASSUME NEW d \in Calls, d # c PROVE CallTrue(d)'
  BY <1>1, OthersStayTrue DEF IdentityInv
<1> QED BY <1>1 DEF IdentityInv

----------------------------------------------------------------------------
(* The actions.                                                            *)

LEMMA BeginKeeps ==
  ASSUME IdentityInv, NEW c \in Calls, NEW a \in Requests, NEW r \in Releases,
         Begin(c, a, r)
  PROVE  IdentityInv'
<1> USE DEF IdentityInv, Shape
<1>1. /\ pc[c] = "new" /\ ask'[c] = a /\ under'[c] = r /\ row'[c] = row[c]
      /\ cache' = cache /\ reply' = reply
  BY DEF Begin
<1>2. /\ row[c] = NoRow /\ outcome[c] = [state |-> "NONE", output |-> Nothing]
      /\ figure[c] = Nothing
  BY <1>1 DEF CallTrue, RowTrue, OutcomeTrue, Begun, Drawn
<1>3. Shape'
  BY DEF Begin, Leave
<1>4. CacheTrue'
  BY <1>1 DEF CacheTrue
<1>5. ASSUME NEW s \in {"NOT_RENDERED", "REGION_EMPTY"},
             Leave(c, s, Nothing), figure' = figure,
             s = "REGION_EMPTY" => NothingLeft(a.box, a.page, r.dpi, r.padding)
      PROVE  CallTrue(c)'
  <2>1. pc'[c] = "done" /\ outcome'[c] = [state |-> s, output |-> Nothing]
    BY <1>5 DEF Leave
  <2>2. figure'[c] = Nothing
    BY <1>2, <1>5
  <2>3. Begun(c)'
    BY <1>1, <1>5, <2>1, <2>2 DEF Begun, Drawn, Nothing
  <2> QED BY <1>1, <1>2, <2>1, <2>3
          DEF CallTrue, RowTrue, ReplyTrue, SentRow, OutcomeTrue, NoRow
<1>6. ASSUME pc' = [pc EXCEPT ![c] = "open"], outcome' = outcome,
             figure' = [figure EXCEPT ![c] = Rendered(a, r)]
      PROVE  CallTrue(c)'
  <2>1. /\ pc'[c] = "open" /\ figure'[c] = Rendered(a, r)
        /\ outcome' = outcome
    BY <1>6
  <2>2. Drawn(c)' /\ figure'[c] = Rendered(ask[c], under[c])'
    BY <1>1, <2>1, PictureIsSomething DEF Drawn, Nothing
  <2> QED BY <1>1, <1>2, <2>1, <2>2
          DEF CallTrue, Begun, RowTrue, ReplyTrue, SentRow, OutcomeTrue, NoRow, Nothing
<1>7. CallTrue(c)'
  BY <1>5, <1>6 DEF Begin
<1> QED
  <2>1. \A d \in Calls \ {c} :
          /\ pc'[d] = pc[d] /\ ask'[d] = ask[d] /\ under'[d] = under[d]
          /\ figure'[d] = figure[d] /\ row'[d] = row[d]
          /\ reply'[d] = reply[d] /\ outcome'[d] = outcome[d]
    BY DEF Begin, Leave
  <2> QED BY <1>1, <1>3, <1>4, <1>7, <2>1, OneCallMoves

(* An open call has no row yet, and its picture.                           *)
LEMMA OpenCall ==
  ASSUME IdentityInv, NEW c \in Calls, pc[c] = "open"
  PROVE  /\ row[c] = NoRow /\ figure[c] = Rendered(ask[c], under[c]) /\ Drawn(c)
         /\ ask[c] \in Requests /\ under[c] \in Releases
         /\ outcome[c] = [state |-> "NONE", output |-> Nothing]
BY DEF IdentityInv, CallTrue, Begun, RowTrue, OutcomeTrue

(* A replay under the identity of a completed row finds its result.        *)
LEMMA ReplayFinds ==
  ASSUME IdentityInv, NEW c \in Calls, NEW d \in Calls, pc[c] = "open",
         row[d].identity = RowIdentity(c), row[d] # NoRow,
         row[d].state = "COMPLETED"
  PROVE  Stored(KeyOf(c)) # {}
<1>1. row[d] = RowOf(d, row[d].state) /\ Stored(KeyOf(d)) # {}
  BY DEF IdentityInv, CallTrue, RowTrue
<1>2. RowIdentity(d) = RowIdentity(c)
  BY <1>1 DEF RowOf
<1>3. RowIdentity(d)[7] = KeyOf(d) /\ RowIdentity(c)[7] = KeyOf(c)
  BY DEF RowIdentity
<1> QED BY <1>1, <1>2, <1>3

LEMMA OpenKeeps ==
  ASSUME IdentityInv, NEW c \in Calls, Open(c)
  PROVE  IdentityInv'
<1> USE DEF IdentityInv, Shape
<1>1. /\ pc[c] = "open" /\ ask' = ask /\ under' = under /\ figure' = figure
      /\ cache' = cache /\ reply' = reply
  BY DEF Open
<1>2. /\ row[c] = NoRow /\ figure[c] = Rendered(ask[c], under[c]) /\ Drawn(c)
      /\ ask[c] \in Requests /\ under[c] \in Releases
      /\ outcome[c] = [state |-> "NONE", output |-> Nothing]
  BY <1>1, OpenCall
<1>3. /\ (Drawn(c)' <=> Drawn(c)) /\ Wanted(c)' = Wanted(c) /\ KeyOf(c)' = KeyOf(c)
      /\ Stored(KeyOf(c))' = Stored(KeyOf(c))
      /\ Rendered(ask[c], under[c])' = Rendered(ask[c], under[c])
  BY <1>1 DEF Drawn, Wanted, Made, KeyOf, Stored
<1>4. RowOf(c, "COMPLETED")' = RowOf(c, "COMPLETED")
      /\ RowOf(c, "LIVE")' = RowOf(c, "LIVE")
  BY <1>1, <1>3 DEF RowOf, RowIdentity
<1>5. /\ Stored(KeyOf(c)) # {} => Cached(KeyOf(c)) = Wanted(c)
      /\ Stored(KeyOf(c)) = {} => Cached(KeyOf(c)) = Nothing
  BY <1>2, CacheServes
<1>6. Wanted(c) # Nothing
  BY WantedIsSomething
<1>7. RowOf(c, "COMPLETED").state = "COMPLETED" /\ RowOf(c, "LIVE").state = "LIVE"
  BY DEF RowOf
<1>8. ASSUME NEW d \in Existing(c), row' = row,
             IF row[d].identity # RowIdentity(c)
             THEN Leave(c, "CONFLICT", Nothing)
             ELSE Leave(c, row[d].state,
                        IF row[d].state = "COMPLETED" THEN Cached(KeyOf(c))
                        ELSE Nothing)
      PROVE  CallTrue(c)' /\ Shape'
  <2>1. d \in Calls /\ row[d] # NoRow
    BY <1>8 DEF Existing, NoRow
  <2>2. row[d].state \in {"LIVE", "COMPLETED", "FAILED"}
    BY <2>1 DEF CallTrue, RowTrue
  <2>3. pc'[c] = "done" /\ DOMAIN pc' = Calls /\ DOMAIN outcome' = Calls
    BY <1>8 DEF Leave
  <2>4. CASE row[d].identity # RowIdentity(c)
    <3>1. outcome'[c] = [state |-> "CONFLICT", output |-> Nothing]
      BY <1>8, <2>4 DEF Leave
    <3> QED BY <1>1, <1>2, <1>3, <1>8, <2>3, <3>1
            DEF CallTrue, Begun, RowTrue, ReplyTrue, SentRow, OutcomeTrue, NoRow, Nothing
  <2>5. CASE row[d].identity = RowIdentity(c) /\ row[d].state = "COMPLETED"
    <3>1. outcome'[c] = [state |-> "COMPLETED", output |-> Wanted(c)]
      BY <1>1, <1>5, <1>8, <2>1, <2>5, ReplayFinds DEF Leave
    <3> QED BY <1>1, <1>2, <1>3, <1>6, <1>8, <2>3, <3>1
            DEF CallTrue, Begun, RowTrue, ReplyTrue, SentRow, OutcomeTrue, NoRow, Nothing
  <2>6. CASE row[d].identity = RowIdentity(c) /\ row[d].state # "COMPLETED"
    <3>1. outcome'[c] = [state |-> row[d].state, output |-> Nothing]
      BY <1>8, <2>6 DEF Leave
    <3> QED BY <1>1, <1>2, <1>3, <1>8, <2>2, <2>3, <2>6, <3>1
            DEF CallTrue, Begun, RowTrue, ReplyTrue, SentRow, OutcomeTrue, NoRow, Nothing
  <2> QED BY <2>4, <2>5, <2>6, <1>1, <1>8, <2>3
<1>9. ASSUME Stored(KeyOf(c)) # {},
             row' = [row EXCEPT ![c] = RowOf(c, "COMPLETED")],
             Leave(c, "COMPLETED", Cached(KeyOf(c)))
      PROVE  CallTrue(c)' /\ Shape'
  <2>1. /\ pc'[c] = "done" /\ row'[c] = RowOf(c, "COMPLETED")
        /\ outcome'[c] = [state |-> "COMPLETED", output |-> Wanted(c)]
    BY <1>5, <1>9 DEF Leave
  <2>2. Begun(c)' /\ OutcomeTrue(c)' /\ ReplyTrue(c)' /\ SentRow(c)'
    BY <1>1, <1>2, <1>3, <1>6, <2>1 DEF Begun, OutcomeTrue, ReplyTrue, SentRow, NoRow, Nothing
  <2>3. RowTrue(c)'
    BY <1>2, <1>3, <1>4, <1>7, <1>9, <2>1 DEF RowTrue
  <2>4. Shape'
    BY <1>1, <1>9 DEF Leave
  <2> QED BY <2>2, <2>3, <2>4 DEF CallTrue
<1>10. ASSUME row' = [row EXCEPT ![c] = RowOf(c, "LIVE")],
              pc' = [pc EXCEPT ![c] = "sent"], outcome' = outcome
       PROVE  CallTrue(c)' /\ Shape'
  <2>1. pc'[c] = "sent" /\ row'[c] = RowOf(c, "LIVE")
    BY <1>10
  <2>2. Begun(c)' /\ OutcomeTrue(c)' /\ ReplyTrue(c)' /\ SentRow(c)'
    BY <1>1, <1>2, <1>3, <1>7, <1>10, <2>1
       DEF Begun, OutcomeTrue, ReplyTrue, SentRow, NoRow, Nothing
  <2>3. RowTrue(c)'
    BY <1>2, <1>3, <1>4, <1>7, <2>1 DEF RowTrue
  <2>4. Shape'
    BY <1>1, <1>10
  <2> QED BY <2>2, <2>3, <2>4 DEF CallTrue
<1>11. CallTrue(c)' /\ Shape'
  BY <1>8, <1>9, <1>10 DEF Open
<1>12. CacheTrue'
  BY <1>1 DEF CacheTrue
<1>13. \A d \in Calls \ {c} :
          pc'[d] = pc[d] /\ row'[d] = row[d] /\ outcome'[d] = outcome[d]
  BY DEF Open, Leave
<1> QED BY <1>1, <1>11, <1>12, <1>13, OneCallMoves

(* What a call that was sent to its provider has.                          *)
LEMMA LiveCall ==
  ASSUME IdentityInv, NEW c \in Calls, pc[c] \in {"sent", "answered"}
  PROVE  /\ figure[c] = Rendered(ask[c], under[c]) /\ Drawn(c)
         /\ ask[c] \in Requests /\ under[c] \in Releases
         /\ outcome[c] = [state |-> "NONE", output |-> Nothing]
BY DEF IdentityInv, CallTrue, Begun, OutcomeTrue

(* An answer that is good was made by the model it claims, or names no     *)
(* document.                                                               *)
LEMMA AnswerKeeps ==
  ASSUME IdentityInv, NEW c \in Calls, NEW r, pc[c] = "sent", row[c] # NoRow,
         Answer(c, r),
         r.ok => \/ r.provider = "modal" /\ r.made = Wanted(c)
                 \/ r.names = "mock"
  PROVE  IdentityInv'
<1> USE DEF IdentityInv, Shape
<1>1. /\ pc'[c] = "answered" /\ reply'[c] = r /\ ask' = ask /\ under' = under
      /\ figure' = figure /\ row' = row /\ cache' = cache /\ outcome' = outcome
  BY DEF Answer
<1>2. /\ (Drawn(c)' <=> Drawn(c)) /\ Wanted(c)' = Wanted(c) /\ KeyOf(c)' = KeyOf(c)
      /\ Stored(KeyOf(c))' = Stored(KeyOf(c))
      /\ RowOf(c, row[c].state)' = RowOf(c, row[c].state)
      /\ Rendered(ask[c], under[c])' = Rendered(ask[c], under[c])
  BY <1>1 DEF Drawn, Wanted, Made, KeyOf, Stored, RowOf, RowIdentity
<1>3. Begun(c)' /\ OutcomeTrue(c)'
  BY <1>1, <1>2, LiveCall DEF Begun, OutcomeTrue, Nothing
<1>4. RowTrue(c)'
  BY <1>1, <1>2 DEF CallTrue, RowTrue, NoRow
<1>5. ReplyTrue(c)' /\ SentRow(c)'
  BY <1>1, <1>2 DEF ReplyTrue, SentRow, NoRow
<1>6. Shape' /\ CacheTrue'
  BY <1>1 DEF Answer, CacheTrue
<1>7. \A d \in Calls \ {c} : pc'[d] = pc[d] /\ reply'[d] = reply[d]
  BY DEF Answer
<1> QED BY <1>1, <1>3, <1>4, <1>5, <1>6, <1>7, OneCallMoves DEF CallTrue

(* A call that was sent has its live row.                                  *)
LEMMA SentHasRow ==
  ASSUME IdentityInv, NEW c \in Calls, pc[c] = "sent"
  PROVE  row[c] # NoRow
BY DEF IdentityInv, CallTrue, SentRow

LEMMA ProviderKeeps ==
  ASSUME IdentityInv, NEW c \in Calls,
         \/ MockAnswers(c) \/ ProviderFails(c)
         \/ \E b \in Builds : WorkerAnswers(c, b)
  PROVE  IdentityInv'
<1>1. pc[c] = "sent" /\ row[c] # NoRow
  BY SentHasRow DEF MockAnswers, WorkerAnswers, ProviderFails
<1>2. CASE MockAnswers(c)
  <2> DEFINE r == [ok |-> TRUE, provider |-> "mock", model |-> under[c].model,
                   revision |-> under[c].revision, names |-> "mock",
                   made |-> Made("mock", "none", "none", c)]
  <2>1. r.names = "mock"
    OBVIOUS
  <2>2. Answer(c, r)
    BY <1>2 DEF MockAnswers
  <2> HIDE DEF r
  <2> QED BY <1>1, <2>1, <2>2, AnswerKeeps
<1>3. CASE ProviderFails(c)
  BY <1>1, <1>3, AnswerKeeps DEF ProviderFails, NoReply
<1>4. ASSUME NEW b \in Builds, WorkerAnswers(c, b)
      PROVE  IdentityInv'
  <2> DEFINE good == b.revision = under[c].revision /\ b.model = under[c].model
             r == [ok |-> good, provider |-> "modal", model |-> b.model,
                   revision |-> b.revision, names |-> ask[c].doc,
                   made |-> Made("modal", b.model, b.revision, c)]
  <2>1. r.ok = good /\ r.provider = "modal"
        /\ r.made = Made("modal", b.model, b.revision, c)
    OBVIOUS
  <2>2. good => r.made = Wanted(c)
    BY <2>1 DEF Wanted
  <2>3. r.ok => \/ r.provider = "modal" /\ r.made = Wanted(c)
                \/ r.names = "mock"
    BY <2>1, <2>2
  <2>4. Answer(c, r)
    BY <1>4 DEF WorkerAnswers
  <2> HIDE DEF r, good
  <2> QED BY <1>1, <2>3, <2>4, AnswerKeeps
<1> QED BY <1>2, <1>3, <1>4

LEMMA RefuseKeeps ==
  ASSUME IdentityInv, NEW c \in Calls, Refuse(c)
  PROVE  IdentityInv'
<1> USE DEF IdentityInv, Shape
<1>1. /\ pc[c] = "answered" /\ ask' = ask /\ under' = under /\ figure' = figure
      /\ reply' = reply /\ cache' = cache /\ pc'[c] = "done"
      /\ row' = [row EXCEPT ![c].state = "FAILED"]
      /\ outcome'[c] = [state |-> "FAILED", output |-> Nothing]
  BY DEF Refuse, Leave
<1>2. /\ (Drawn(c)' <=> Drawn(c))
      /\ RowOf(c, "FAILED")' = RowOf(c, "FAILED")
      /\ Rendered(ask[c], under[c])' = Rendered(ask[c], under[c])
  BY <1>1 DEF Drawn, KeyOf, RowOf, RowIdentity
<1>3. row'[c] = RowOf(c, "FAILED") /\ row'[c].state = "FAILED"
  <2>1. row[c] = RowOf(c, row[c].state)
    BY <1>1 DEF CallTrue, ReplyTrue, RowTrue
  <2> QED BY <1>1, <2>1 DEF RowOf
<1>4. Begun(c)' /\ OutcomeTrue(c)' /\ ReplyTrue(c)' /\ SentRow(c)'
  BY <1>1, <1>2, LiveCall DEF Begun, OutcomeTrue, ReplyTrue, SentRow, Nothing
<1>5. RowTrue(c)'
  BY <1>1, <1>2, <1>3, LiveCall DEF RowTrue
<1>6. Shape' /\ CacheTrue'
  BY <1>1 DEF Refuse, Leave, CacheTrue
<1>7. \A d \in Calls \ {c} :
        pc'[d] = pc[d] /\ row'[d] = row[d] /\ outcome'[d] = outcome[d]
  BY DEF Refuse, Leave
<1> QED BY <1>1, <1>4, <1>5, <1>6, <1>7, OneCallMoves DEF CallTrue

(* An accepted answer is what was wanted: the mock names no document.      *)
LEMMA AcceptedIsWanted ==
  ASSUME IdentityInv, NEW c \in Calls, pc[c] = "answered", Accepted(c)
  PROVE  reply[c].made = Wanted(c)
<1>1. ask[c].doc # "mock"
  BY LiveCall, RequestAssumption
<1> QED BY <1>1 DEF IdentityInv, CallTrue, ReplyTrue, Accepted

LEMMA PersistKeeps ==
  ASSUME IdentityInv, NEW c \in Calls, Persist(c)
  PROVE  IdentityInv'
<1> USE DEF IdentityInv, Shape
<1>1. /\ pc[c] = "answered" /\ ask' = ask /\ under' = under /\ figure' = figure
      /\ reply' = reply /\ pc'[c] = "done"
      /\ row' = [row EXCEPT ![c].state = "COMPLETED"]
      /\ outcome'[c] = [state |-> "COMPLETED", output |-> Wanted(c)]
      /\ cache' = IF Stored(KeyOf(c)) # {} THEN cache
                  ELSE cache \cup {[key |-> KeyOf(c), result |-> Wanted(c)]}
  BY AcceptedIsWanted DEF Persist, Leave
<1>2. /\ (Drawn(c)' <=> Drawn(c)) /\ Wanted(c)' = Wanted(c) /\ KeyOf(c)' = KeyOf(c)
      /\ RowOf(c, "COMPLETED")' = RowOf(c, "COMPLETED")
      /\ Rendered(ask[c], under[c])' = Rendered(ask[c], under[c])
  BY <1>1 DEF Drawn, Wanted, Made, KeyOf, RowOf, RowIdentity
<1>3. row'[c] = RowOf(c, "COMPLETED") /\ row'[c].state = "COMPLETED"
  <2>1. row[c] = RowOf(c, row[c].state)
    BY <1>1 DEF CallTrue, ReplyTrue, RowTrue
  <2> QED BY <1>1, <2>1 DEF RowOf
<1>4. Begun(c)' /\ OutcomeTrue(c)' /\ ReplyTrue(c)' /\ SentRow(c)'
  <2>1. Wanted(c) # Nothing
    BY WantedIsSomething
  <2> QED BY <1>1, <1>2, <2>1, LiveCall
          DEF Begun, OutcomeTrue, ReplyTrue, SentRow, Nothing
<1>5. Stored(KeyOf(c))' # {}
  <2>1. CASE Stored(KeyOf(c)) # {}
    BY <1>1, <1>2, <2>1 DEF Stored
  <2>2. CASE Stored(KeyOf(c)) = {}
    <3>1. [key |-> KeyOf(c), result |-> Wanted(c)] \in cache'
      BY <1>1, <2>2
    <3> QED BY <1>2, <3>1 DEF Stored
  <2> QED BY <2>1, <2>2
<1>6. RowTrue(c)'
  BY <1>1, <1>2, <1>3, <1>5, LiveCall DEF RowTrue
<1>7. CacheTrue'
  <2>1. Wanted(c) = Told(KeyOf(c))
    BY <1>1, LiveCall, KeyTells
  <2>2. \A e \in cache' : e.result = Told(e.key)
    BY <1>1, <2>1 DEF CacheTrue
  <2> QED BY <2>2 DEF CacheTrue, Told
<1>8. Shape'
  BY <1>1 DEF Persist, Leave
<1>9. cache \subseteq cache'
  BY <1>1
<1>10. \A d \in Calls \ {c} :
         pc'[d] = pc[d] /\ row'[d] = row[d] /\ outcome'[d] = outcome[d]
  BY DEF Persist, Leave
<1> QED BY <1>1, <1>4, <1>6, <1>7, <1>8, <1>9, <1>10, OneCallMoves DEF CallTrue

----------------------------------------------------------------------------
LEMMA IdentityStarts ==
  ASSUME Init
  PROVE  IdentityInv
BY DEF Init, IdentityInv, Shape, CacheTrue, CallTrue, Begun, RowTrue, ReplyTrue,
       SentRow, OutcomeTrue, Drawn

LEMMA IdentityKept ==
  ASSUME IdentityInv, [Next]_vars
  PROVE  IdentityInv'
<1>1. CASE vars' = vars
  <2>1. Shape' /\ CacheTrue'
    BY <1>1 DEF IdentityInv, Shape, CacheTrue, vars
  <2>2. ASSUME NEW d \in Calls PROVE CallTrue(d)'
    BY <1>1, <2>2, OthersStayTrue DEF IdentityInv, vars
  <2> QED BY <2>1, <2>2 DEF IdentityInv
<1>2. CASE \E c \in Calls, a \in Requests, r \in Releases : Begin(c, a, r)
  BY <1>2, BeginKeeps
<1>3. ASSUME NEW c \in Calls,
             Open(c) \/ MockAnswers(c) \/ ProviderFails(c) \/ Refuse(c) \/ Persist(c)
      PROVE  IdentityInv'
  BY <1>3, OpenKeeps, ProviderKeeps, RefuseKeeps, PersistKeeps
<1>4. CASE \E c \in Calls, b \in Builds : WorkerAnswers(c, b)
  BY <1>4, ProviderKeeps
<1> QED BY <1>1, <1>2, <1>3, <1>4 DEF Next, Terminating

(* render.py, cache.py, controller.py: the invariant holds for any calls,  *)
(* requests, releases and workers.                                         *)
THEOREM IdentityInvariant == Spec => []IdentityInv
BY IdentityStarts, IdentityKept, PTL DEF Spec

(* A result is never served for work it never did: whatever a call returns *)
(* was made from its own pixels by the model and the prompt, preprocessing *)
(* and contract of its own release (cache.py, controller.py 401-415).      *)
THEOREM AlwaysServedAsAsked == Spec => []ServedAsAsked
<1>1. IdentityInv => ServedAsAsked
  BY DEF IdentityInv, CallTrue, OutcomeTrue, ServedAsAsked
<1> QED BY <1>1, IdentityInvariant, PTL

(* COMPLETED is never reported without its extraction, not even to a       *)
(* replay under another release (repositories.py 438-473).                 *)
THEOREM AlwaysAnswered == Spec => []CompletedIsAnswered
<1>1. IdentityInv => CompletedIsAnswered
  BY DEF IdentityInv, CallTrue, OutcomeTrue, CompletedIsAnswered
<1> QED BY <1>1, IdentityInvariant, PTL

(* A picture of a region holds all of it that its page has, and a region   *)
(* that meets its page is never taken for an empty one, for any page, box  *)
(* and resolution in doubles, and padding of half a pixel and the slack    *)
(* (render.py _crop).                                                      *)
THEOREM AlwaysShowsRegion == Spec => []RegionShown
<1>1. ASSUME IdentityInv, NEW c \in Calls, pc[c] # "new",
             ask[c].box # WholePage,
             PaddingHolds(under[c].dpi, under[c].padding),
             OnPage(ask[c].box, ask[c].page)
      PROVE  /\ outcome[c].state # "REGION_EMPTY"
             /\ figure[c] # Nothing =>
                  Shows(figure[c].png.pixels, ask[c].box, ask[c].page, under[c].dpi)
  <2>1. Begun(c) /\ ask[c] \in Requests /\ under[c] \in Releases
    BY <1>1 DEF IdentityInv, CallTrue, Begun
  <2>2. /\ ~NothingLeft(ask[c].box, ask[c].page, under[c].dpi, under[c].padding)
        /\ Shows(Crop(ask[c].box, ask[c].page, under[c].dpi, under[c].padding),
                 ask[c].box, ask[c].page, under[c].dpi)
    BY <1>1, <2>1, CropShows
  <2>3. outcome[c].state # "REGION_EMPTY"
    BY <1>1, <2>1, <2>2 DEF Begun
  <2>4. ASSUME figure[c] # Nothing
        PROVE  figure[c].png.pixels
                 = Crop(ask[c].box, ask[c].page, under[c].dpi, under[c].padding)
    <3>1. figure[c] = Rendered(ask[c], under[c])
      BY <1>1, <2>1, <2>4 DEF Begun, Drawn
    <3> QED BY <1>1, <3>1 DEF Rendered, Png
  <2> QED BY <2>2, <2>3, <2>4
<1>2. IdentityInv => RegionShown
  BY <1>1 DEF RegionShown
<1> QED BY <1>2, IdentityInvariant, PTL

=============================================================================
