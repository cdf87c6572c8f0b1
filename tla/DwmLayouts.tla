----------------------------- MODULE DwmLayouts -----------------------------
(***************************************************************************)
(* The geometry of dwm60cf: where a layout puts the tiled clients of a     *)
(* screen, and what becomes of a place that a client, a program or the     *)
(* mouse asks for.  A screen has its whole area mx, my, mw, mh and the     *)
(* area for windows wx, wy, ww, wh; a place x, y, w, h is without the      *)
(* border bw.  A division of C rounds towards zero (Quot).                 *)
(***************************************************************************)
EXTENDS Integers, Sequences, SequencesExt

CONSTANTS
  bh,        \* the height of the bar
  borderpx,  \* the border of a client
  snap,      \* how near an edge draws a window
  sw, sh     \* the size of all screens together

Most(a, b) == IF a > b THEN a ELSE b
Least(a, b) == IF a < b THEN a ELSE b

Place(x, y, w, h) == [x |-> x, y |-> y, w |-> w, h |-> h]
WIDTH(p, bw) == p.w + 2 * bw
HEIGHT(p, bw) == p.h + 2 * bw

\* The quotient and the remainder of C, where a size may fall below zero.
Quot(a, b) == IF a >= 0 THEN a \div b ELSE -((-a) \div b)
Rem(a, b) == a - b * Quot(a, b)

\* The bar takes its height from the bottom or the top of the screen.
updatebarpos(m, showbar, topbar) ==
  [m EXCEPT !.wh = IF showbar THEN m.mh - bh ELSE m.mh,
            !.wy = IF showbar /\ topbar THEN m.my + bh ELSE m.my,
            !.by = IF ~showbar THEN -bh ELSE IF topbar THEN m.my ELSE m.my + m.mh - bh]

INTERSECT(p, m) ==
    Most(0, Least(p.x + p.w, m.wx + m.ww) - Most(p.x, m.wx))
  * Most(0, Least(p.y + p.h, m.wy + m.wh) - Most(p.y, m.wy))

\* The first of the screens with the largest share, or the selected one.
recttomon(mons, selmon, p) ==
  FoldLeftDomain(LAMBDA r, i : IF INTERSECT(p, mons[i]) > r[2] THEN <<i, INTERSECT(p, mons[i])>> ELSE r,
                 <<selmon, 0>>, mons)[1]

-----------------------------------------------------------------------------
(* Size hints.                                                             *)

\* What the window says, by the parts it has set; a missing base size is the
\* least one and the other way round.  Aspects are pairs, <<0, 1>> for none.
updatesizehints(size) ==
  LET Has(f) == f \in DOMAIN size
      Of(f, g) == IF Has(f) THEN size[f] ELSE IF Has(g) THEN size[g] ELSE <<0, 0>>
      Or0(f) == IF Has(f) THEN size[f] ELSE <<0, 0>>
      min == Of("min", "base")
      max == Or0("max")
  IN [base |-> Of("base", "min"), inc |-> Or0("inc"), max |-> max, min |-> min,
      mina |-> IF Has("aspect") THEN size.aspect[1] ELSE <<0, 1>>,
      maxa |-> IF Has("aspect") THEN size.aspect[2] ELSE <<0, 1>>,
      isfixed |-> 0 \notin {min[1], min[2], max[1], max[2]} /\ min = max]

\* a < n / d, as floating point numbers say it of a d that may be 0 or less.
Below(a, n, d) ==
  IF d = 0 THEN n > 0 ELSE IF d > 0 THEN a[1] * d < n * a[2] ELSE a[1] * (-d) < (-n) * a[2]
Rounded(n, a) == Quot(2 * n * a[1] + a[2], 2 * a[2])

\* maxa is a width over a height, mina a height over a width.
aspect(w, h, hints) ==
  IF hints.mina[1] <= 0 \/ hints.maxa[1] <= 0 THEN <<w, h>>
  ELSE IF Below(hints.maxa, w, h) THEN <<Rounded(h, hints.maxa), h>>
  ELSE IF Below(hints.mina, h, w) THEN <<w, Rounded(w, hints.mina)>>
  ELSE <<w, h>>

\* The base size is no part of the aspect, unless it is the least size, nor
\* of the increments.
hinted(w, h, hints) ==
  LET base == hints.base
      baseismin == base = hints.min
      kept == IF baseismin THEN aspect(w, h, hints) ELSE aspect(w - base[1], h - base[2], hints)
      s == IF baseismin THEN <<kept[1] - base[1], kept[2] - base[2]>> ELSE kept
      Fit(i) == LET inc == IF hints.inc[i] = 0 THEN s[i] ELSE s[i] - Rem(s[i], hints.inc[i])
                    least == Most(inc + base[i], hints.min[i])
                IN IF hints.max[i] = 0 THEN least ELSE Least(least, hints.max[i])
  IN <<Fit(1), Fit(2)>>

\* A place beyond an edge comes back: with the mouse to the edges of all
\* screens, else to those of the window area.
OnAll(x, size, high, had) ==
  LET y == IF x > high THEN high - had ELSE x IN IF y + size < 0 THEN 0 ELSE y
OnArea(x, size, low, high, had) ==
  LET y == IF x >= high THEN high - had ELSE x IN IF y + size <= low THEN low ELSE y

\* What a client gets of the place p that is asked for.  free: it floats, or
\* the screen has no layout; interact: the mouse asks.
applysizehints(c, m, p, free, interact) ==
  LET q == Place(p.x, p.y, Most(1, p.w), Most(1, p.h))
      x == IF interact THEN OnAll(q.x, WIDTH(q, c.bw), sw, WIDTH(c, c.bw))
           ELSE OnArea(q.x, WIDTH(q, c.bw), m.wx, m.wx + m.ww, WIDTH(c, c.bw))
      y == IF interact THEN OnAll(q.y, HEIGHT(q, c.bw), sh, HEIGHT(c, c.bw))
           ELSE OnArea(q.y, HEIGHT(q, c.bw), m.wy, m.wy + m.wh, HEIGHT(c, c.bw))
      w == Most(q.w, bh)
      h == Most(q.h, bh)
      s == IF free THEN hinted(w, h, c.hints) ELSE <<w, h>>
  IN Place(x, y, s[1], s[2])

-----------------------------------------------------------------------------
(* Layouts: the places of the tiled clients of a screen, in their order.   *)
(* Every layout takes the clients one after the other, as the size of one  *)
(* may decide where the next goes.                                         *)

Tile(c, m, x, y, w, h) ==
  applysizehints(c, m, Place(x, y, w - 2 * c.bw, h - 2 * c.bw), FALSE, FALSE)

\* The share of the master area; mfact is in hundredths.
Share(n, nmaster, mfact, size) ==
  IF n <= nmaster THEN size ELSE IF nmaster = 0 THEN 0 ELSE (mfact * size) \div 100

tile(cs, m, nmaster, mfact) ==
  LET n == Len(cs)
      mw == Share(n, nmaster, mfact, m.ww)
      Step(acc, i) ==
        LET master == i < nmaster
            used == IF master THEN acc.my ELSE acc.ty
            h == Quot(m.wh - used, IF master THEN Least(n, nmaster) - i ELSE n - i)
            p == IF master THEN Tile(cs[i + 1], m, m.wx, m.wy + used, mw, h)
                           ELSE Tile(cs[i + 1], m, m.wx + mw, m.wy + used, m.ww - mw, h)
            next == used + HEIGHT(p, cs[i + 1].bw)
        IN [my |-> IF master THEN next ELSE acc.my, ty |-> IF master THEN acc.ty ELSE next,
            places |-> Append(acc.places, p)]
  IN FoldLeft(Step, [my |-> 0, ty |-> 0, places |-> << >>], [i \in 1..n |-> i - 1]).places

\* The masters side by side, for both layouts with a bottom stack.
Master(c, m, mx, mh, left) == Tile(c, m, m.wx + mx, m.wy, Quot(m.ww - mx, left), mh)

bstack(cs, m, nmaster, mfact) ==
  LET n == Len(cs)
      mh == Share(n, nmaster, mfact, m.wh)
      tw == IF n > nmaster THEN m.ww \div (n - nmaster) ELSE m.ww
      ty == IF n > nmaster THEN m.wy + mh ELSE m.wy
      Step(acc, i) ==
        LET c == cs[i + 1]
            p == IF i < nmaster THEN Master(c, m, acc.mx, mh, Least(n, nmaster) - i)
                                ELSE Tile(c, m, acc.tx, ty, tw, m.wh - mh)
        IN [mx |-> IF i < nmaster THEN acc.mx + WIDTH(p, c.bw) ELSE acc.mx,
            tx |-> IF i >= nmaster /\ tw # m.ww THEN acc.tx + WIDTH(p, c.bw) ELSE acc.tx,
            places |-> Append(acc.places, p)]
  IN FoldLeft(Step, [mx |-> 0, tx |-> m.wx, places |-> << >>], [i \in 1..n |-> i - 1]).places

bstackhoriz(cs, m, nmaster, mfact) ==
  LET n == Len(cs)
      mh == Share(n, nmaster, mfact, m.wh)
      th == IF n > nmaster THEN (m.wh - mh) \div (n - nmaster) ELSE m.wh
      Step(acc, i) ==
        LET c == cs[i + 1]
            p == IF i < nmaster THEN Master(c, m, acc.mx, mh, Least(n, nmaster) - i)
                                ELSE Tile(c, m, m.wx, acc.ty, m.ww, th)
        IN [mx |-> IF i < nmaster THEN acc.mx + WIDTH(p, c.bw) ELSE acc.mx,
            ty |-> IF i >= nmaster /\ th # m.wh THEN acc.ty + HEIGHT(p, c.bw) ELSE acc.ty,
            places |-> Append(acc.places, p)]
      ty0 == IF n > nmaster THEN m.wy + mh ELSE m.wy
  IN FoldLeft(Step, [mx |-> 0, ty |-> ty0, places |-> << >>], [i \in 1..n |-> i - 1]).places

\* The least square that holds n, but two columns for five; the last columns
\* take one more.  rows grows on the way and stays.
gaplessgrid(cs, m) ==
  LET n == Len(cs)
      enough == {k \in 0..(n \div 2) : k * k >= n}
      cols == IF n = 5 THEN 2
              ELSE IF enough = {} THEN n \div 2 + 1
              ELSE CHOOSE k \in enough : \A j \in enough : k <= j
      cw == m.ww \div cols
      Step(acc, i) ==
        LET rows == IF i \div acc.rows + 1 > cols - (n % cols) THEN n \div cols + 1 ELSE acc.rows
            ch == m.wh \div rows
            full == acc.rn + 1 >= rows
        IN [rows |-> rows,
            rn |-> IF full THEN 0 ELSE acc.rn + 1, cn |-> IF full THEN acc.cn + 1 ELSE acc.cn,
            places |-> Append(acc.places, Tile(cs[i + 1], m, m.wx + acc.cn * cw, m.wy + acc.rn * ch, cw, ch))]
  IN FoldLeft(Step, [rows |-> n \div cols, rn |-> 0, cn |-> 0, places |-> << >>],
              [i \in 1..n |-> i - 1]).places

\* Everyone gets the whole area, without a border.
monocle(cs, m) == [i \in DOMAIN cs |-> Place(m.wx, m.wy, m.ww, m.wh)]

\* A single client needs no layout; without a layout the clients only get
\* their border back, and the area with it if they had none.
arrangemon(cs, m, layout, nmaster, mfact) ==
  IF layout = "float"
  THEN [i \in DOMAIN cs |-> IF cs[i].bw = borderpx THEN Place(cs[i].x, cs[i].y, cs[i].w, cs[i].h)
                            ELSE Place(m.wx, m.wy, m.ww - 2 * borderpx, m.wh - 2 * borderpx)]
  ELSE IF Len(cs) <= 1 \/ layout = "monocle" THEN monocle(cs, m)
  ELSE LET bs == [i \in DOMAIN cs |-> [cs[i] EXCEPT !.bw = borderpx]]
       IN CASE layout = "tile" -> tile(bs, m, nmaster, mfact)
            [] layout = "bstack" -> bstack(bs, m, nmaster, mfact)
            [] layout = "bstackhoriz" -> bstackhoriz(bs, m, nmaster, mfact)
            [] layout = "gaplessgrid" -> gaplessgrid(bs, m)

-----------------------------------------------------------------------------
(* Places that are asked for.                                              *)

\* A new window stays on its screen, below a bar at the top that its middle
\* might be under; without a layout, or by a rule, it is put in the middle.
manage_place(c, m, centered) ==
  LET x0 == Least(c.x, m.mx + m.mw - WIDTH(c, c.bw))
      y0 == Least(c.y, m.my + m.mh - HEIGHT(c, c.bw))
      x == Most(x0, m.mx)
      under == m.by = m.my /\ x + c.w \div 2 >= m.wx /\ x + c.w \div 2 < m.wx + m.ww
      y == Most(y0, IF under THEN bh ELSE m.my)
  IN IF centered
     THEN Place(Quot(m.mw - c.w - 2 * borderpx, 2), Quot(m.mh - c.h - 2 * borderpx, 2), c.w, c.h)
     ELSE Place(x, y, c.w, c.h)

\* A floating client that asks for a place gets it, on its screen; one that
\* would reach over its edge is put in the middle.  ev has what is asked for.
configurerequest(c, m, ev, isfloating) ==
  LET Or(f, z) == IF f \in DOMAIN ev THEN ev[f] ELSE z
      p == Place(IF "x" \in DOMAIN ev THEN m.mx + ev.x ELSE c.x,
                 IF "y" \in DOMAIN ev THEN m.my + ev.y ELSE c.y, Or("w", c.w), Or("h", c.h))
  IN [p EXCEPT
        !.x = IF isfloating /\ @ + p.w > m.mx + m.mw
              THEN m.mx + m.mw \div 2 - WIDTH(p, c.bw) \div 2 ELSE @,
        !.y = IF isfloating /\ @ + p.h > m.my + m.mh
              THEN m.my + m.mh \div 2 - HEIGHT(p, c.bw) \div 2 ELSE @]

Near(a, b) == (IF a > b THEN a - b ELSE b - a) < snap
Far(a, b) == (IF a > b THEN a - b ELSE b - a) > snap
Snapped(x, size, low, high) ==
  IF Near(low, x) THEN low ELSE IF Near(high, x + size) THEN high - size ELSE x

\* The place the mouse has dragged a client to: at the edge when it is near
\* one; and whether a tiled client has come far enough to float.
movemouse_place(c, m, x, y) ==
  IF x >= m.wx /\ x <= m.wx + m.ww /\ y >= m.wy /\ y <= m.wy + m.wh
  THEN Place(Snapped(x, WIDTH(c, c.bw), m.wx, m.wx + m.ww),
             Snapped(y, HEIGHT(c, c.bw), m.wy, m.wy + m.wh), c.w, c.h)
  ELSE Place(x, y, c.w, c.h)

movemouse_floats(c, m, x, y) ==
  LET p == movemouse_place(c, m, x, y)
  IN /\ x >= m.wx /\ x <= m.wx + m.ww /\ y >= m.wy /\ y <= m.wy + m.wh
     /\ Far(p.x, c.x) \/ Far(p.y, c.y)

\* The size of a client whose corner the mouse holds at x, y.
resizemouse_size(c, x, y) ==
  Place(c.x, c.y, Most(x - c.x - 2 * c.bw + 1, 1), Most(y - c.y - 2 * c.bw + 1, 1))

resizemouse_floats(c, m, selm, x, y) ==
  LET p == resizemouse_size(c, x, y)
  IN /\ m.wx + p.w >= selm.wx /\ m.wx + p.w <= selm.wx + selm.ww
     /\ m.wy + p.h >= selm.wy /\ m.wy + p.h <= selm.wy + selm.wh
     /\ Far(p.w, c.w) \/ Far(p.h, c.h)

-----------------------------------------------------------------------------
(* What the layouts promise, for clients without size hints.               *)

Outer(c, layout, p) ==
  IF layout = "monocle" THEN p ELSE Place(p.x, p.y, WIDTH(p, c.bw), HEIGHT(p, c.bw))
Inside(p, m) == p.x >= m.wx /\ p.x + p.w <= m.wx + m.ww /\ p.y >= m.wy /\ p.y + p.h <= m.wy + m.wh
Apart(p, q) == p.x + p.w <= q.x \/ q.x + q.w <= p.x \/ p.y + p.h <= q.y \/ q.y + q.h <= p.y
Areas(ps) == FoldLeft(LAMBDA a, p : a + p.w * p.h, 0, ps)

\* n clients with a border on the screen m.
Clients(n) ==
  [i \in 1..n |-> [x |-> 0, y |-> 0, w |-> 50, h |-> 50, bw |-> borderpx]]
Laid(n, m, layout, nmaster, mfact) ==
  LET cs == Clients(n)
      ps == arrangemon(cs, m, layout, nmaster, mfact)
  IN [i \in 1..n |-> IF n = 1 THEN ps[i] ELSE Outer(cs[i], layout, ps[i])]

\* No two tiled windows overlap and none leaves the area of its screen, as
\* long as no place is smaller than the least one, the height of the bar;
\* the tiled layout leaves nothing of the area free.
LayoutFits(n, m, layout, nmaster, mfact) ==
  LET ps == Laid(n, m, layout, nmaster, mfact)
      least == bh + 2 * borderpx
      wide == \A i \in 1..n : ps[i].w > least /\ ps[i].h > least
  IN wide =>
       /\ \A i \in 1..n : Inside(ps[i], m)
       /\ layout # "monocle" => \A i \in 1..n : \A j \in 1..i - 1 : Apart(ps[i], ps[j])
       /\ layout = "tile" /\ (nmaster > 0 \/ n > 1) => Areas(ps) = m.ww * m.wh

\* A new window that fits on its screen is on it as a whole.
PlaceFits(c, m) ==
  WIDTH(c, c.bw) <= m.mw /\ HEIGHT(c, c.bw) + bh <= m.mh =>
    LET p == manage_place(c, m, FALSE)
    IN p.x >= m.mx /\ p.x + WIDTH(c, c.bw) <= m.mx + m.mw
       /\ p.y >= m.my /\ p.y + HEIGHT(c, c.bw) <= m.my + m.mh

\* A window that was moved with the mouse is where the mouse has put it, but
\* for less than snap pixels.
SnapNear(c, m, x, y) ==
  LET p == movemouse_place(c, m, x, y)
  IN (p.x = x \/ Near(p.x, x)) /\ (p.y = y \/ Near(p.y, y))

\* A size that respects the hints is left as it is, and fitting a size a
\* second time changes nothing.
HintsIdempotent(w, h, hints) ==
  LET s == hinted(w, h, hints) IN hinted(s[1], s[2], hints) = s

=============================================================================
