------------------------------- MODULE MCDwm -------------------------------
(* Two windows, the second a dialog of the first, over two tags and up to   *)
(* two screens.                                                             *)
EXTENDS Dwm

CONSTANTS a, b

MCTagLayout == <<"monocle", "tile">>
MCRules == <<[matches |-> {a}, tags |-> {2}, isfloating |-> FALSE, monitor |-> 1]>>
MCTransientFor == [w \in Window |-> IF w = b THEN a ELSE None]
AHint(urgent, nofocus) == [urgent |-> urgent, nofocus |-> nofocus]
MCHints == [w \in Window |-> IF w = a THEN {AHint(FALSE, FALSE)}
                             ELSE {AHint(FALSE, FALSE), AHint(TRUE, FALSE), AHint(FALSE, TRUE)}]

-----------------------------------------------------------------------------
(* The geometry, over the sizes of real screens and some small ones.       *)
L == INSTANCE DwmLayouts WITH bh <- 14, borderpx <- 2, snap <- 32, sw <- 1366, sh <- 768

Screen(x, y, w, h) ==
  [mx |-> x, my |-> y, mw |-> w, mh |-> h, wx |-> x, wy |-> y, ww |-> w, wh |-> h, by |-> 0]
Screens == {L!updatebarpos(Screen(x, 0, s[1], s[2]), bar, FALSE) :
              x \in {0, 1366}, s \in {<<1366, 768>>, <<641, 481>>, <<97, 101>>}, bar \in BOOLEAN}

ASSUME LayoutsFit ==
  \A m \in Screens : \A n \in 1..9 : \A nmaster \in 0..3 : \A mfact \in {10, 55, 90} :
    \A layout \in Layouts \ {"float"} : L!LayoutFits(n, m, layout, nmaster, mfact)

Asked(x, y, w, h) == [x |-> x, y |-> y, w |-> w, h |-> h, bw |-> 2]
ASSUME PlacesFit ==
  \A m \in Screens : \A x, y \in {-40, 0, 300, 1400} : \A w, h \in {1, 60, 500} :
    L!PlaceFits(Asked(x, y, w, h), m)

ASSUME SnapsNear ==
  \A m \in Screens : \A x, y \in {-40, -31, 0, 31, 32, 40, 63, 600, 610} :
    L!SnapNear(Asked(0, 0, 60, 500), m, x, y)

Sizes == {[base |-> <<10, 5>>, inc |-> <<7, 13>>],
          [min |-> <<40, 40>>, max |-> <<200, 90>>],
          [base |-> <<4, 4>>, min |-> <<18, 30>>, inc |-> <<7, 13>>, max |-> <<158, 160>>]}
ASSUME HintsFit ==
  \A size \in Sizes : \A w, h \in {14, 40, 77, 300} :
    L!HintsIdempotent(w, h, L!updatesizehints(size))

\* Every point of a window area is found on its own screen.
ASSUME PointsFound ==
  LET mons == <<L!updatebarpos(Screen(0, 0, 97, 101), TRUE, FALSE), L!updatebarpos(Screen(97, 0, 97, 101), FALSE, FALSE)>>
  IN \A x \in {0, 96, 97, 193} : \A y \in {0, 86} : \A s \in 1..2 :
       L!recttomon(mons, s, L!Place(x, y, 1, 1)) = IF x < 97 THEN 1 ELSE 2

=============================================================================
