--------------------------------- MODULE Dwm ---------------------------------
(***************************************************************************)
(* The window manager dwm60cf: screens with their tags and settings, the   *)
(* clients on them, and the handlers of X events, keys and buttons.  The   *)
(* program is one loop that runs one handler at a time, so a handler is an *)
(* operator from states to states and an action applies it.  What is       *)
(* concurrent is the X server: windows come, go and take the focus while   *)
(* the events that say so are still queued, and a drag takes its events    *)
(* out of the order of the queue.  Geometry is in DwmLayouts; colours,     *)
(* text and the properties that only other programs read are left out.     *)
(***************************************************************************)
EXTENDS Integers, Sequences, FiniteSets, SequencesExt, FiniteSetsExt

CONSTANTS
  Window,       \* the windows of other programs
  None,         \* NULL
  Root,         \* the root window, which has the focus when no client has
  PointerRoot,  \* where the focus reverts to when its window goes away
  TAGS,         \* the number of tags
  TagLayout,    \* the layout of each tag, from config.h
  Rules,        \* the rules of config.h, as the windows each matches
  TransientFor, \* the window a dialog belongs to, or None
  FixedSize,    \* the windows whose size hints leave one size at first
  Dialog,       \* the windows of type dialog
  StartsFull,   \* the windows that ask for the full screen before they are mapped
  Hints,        \* the hints a window may give: urgent, no keyboard wanted
  Heads,        \* the numbers of screens that may be plugged in
  KeyLayouts,   \* the layouts that are asked for by key
  MfactStep,    \* the steps of the master area, in hundredths
  MaxMaster,    \* bound: windows in the master area
  MaxQueue,     \* bound: events that wait
  MaxInputs     \* bound: what users and programs do in one behaviour, where a
                \* change of a setting, new size hints and a sent event
                \* count twice, and a window unmapped at the start once

Tags == 1..TAGS
Layouts == {"tile", "float", "monocle", "bstack", "bstackhoriz", "gaplessgrid"}

Client ==
  [mon : Nat, tags : SUBSET Tags, isfloating : BOOLEAN, isfixed : BOOLEAN,
   isfullscreen : BOOLEAN, oldstate : BOOLEAN, isurgent : BOOLEAN, neverfocus : BOOLEAN]

\* A rule for any screen has the monitor -1.
Rule == [matches : SUBSET Window, tags : SUBSET Nat, isfloating : BOOLEAN, monitor : Int]
Hint == [urgent : BOOLEAN, nofocus : BOOLEAN]

\* What config.h and the X protocol allow.
ASSUME DwmAssumption ==
  /\ TAGS \in 1..31
  /\ TagLayout \in [Tags -> Layouts]
  /\ KeyLayouts \subseteq Layouts
  /\ None \notin Window \cup Client \cup Layouts
  /\ Root \notin Window /\ PointerRoot \notin Window
  /\ IsFiniteSet(Window)
  /\ Rules \in Seq(Rule)
  /\ TransientFor \in [Window -> Window \cup {None}]
  /\ Hints \in [Window -> SUBSET Hint]
  /\ Heads \subseteq Nat \ {0}
  /\ MfactStep \subseteq Int

VARIABLES
  wm,     \* what dwm keeps, and what its calls change in the X server:
          \*   mons, selmon   the screens in their order, the selected one
          \*   cl             the clients
          \*   input          the window that has the keyboard
          \*   viewable       the windows that are mapped
          \*   run            starting, running, quit, crashed
  there,  \* the windows that exist
  queue,  \* the events about windows that dwm has not read
  drag,   \* the client that is moved or resized with the mouse
  left    \* how much users and programs may still do

vars == <<wm, there, queue, drag, left>>

-----------------------------------------------------------------------------
(* Screens and clients.                                                    *)

\* A tag given by a key is one bit; ~0 has bits that are no tags.
Everything == Tags \cup {0}
Lowest(tags) == CHOOSE t \in tags : \A u \in tags : t <= u

\* The settings a tag has: the number of masters, their share, two layouts
\* of which one is selected, the bar.
Settings(cur, prev) ==
  [nmaster |-> 1, mfact |-> 55, sellt |-> 0, showbar |-> TRUE,
   lt |-> [i \in 0..1 |-> IF i = 0 THEN cur ELSE prev]]

createmon ==
  [seltags |-> 0, tagset |-> [i \in 0..1 |-> {1}], cur |-> 1, prev |-> 1,
   set |-> Settings(TagLayout[1], "float"),
   per |-> [t \in 0..TAGS |-> IF t = 0 THEN Settings("gaplessgrid", "monocle")
                                       ELSE Settings(TagLayout[t], "float")],
   clients |-> << >>, stack |-> << >>, sel |-> None]

ViewOf(m) == m.tagset[m.seltags]
Layout(m) == m.set.lt[m.set.sellt]
SelMon(d) == d.mons[d.selmon]
Sel(d) == SelMon(d).sel
Managed(d) == {w \in Window : d.cl[w] # None}
MonOf(d, c) == d.mons[d.cl[c].mon]

\* Mutant: only the selected screen is searched.
wintoclient_here(d, w) == IF d.cl[w] # None /\ d.cl[w].mon = d.selmon THEN w ELSE None

wintoclient(d, w) == IF d.cl[w] # None THEN w ELSE None

ISVISIBLE(d, c) == d.cl[c].tags \cap ViewOf(MonOf(d, c)) # {}
Visible(d) == {c \in Managed(d) : ISVISIBLE(d, c)}
Tiled(d) == {c \in Visible(d) : ~d.cl[c].isfloating}

\* Walking down a list to a client of C, or to NULL.
FirstIn(s, C) ==
  LET at == {i \in DOMAIN s : s[i] \in C} IN IF at = {} THEN None ELSE s[Lowest(at)]
Place(s, c) == CHOOSE i \in DOMAIN s : s[i] = c
After(s, c) == SubSeq(s, Place(s, c) + 1, Len(s))

FirstVisible(d, i) == FirstIn(d.mons[i].stack, Visible(d))
nexttiled(d, s) == FirstIn(s, Tiled(d))

-----------------------------------------------------------------------------
(* The parts handlers are made of.                                         *)

attach(d, c) == [d EXCEPT !.mons[d.cl[c].mon].clients = <<c>> \o @]
detach(d, c) == [d EXCEPT !.mons[d.cl[c].mon].clients = RemoveAt(@, Place(@, c))]
attachstack(d, c) == [d EXCEPT !.mons[d.cl[c].mon].stack = <<c>> \o @]

detachstack(d, c) ==
  LET i == d.cl[c].mon
      d1 == [d EXCEPT !.mons[i].stack = RemoveAt(@, Place(@, c))]
  IN IF d.mons[i].sel = c THEN [d1 EXCEPT !.mons[i].sel = FirstVisible(d1, i)] ELSE d1

\* The count in the bar of a floating or monocle screen looks at the window
\* of the selected client whether there is one or not.
Blind(d, i) ==
  /\ Layout(d.mons[i]) \in {"monocle", "float"}
  /\ Range(d.mons[i].clients) \cap Visible(d) # {}
  /\ Sel(d) = None

drawbar(d, i) == IF Blind(d, i) THEN [d EXCEPT !.run = "crashed"] ELSE d

drawbars(d) ==
  IF \E i \in DOMAIN d.mons : Blind(d, i) THEN [d EXCEPT !.run = "crashed"] ELSE d

\* X refuses the focus to a window that is not mapped; dwm ignores the error.
setfocus(d, c) ==
  IF d.cl[c].neverfocus \/ c \notin d.viewable THEN d ELSE [d EXCEPT !.input = c]

unfocus(d, c) == IF c = None THEN d ELSE [d EXCEPT !.input = Root]

\* c comes to the top of its history and has the keyboard, or nobody has.
Raise(d, c) ==
  IF c = None THEN [d EXCEPT !.input = Root]
  ELSE LET d1 == [d EXCEPT !.selmon = d.cl[c].mon, !.cl[c].isurgent = FALSE]
       IN setfocus(attachstack(detachstack(d1, c), c), c)

Select(d, c) == drawbars([d EXCEPT !.mons[d.selmon].sel = c])

focus(d, c0) ==
  LET c == IF c0 # None /\ ISVISIBLE(d, c0) THEN c0 ELSE FirstVisible(d, d.selmon)
  IN Select(Raise(d, c), c)

\* Where the windows go is in DwmLayouts; restack starts with the bar.
arrange(d, i) == drawbar(d, i)
arrange_all(d) == drawbars(d)

pop(d, c) == LET d1 == focus(attach(detach(d, c), c), c) IN arrange(d1, d1.cl[c].mon)

\* Mutant: the client stays in the focus history of its old screen.
sendmon_half(d, c, i) ==
  IF d.cl[c].mon = i THEN d
  ELSE LET d1 == [detach(unfocus(d, c), c) EXCEPT
                    !.cl[c].mon = i, !.cl[c].tags = ViewOf(d.mons[i])]
       IN arrange_all(focus(attachstack(attach(d1, c), c), None))

sendmon(d, c, i) ==
  IF d.cl[c].mon = i THEN d
  ELSE LET d1 == [detachstack(detach(unfocus(d, c), c), c) EXCEPT
                    !.cl[c].mon = i, !.cl[c].tags = ViewOf(d.mons[i])]
       IN arrange_all(focus(attachstack(attach(d1, c), c), None))

\* The next screen after or before the selected one, in a circle.
dirtomon(d, dir) == ((d.selmon - 1 + dir) % Len(d.mons)) + 1

setfullscreen(d, c, full) ==
  IF full
  THEN [d EXCEPT !.cl[c].isfullscreen = TRUE, !.cl[c].oldstate = d.cl[c].isfloating,
                 !.cl[c].isfloating = TRUE]
  ELSE arrange([d EXCEPT !.cl[c].isfullscreen = FALSE,
                         !.cl[c].isfloating = d.cl[c].oldstate], d.cl[c].mon)

togglefloating(d) ==
  IF Sel(d) = None THEN d
  ELSE arrange([d EXCEPT !.cl[Sel(d)].isfloating = ~@ \/ d.cl[Sel(d)].isfixed], d.selmon)

togglebar(d) ==
  LET show == ~SelMon(d).set.showbar
  IN arrange([d EXCEPT !.mons[d.selmon].set.showbar = show,
                       !.mons[d.selmon].per[SelMon(d).cur].showbar = show], d.selmon)

-----------------------------------------------------------------------------
(* Windows that come and go.                                               *)

\* Every rule that matches adds its tags; the last one decides the rest, the
\* last that names a screen there is the screen.
applyrules(d, w) ==
  LET hits == {i \in DOMAIN Rules : w \in Rules[i].matches}
      placed == {i \in hits : Rules[i].monitor + 1 \in DOMAIN d.mons}
      mon == IF placed = {} THEN d.selmon ELSE Rules[Max(placed)].monitor + 1
      tags == (UNION {Rules[i].tags : i \in hits}) \cap Tags
  IN [tags |-> IF tags = {} THEN ViewOf(d.mons[mon]) ELSE tags,
      isfloating |-> hits # {} /\ Rules[Max(hits)].isfloating,
      mon |-> mon]

updatewindowtype(d, c, full) ==
  LET d1 == IF full THEN setfullscreen(d, c, TRUE) ELSE d
  IN IF c \in Dialog THEN [d1 EXCEPT !.cl[c].isfloating = TRUE] ELSE d1

\* The selected client is not urgent: its hint is taken back.
updatewmhints(d, c, hint) ==
  [d EXCEPT !.cl[c].isurgent = IF c = Sel(d) /\ hint.urgent THEN @ ELSE hint.urgent,
            !.cl[c].neverfocus = hint.nofocus]

\* A window that belongs to another one goes where that one is.
NewClient(d, w) ==
  LET t == IF TransientFor[w] = None THEN None ELSE wintoclient(d, TransientFor[w])
      at == IF t # None THEN [tags |-> d.cl[t].tags, isfloating |-> FALSE, mon |-> d.cl[t].mon]
                        ELSE applyrules(d, w)
  IN [mon |-> at.mon, tags |-> at.tags, isfloating |-> at.isfloating,
      isfixed |-> w \in FixedSize, isfullscreen |-> FALSE, oldstate |-> FALSE,
      isurgent |-> FALSE, neverfocus |-> FALSE]

\* It floats there, as does one of a fixed size.
Prepared(d, w, hint) ==
  LET d1 == updatewindowtype([d EXCEPT !.cl[w] = NewClient(d, w)], w, w \in StartsFull)
      d2 == updatewmhints(d1, w, hint)
      floats == TransientFor[w] # None \/ w \in FixedSize
  IN IF d2.cl[w].isfloating THEN d2
     ELSE [d2 EXCEPT !.cl[w].isfloating = floats, !.cl[w].oldstate = floats]

manage(d, w, hint) ==
  LET d1 == Prepared(d, w, hint)
      i == d1.cl[w].mon
      d2 == arrange([attachstack(attach(d1, w), w) EXCEPT !.mons[i].sel = w], i)
  IN focus([d2 EXCEPT !.viewable = @ \cup {w}], None)

\* Mutant: what is selected next is not focused.
unmanage_quiet(d, c) ==
  LET i == d.cl[c].mon
      d1 == [detachstack(detach(d, c), c) EXCEPT !.cl[c] = None]
  IN arrange(d1, i)

unmanage(d, c) ==
  LET i == d.cl[c].mon
      d1 == [detachstack(detach(d, c), c) EXCEPT !.cl[c] = None]
  IN arrange(focus(d1, None), i)

\* At the start: the windows one after the other.
Scanned(d, wins, hints) ==
  LET after[k \in 0..Len(wins)] ==
        IF k = 0 THEN d ELSE manage(after[k - 1], wins[k], hints[wins[k]])
  IN after

scan(d, wins, hints) == Scanned(d, wins, hints)[Len(wins)]

-----------------------------------------------------------------------------
(* Keys and buttons.                                                       *)

\* Mutant: the bar follows before the current tag has changed.
apply_view_early(d) ==
  LET m == SelMon(d)
      p == m.per[m.cur]
      d1 == [d EXCEPT !.mons[d.selmon].set = [p EXCEPT !.showbar = m.set.showbar],
                      !.mons[d.selmon].cur = m.prev]
      d2 == IF p.showbar # m.set.showbar THEN togglebar(d1) ELSE d1
      d3 == [d2 EXCEPT !.mons[d.selmon].cur = m.cur]
  IN arrange(focus(d3, None), d.selmon)

\* A view brings the settings of its current tag; the bar by its own key.
apply_view(d) ==
  LET m == SelMon(d)
      p == m.per[m.cur]
      d1 == [d EXCEPT !.mons[d.selmon].set = [p EXCEPT !.showbar = m.set.showbar]]
      d2 == IF p.showbar # m.set.showbar THEN togglebar(d1) ELSE d1
  IN arrange(focus(d2, None), d.selmon)

\* No tag at all is the way back to the tags before.
view(d, arg) ==
  LET m == SelMon(d)
      back == arg \cap Tags = {}
      s == 1 - m.seltags
      cur == IF back THEN m.prev ELSE IF arg = Everything THEN 0 ELSE Lowest(arg)
      new == [m EXCEPT !.seltags = s, !.tagset[s] = IF back THEN @ ELSE arg \cap Tags,
                       !.prev = m.cur, !.cur = cur]
  IN IF arg \cap Tags = ViewOf(m) THEN d ELSE apply_view([d EXCEPT !.mons[d.selmon] = new])

\* With all tags in view the current tag is 0, and the bit in front of the
\* first is undefined: it may count as in the new view or not.
toggleview(d, arg, undefined) ==
  LET m == SelMon(d)
      new == SymDiff(ViewOf(m), arg \cap Tags)
      keep == IF m.cur = 0 THEN undefined ELSE m.cur \in new
      m1 == [m EXCEPT !.tagset[m.seltags] = new]
      m2 == IF keep THEN m1 ELSE [m1 EXCEPT !.prev = m.cur, !.cur = Lowest(new)]
  IN IF new = {} THEN d ELSE apply_view([d EXCEPT !.mons[d.selmon] = m2])

tag(d, arg) ==
  IF Sel(d) = None \/ arg \cap Tags = {} THEN d
  ELSE arrange(focus([d EXCEPT !.cl[Sel(d)].tags = arg \cap Tags], None), d.selmon)

\* Mutant: the last tag of a client can be taken away.
toggletag_any(d, arg) ==
  LET c == Sel(d)
      new == SymDiff(d.cl[c].tags, arg \cap Tags)
  IN IF c = None THEN d ELSE arrange(focus([d EXCEPT !.cl[c].tags = new], None), d.selmon)

toggletag(d, arg) ==
  LET c == Sel(d)
      new == SymDiff(d.cl[c].tags, arg \cap Tags)
  IN IF c = None THEN d
     ELSE IF new = {} THEN d
     ELSE arrange(focus([d EXCEPT !.cl[c].tags = new], None), d.selmon)

tagmon(d, dir) ==
  IF Sel(d) = None \/ Len(d.mons) = 1 THEN d ELSE sendmon(d, Sel(d), dirtomon(d, dir))

focusmon(d, dir) ==
  IF Len(d.mons) = 1 THEN d
  ELSE focus([unfocus(d, Sel(d)) EXCEPT !.selmon = dirtomon(d, dir)], None)

restack(d) == drawbar(d, d.selmon)

focusstack(d, dir) ==
  LET clients == SelMon(d).clients
      at == Place(clients, Sel(d))
      order == IF dir > 0 THEN After(clients, Sel(d)) \o clients
               ELSE Reverse(SubSeq(clients, 1, at - 1)) \o Reverse(SubSeq(clients, at, Len(clients)))
      c == FirstIn(order, Visible(d))
  IN IF Sel(d) = None \/ c = None THEN d ELSE restack(focus(d, c))

\* The count goes over the hidden clients too.
focusnstack(d, n) ==
  LET clients == SelMon(d).clients
  IN IF Sel(d) = None \/ n \notin DOMAIN clients THEN d
     ELSE IF ~ISVISIBLE(d, clients[n]) THEN d
     ELSE restack(focus(d, clients[n]))

\* pop reads the screen of the client it is given, of NULL too.
zoom(d) ==
  LET clients == SelMon(d).clients
      c == nexttiled(d, clients)
      next == IF c = None THEN None ELSE nexttiled(d, After(clients, c))
  IN IF Layout(SelMon(d)) = "float" THEN d
     ELSE IF Sel(d) = None THEN IF c = None THEN d ELSE [d EXCEPT !.run = "crashed"]
     ELSE IF d.cl[Sel(d)].isfloating THEN d
     ELSE IF Sel(d) # c THEN pop(d, Sel(d))
     ELSE IF next = None THEN d ELSE pop(d, next)

\* Without a layout, or with another one, the other of the two is selected;
\* a layout that is given takes its place.
setlayout(d, layout) ==
  LET m == SelMon(d)
      p == m.per[m.cur]
      s == IF layout # Layout(m) THEN 1 - p.sellt ELSE m.set.sellt
      q == [p EXCEPT !.sellt = IF layout # Layout(m) THEN s ELSE @,
                     !.lt[s] = IF layout = None THEN @ ELSE layout]
      new == [m EXCEPT !.per[m.cur] = q, !.set.sellt = s, !.set.lt[s] = q.lt[s]]
  IN arrange([d EXCEPT !.mons[d.selmon] = new], d.selmon)

setmfact(d, step) ==
  LET m == SelMon(d)
      f == m.set.mfact + step
      new == [m EXCEPT !.set.mfact = f, !.per[m.cur].mfact = f]
  IN IF Layout(m) = "float" \/ f < 10 \/ f > 90 THEN d
     ELSE arrange([d EXCEPT !.mons[d.selmon] = new], d.selmon)

incnmaster(d, n) ==
  LET m == SelMon(d)
      k == IF m.set.nmaster + n < 0 THEN 0 ELSE m.set.nmaster + n
      new == [m EXCEPT !.set.nmaster = k, !.per[m.cur].nmaster = k]
  IN arrange([d EXCEPT !.mons[d.selmon] = new], d.selmon)

togglefullscr(d) ==
  IF Sel(d) = None THEN d ELSE setfullscreen(d, Sel(d), ~d.cl[Sel(d)].isfullscreen)

\* The tags of the window with the focus, viewed on the selected screen.
winview(d) == IF d.input \notin Managed(d) THEN d ELSE view(d, d.cl[d.input].tags)

\* Every client is let go, screen by screen from the top of its history.
Released(d) ==
  LET Held(s) == {i \in DOMAIN s.mons : s.mons[i].stack # << >>}
      after[k \in 0..Cardinality(Window)] ==
        IF k = 0 THEN d
        ELSE IF Held(after[k - 1]) = {} THEN after[k - 1]
        ELSE unmanage(after[k - 1], after[k - 1].mons[Lowest(Held(after[k - 1]))].stack[1])
  IN after

\* All tags are in view, and there is no layout.
cleanup(d) ==
  LET d1 == view(d, Everything)
      d2 == [d1 EXCEPT !.mons[d1.selmon].set.lt[SelMon(d1).set.sellt] = "float"]
      d3 == Released(d2)[Cardinality(Window)]
  IN [d3 EXCEPT !.run = IF @ = "crashed" THEN @ ELSE "quit", !.input = PointerRoot]

-----------------------------------------------------------------------------
(* Screens that are plugged in and out.                                    *)

\* The clients of a screen that is gone go to the first one, one after the
\* other, and keep tags that need not be in view there.
RemoveLast(d) ==
  LET i == Len(d.mons)
      orphans == d.mons[i].clients
      first == [d.mons[1] EXCEPT !.clients = Reverse(orphans) \o @,
                                 !.stack = Reverse(orphans) \o @]
  IN [d EXCEPT !.mons = [Front(@) EXCEPT ![1] = first],
               !.cl = [c \in Window |-> IF c \in Range(orphans)
                                        THEN [d.cl[c] EXCEPT !.mon = 1] ELSE d.cl[c]],
               !.selmon = IF @ = i THEN 1 ELSE @]

Shrunk(d, n) ==
  LET after[k \in 0..n] == IF k = 0 THEN d ELSE RemoveLast(after[k - 1])
  IN after

\* n screens now; moved says that the place of one of them has changed,
\* which nobody looks at when there are fewer.
updategeom(d, n, moved, pointer) ==
  LET old == Len(d.mons)
      grown == [d EXCEPT !.mons = @ \o [i \in 1..(n - old) |-> createmon]]
      dirty == \/ n > old
               \/ n = old /\ moved
               \/ \E i \in n + 1..old : d.mons[i].clients # << >>
      new == IF n >= old THEN grown ELSE Shrunk(d, old - n)[old - n]
  IN [dirty |-> dirty, d |-> IF dirty THEN [new EXCEPT !.selmon = pointer] ELSE new]

-----------------------------------------------------------------------------
(* The loop.  Keys, buttons and the pointer come at any time between two   *)
(* handlers; events about windows wait in the queue.                       *)

Event(type, w) == [type |-> type, win |-> w]
Pending(w, types) == \E i \in DOMAIN queue : queue[i].win = w /\ queue[i].type \in types

Idle == wm.run = "running" /\ drag = None

Does(d) ==
  /\ wm' = d
  /\ left' = left - 1
  /\ UNCHANGED <<there, queue, drag>>

Init ==
  /\ there \in SUBSET Window
  /\ \E n \in Heads : \E s \in 1..n : \E wins \in SUBSET there :
       wm = [mons |-> [i \in 1..n |-> createmon], selmon |-> s,
             cl |-> [w \in Window |-> None], input |-> Root,
             viewable |-> wins, run |-> "starting"]
  /\ queue = << >>
  /\ drag = None
  /\ left = MaxInputs - Cardinality(there \ wm.viewable)

\* The windows that are mapped, or that an earlier manager has left as icons,
\* are managed in their order, those that stand alone first.  One that has been
\* unmapped since the start is no icon.
Scan ==
  /\ wm.run = "starting"
  /\ \E icons \in SUBSET {w \in there \ wm.viewable : ~Pending(w, {"UnmapNotify"})} :
       \E wins \in SetToSeqs(wm.viewable \cup icons), hints \in [wm.viewable \cup icons -> Hint] :
         /\ \A i, j \in DOMAIN wins :
              TransientFor[wins[i]] # None /\ TransientFor[wins[j]] = None => j < i
         /\ \A w \in DOMAIN hints : hints[w] \in Hints[w]
         /\ wm' = scan([wm EXCEPT !.run = "running"], wins, hints)
  /\ UNCHANGED <<there, queue, drag, left>>

(* What the server and the other programs do meanwhile.                    *)

Reverts(w) == IF wm.input = w THEN PointerRoot ELSE wm.input
Alive == wm.run \in {"starting", "running"} /\ left > 0 /\ Len(queue) + 2 <= MaxQueue

\* A program maps a window: the server asks dwm instead.  An identifier is
\* used again only when nothing is left of its window.
Map(w) ==
  /\ Alive /\ w \notin wm.viewable /\ ~Pending(w, {"MapRequest"})
  /\ w \notin there => wm.cl[w] = None /\ ~Pending(w, {"UnmapNotify", "SentUnmapNotify", "DestroyNotify", "FocusIn"})
  /\ there' = there \cup {w}
  /\ queue' = Append(queue, Event("MapRequest", w))
  /\ left' = left - 1
  /\ UNCHANGED <<wm, drag>>

Unmap(w) ==
  /\ Alive /\ w \in wm.viewable
  /\ wm' = [wm EXCEPT !.viewable = @ \ {w}, !.input = Reverts(w)]
  /\ queue' = Append(queue, Event("UnmapNotify", w))
  /\ left' = left - 1
  /\ UNCHANGED <<there, drag>>

Destroy(w) ==
  /\ Alive /\ w \in there
  /\ there' = there \ {w}
  /\ wm' = [wm EXCEPT !.viewable = @ \ {w}, !.input = Reverts(w)]
  /\ queue' = queue \o (IF w \in wm.viewable THEN <<Event("UnmapNotify", w)>> ELSE << >>)
                    \o <<Event("DestroyNotify", w)>>
  /\ left' = left - 1
  /\ UNCHANGED drag

\* A program gives itself the keyboard.
Steal(w) ==
  /\ Alive /\ w \in wm.viewable /\ wm.input # w
  /\ wm' = [wm EXCEPT !.input = w]
  /\ queue' = Append(queue, Event("FocusIn", w))
  /\ left' = left - 1
  /\ UNCHANGED <<there, drag>>

\* A program says itself that its window is unmapped, as one does that
\* withdraws it.
Withdraw(w) ==
  /\ Alive /\ left > 1 /\ w \in there
  /\ queue' = Append(queue, Event("SentUnmapNotify", w))
  /\ left' = left - 2
  /\ UNCHANGED <<wm, there, drag>>

(* The handlers of the events that wait.                                   *)

\* A window that is gone has no attributes any more.
maprequest(w) ==
  IF w \notin there \/ wintoclient(wm, w) # None
  THEN wm' = wm
  ELSE \E hint \in Hints[w] : wm' = manage(wm, w, hint)

\* Mutant: an unmapped window is forgotten only where the user looks.
unmapnotify_here(w, sent) ==
  wm' = IF sent \/ wintoclient_here(wm, w) = None THEN wm ELSE unmanage(wm, w)

\* What a program sends only changes a property of its window.
unmapnotify(w, sent) ==
  wm' = IF sent \/ wintoclient(wm, w) = None THEN wm ELSE unmanage(wm, w)
destroynotify(w) == wm' = IF wintoclient(wm, w) = None THEN wm ELSE unmanage(wm, w)

\* A client that was not selected has taken the keyboard.
focusin(w) == wm' = IF Sel(wm) \notin {None, w} THEN setfocus(wm, Sel(wm)) ELSE wm

run ==
  /\ Idle /\ queue # << >>
  /\ LET e == Head(queue)
     IN \/ e.type = "MapRequest" /\ maprequest(e.win)
        \/ /\ e.type \in {"UnmapNotify", "SentUnmapNotify"}
           /\ unmapnotify(e.win, e.type = "SentUnmapNotify")
        \/ e.type = "DestroyNotify" /\ destroynotify(e.win)
        \/ e.type = "FocusIn" /\ focusin(e.win)
  /\ queue' = Tail(queue)
  /\ UNCHANGED <<there, drag, left>>

(* The pointer.  c is None where there is no client.                       *)

\* Into a client, or into the root window or the bar of a screen.
enternotify(d, c, i) ==
  LET d1 == [unfocus(d, Sel(d)) EXCEPT !.selmon = i]
  IN IF i # d.selmon THEN focus(d1, c)
     ELSE IF c \in {None, Sel(d)} THEN d ELSE focus(d, c)

EnterNotify ==
  /\ Idle /\ left > 0
  /\ \/ \E c \in Managed(wm) : Does(enternotify(wm, c, wm.cl[c].mon))
     \/ \E i \in DOMAIN wm.mons : Does(enternotify(wm, None, i))

\* Over the root window from one screen into another: the client that was
\* selected keeps the border of a selected one.
MotionNotify ==
  /\ Idle /\ left > 0
  /\ \E i \in DOMAIN wm.mons : Does(focus([wm EXCEPT !.selmon = i], None))

\* A press on another screen selects that screen first.
clicked(d, i) == IF i = d.selmon THEN d ELSE focus([unfocus(d, Sel(d)) EXCEPT !.selmon = i], None)

\* The tags that have a label: those in view and those of some client, but
\* for clients that have the first eight.
Labels(d, i) ==
  ViewOf(d.mons[i]) \cup
  UNION {d.cl[c].tags : c \in {x \in Range(d.mons[i].clients) : d.cl[x].tags # 1..8}}

ButtonPress ==
  /\ Idle /\ left > 0
  /\ \/ \E i \in DOMAIN wm.mons : \E t \in Labels(clicked(wm, i), i) :
          \/ Does(view(clicked(wm, i), {t}))
          \/ \E u \in BOOLEAN : Does(toggleview(clicked(wm, i), {t}, u))
          \/ Does(tag(clicked(wm, i), {t}))
          \/ Does(toggletag(clicked(wm, i), {t}))
     \/ \E i \in DOMAIN wm.mons :
          \/ Does(zoom(clicked(wm, i)))
          \/ Does(clicked(wm, i))
     \/ \E c \in Managed(wm) :
          LET d == focus(clicked(wm, wm.cl[c].mon), c)
          IN Does(d) \/ Does(togglefloating(d))

\* movemouse and resizemouse: the pointer is grabbed for the selected client.
StartDrag ==
  /\ Idle /\ left > 0
  /\ \E c \in Managed(wm) :
       LET d == focus(clicked(wm, wm.cl[c].mon), c)
       IN Sel(d) # None /\ wm' = restack(d) /\ drag' = Sel(d)
  /\ left' = left - 1
  /\ UNCHANGED <<there, queue>>

\* The loop of a drag reads the requests to map out of their order; other
\* events wait.
DragMapRequest ==
  /\ wm.run = "running" /\ drag # None
  /\ \E i \in DOMAIN queue :
       /\ queue[i].type = "MapRequest" /\ \A j \in 1..i - 1 : queue[j].type # "MapRequest"
       /\ maprequest(queue[i].win)
       /\ queue' = RemoveAt(queue, i)
  /\ UNCHANGED <<there, drag, left>>

\* A tiled client that is dragged far enough is to float; what is toggled is
\* the client that is selected now.
DragMotion ==
  /\ wm.run = "running" /\ drag # None /\ left > 0
  /\ ~wm.cl[drag].isfloating /\ Layout(SelMon(wm)) # "float"
  /\ Does(togglefloating(wm))

\* A client that is free to move may have been left on another screen.
DragRelease ==
  /\ wm.run = "running" /\ drag # None
  /\ \E i \in DOMAIN wm.mons :
       /\ i # wm.selmon => wm.cl[drag].isfloating \/ Layout(SelMon(wm)) = "float"
       /\ wm' = IF i = wm.selmon THEN wm
                ELSE focus([sendmon(wm, drag, i) EXCEPT !.selmon = i], None)
  /\ drag' = None
  /\ UNCHANGED <<there, queue, left>>

(* Messages of programs, changes of properties and of the screens.         *)

\* A client asks to be active: its tags come into view, and the current tag
\* of the screen stays.
activate(d, c) ==
  LET i == d.cl[c].mon
      s == 1 - d.mons[i].seltags
  IN pop(IF ISVISIBLE(d, c) THEN d
         ELSE [d EXCEPT !.mons[i].seltags = s, !.mons[i].tagset[s] = d.cl[c].tags], c)

ClientMessage ==
  /\ Idle /\ left > 0
  /\ \E c \in Managed(wm) :
       \/ \E full \in BOOLEAN : Does(setfullscreen(wm, c, full))
       \/ Does(activate(wm, c))

PropertyNotify ==
  /\ Idle /\ left > 0
  /\ \E c \in Managed(wm) :
       \/ /\ ~wm.cl[c].isfloating /\ TransientFor[c] \in Managed(wm)
          /\ Does(arrange([wm EXCEPT !.cl[c].isfloating = TRUE], wm.cl[c].mon))
       \/ \E hint \in Hints[c] : Does(drawbars(updatewmhints(wm, c, hint)))
       \/ Does(updatewindowtype(wm, c, wm.cl[c].isfullscreen))

\* New size hints, which leave one size or no longer do.
SizeHints ==
  /\ Idle /\ left > 1
  /\ \E c \in Managed(wm) : wm' = [wm EXCEPT !.cl[c].isfixed = ~@]
  /\ left' = left - 2
  /\ UNCHANGED <<there, queue, drag>>

\* Expose, a new title, a new status text, a new name of a tag.
Expose ==
  /\ Idle /\ left > 0
  /\ \E i \in DOMAIN wm.mons : Does(drawbar(wm, i))

ConfigureNotify ==
  /\ Idle /\ left > 0
  /\ \E n \in Heads : \E moved, wider \in BOOLEAN : \E pointer \in 1..n :
       LET geom == updategeom(wm, n, moved, pointer)
       IN Does(IF geom.dirty \/ wider THEN arrange_all(focus(geom.d, None)) ELSE geom.d)

(* The keys of config.h.                                                   *)

Key ==
  /\ Idle /\ left > 0
  /\ \/ \E arg \in {{t} : t \in Tags} \cup {Everything, {}} : Does(view(wm, arg))
     \/ \E t \in Tags : \E u \in BOOLEAN : Does(toggleview(wm, {t}, u))
     \/ \E arg \in {{t} : t \in Tags} \cup {Everything} : Does(tag(wm, arg))
     \/ \E t \in Tags : Does(toggletag(wm, {t}))
     \/ \E dir \in {1, -1} :
          Does(tagmon(wm, dir)) \/ Does(focusmon(wm, dir)) \/ Does(focusstack(wm, dir))
     \/ \E n \in 1..9 : Does(focusnstack(wm, n))
     \/ Does(zoom(wm)) \/ Does(winview(wm))
     \/ Does(togglefloating(wm)) \/ Does(togglefullscr(wm))

\* Also by a press on the symbol of the layout in the bar.
SettingKey ==
  /\ Idle /\ left > 1
  /\ \/ \E i \in DOMAIN wm.mons : \E layout \in {None, "monocle"} :
          wm' = setlayout(clicked(wm, i), layout)
     \/ \E layout \in KeyLayouts \cup {None} : wm' = setlayout(wm, layout)
     \/ \E step \in MfactStep : wm' = setmfact(wm, step)
     \/ \E n \in {1, -1} : SelMon(wm).set.nmaster + n <= MaxMaster /\ wm' = incnmaster(wm, n)
     \/ wm' = togglebar(wm)
  /\ left' = left - 2
  /\ UNCHANGED <<there, queue, drag>>

\* A client that knows no WM_DELETE_WINDOW is killed by the server.
killclient ==
  /\ Idle /\ Sel(wm) # None
  /\ Destroy(Sel(wm))

quit ==
  /\ Idle /\ left > 0
  /\ Does(cleanup(wm))

Next ==
  \/ Scan \/ run
  \/ \E w \in Window : Map(w) \/ Unmap(w) \/ Destroy(w) \/ Steal(w) \/ Withdraw(w)
  \/ EnterNotify \/ MotionNotify \/ ButtonPress \/ ClientMessage \/ PropertyNotify \/ SizeHints
  \/ Expose \/ ConfigureNotify \/ Key \/ SettingKey \/ killclient \/ quit
  \/ StartDrag \/ DragMapRequest \/ DragMotion \/ DragRelease

Spec == Init /\ [][Next]_vars

-----------------------------------------------------------------------------
(* Properties.                                                             *)

\* Type correctness; in particular a client always has a tag and a screen
\* always shows one, so that no window is out of reach (tag, toggletag, view,
\* toggleview, applyrules, sendmon).
TypeOK ==
  /\ wm.mons # << >> /\ wm.selmon \in DOMAIN wm.mons
  /\ \A i \in DOMAIN wm.mons :
       LET m == wm.mons[i]
       IN /\ m.seltags \in 0..1 /\ m.cur \in 0..TAGS /\ m.prev \in 0..TAGS
          /\ \A s \in 0..1 : m.tagset[s] # {} /\ m.tagset[s] \subseteq Tags
          /\ wm.run = "running" => m.set = m.per[m.cur]
  /\ \A w \in Managed(wm) :
       /\ wm.cl[w].mon \in DOMAIN wm.mons
       /\ wm.cl[w].tags # {} /\ wm.cl[w].tags \subseteq Tags
  /\ wm.input \in wm.viewable \cup {Root, PointerRoot}
  /\ wm.viewable \subseteq there

\* Every client is once in the list and once in the focus history of its own
\* screen and in no other, and what a screen has selected is one of its own
\* clients (attach, detach, detachstack, sendmon, updategeom).
Listed ==
  \A i \in DOMAIN wm.mons :
    LET m == wm.mons[i]
        own == {w \in Managed(wm) : wm.cl[w].mon = i}
    IN /\ Range(m.clients) = own /\ Len(m.clients) = Cardinality(own)
       /\ Range(m.stack) = own /\ Len(m.stack) = Cardinality(own)
       /\ m.sel \in own \cup {None}

\* dwm keeps no client for a window that is unmapped or gone, but while the
\* event that says so is on its way (unmapnotify, destroynotify, maprequest).
NoGhosts ==
  \A w \in Managed(wm) :
    w \in wm.viewable \/ Pending(w, {"UnmapNotify", "DestroyNotify"})

\* What the user sees as selected is the client on top of the focus history
\* of the tags in view, and the keyboard is its own, unless it wants none or
\* an event that mends it is on its way; it has stopped being urgent.
Focused ==
  LET c == Sel(wm)
  IN wm.run = "running" =>
       /\ c = FirstVisible(wm, wm.selmon)
       /\ c # None =>
            /\ ~wm.cl[c].isurgent
            /\ \/ wm.input = c \/ wm.cl[c].neverfocus \/ c \notin wm.viewable
               \/ \E w \in Window \ {c} : Pending(w, {"FocusIn"})

\* The two handlers that leave the focus to the next one: a screen without
\* clients is unplugged and the width stays (updategeom returns false), and
\* the selected client begins to accept the keyboard (updatewmhints).
Unplugged == Len(wm'.mons) < Len(wm.mons) /\ wm'.cl = wm.cl
Accepts ==
  \E w \in Managed(wm) : wm'.cl[w] # None /\ wm.cl[w].neverfocus /\ ~wm'.cl[w].neverfocus

\* Every other handler keeps the selection and the keyboard together.
FocusKept == [][Focused /\ ~Unplugged /\ ~Accepts => Focused']_vars

\* The settings of a tag change only by the keys for settings, while it is
\* the current tag of the selected screen: no change of the view, though it
\* toggles the bar by the same function, touches those of any tag.
SettingsKept ==
  [][\A i \in DOMAIN wm.mons \cap DOMAIN wm'.mons : \A t \in 0..TAGS :
       wm'.mons[i].per[t] # wm.mons[i].per[t] =>
         /\ i = wm'.selmon
         /\ t = wm.mons[i].cur /\ t = wm'.mons[i].cur
         /\ ViewOf(wm'.mons[i]) = ViewOf(wm.mons[i])]_vars

=============================================================================
