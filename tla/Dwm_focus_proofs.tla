-------------------------- MODULE Dwm_focus_proofs --------------------------
(***************************************************************************)
(* Proof that the selection and the keyboard stay together: FocusKept of   *)
(* module Dwm, for any windows, tags, rules, screens and bounds.  What the *)
(* handlers do to the focus is stated with their other facts in            *)
(* Dwm_proofs: most end settled, and the rest leave what is selected, what *)
(* is in view and who has the keyboard as they were.                       *)
(***************************************************************************)
EXTENDS Dwm_proofs

-----------------------------------------------------------------------------
(* States in which the focus is where it should be.                        *)

\* Focused, for a state d and the events q that wait.
Agreed(d, q) ==
  LET c == Sel(d)
  IN d.run = "running" =>
       /\ c = FirstVisible(d, d.selmon)
       /\ c # None =>
            /\ ~d.cl[c].isurgent
            /\ \/ d.input = c \/ d.cl[c].neverfocus \/ c \notin d.viewable
               \/ \E w \in Window \ {c} : Waits(q, w, {"FocusIn"})

\* From d to e the focus stays where it should be.
Focuses(d, e) == \A q : Agreed(d, q) => Agreed(e, q)

LEMMA FocusedAgrees ==
  /\ Focused <=> Agreed(wm, queue)
  /\ Focused' <=> Agreed(wm', queue')
<1>1. Focused <=> Agreed(wm, queue)
  BY DEF Focused, Agreed, Pending, Waits
<1>2. Focused' <=> Agreed(wm', queue')
  BY DEF Focused, Agreed, Pending, Waits, Sel, SelMon, FirstVisible, Visible, Managed,
         ISVISIBLE, MonOf
<1> QED
  BY <1>1, <1>2

LEMMA SettledAgrees ==
  ASSUME NEW e, Settled(e), NEW q
  PROVE  Agreed(e, q)
BY DEF Settled, Rests, Agreed

LEMMA EndsFocuses ==
  ASSUME NEW d, NEW e, Ends(d, e)
  PROVE  Focuses(d, e)
<1>1. CASE e = d
  BY <1>1 DEF Focuses
<1>2. CASE Settled(e)
  BY <1>2, SettledAgrees DEF Focuses
<1>3. CASE e.run = "crashed"
  BY <1>3 DEF Focuses, Agreed
<1> QED
  BY <1>1, <1>2, <1>3 DEF Ends

LEMMA FocusesTrans ==
  ASSUME NEW d, NEW e, NEW f, Focuses(d, e), Focuses(e, f)
  PROVE  Focuses(d, f)
BY DEF Focuses

\* What is on top of the history in view stays there.
LEMMA SteadyFirst ==
  ASSUME NEW d, Good(d), NEW e, Steady(d, e)
  PROVE  FirstVisible(e, e.selmon) = FirstVisible(d, d.selmon)
<1>1. ASSUME NEW c \in Managed(d) PROVE ISVISIBLE(e, c) = ISVISIBLE(d, c)
  <2>i. PICK i : i = d.cl[c].mon
    OBVIOUS
  <2>1. i \in DOMAIN d.mons
    BY <2>i, ClientFacts DEF Good
  <2>2. /\ e.cl[c].mon = i /\ e.cl[c].tags = d.cl[c].tags
        /\ ViewOf(e.mons[i]) = ViewOf(d.mons[i])
    BY <2>i, <2>1 DEF Steady
  <2> QED
    BY <2>i, <2>2 DEF ISVISIBLE, MonOf
<1>2. Visible(e) = Visible(d)
  <2>1. Managed(e) = Managed(d)
    BY DEF Steady
  <2> QED
    BY <1>1, <2>1 DEF Visible
<1>3. e.mons[e.selmon].stack = d.mons[d.selmon].stack
  BY DEF Steady, SelMon
<1> QED
  BY <1>2, <1>3 DEF FirstVisible

LEMMA SteadyFocuses ==
  ASSUME NEW d, Good(d), NEW e, Steady(d, e)
  PROVE  Focuses(d, e)
<1> SUFFICES ASSUME NEW q, Agreed(d, q), e.run = "running" PROVE Agreed(e, q)
  BY DEF Focuses, Agreed
<1>c. PICK c : c = Sel(d)
  OBVIOUS
<1>1. /\ Sel(e) = c /\ d.run = "running"
      /\ e.input = d.input /\ e.viewable = d.viewable
      /\ c # None => /\ e.cl[c].isurgent => d.cl[c].isurgent
                     /\ d.cl[c].neverfocus => e.cl[c].neverfocus
  BY <1>c DEF Steady
<1>2. FirstVisible(e, e.selmon) = FirstVisible(d, d.selmon)
  BY SteadyFirst
<1>3. /\ c = FirstVisible(d, d.selmon)
      /\ c # None =>
           /\ ~d.cl[c].isurgent
           /\ \/ d.input = c \/ d.cl[c].neverfocus \/ c \notin d.viewable
              \/ \E w \in Window \ {c} : Waits(q, w, {"FocusIn"})
  BY <1>c, <1>1 DEF Agreed
<1> QED
  BY <1>1, <1>2, <1>3 DEF Agreed

\* Events that are added to those that wait take nothing back.
LEMMA MoreWaits ==
  ASSUME NEW d, NEW q, Agreed(d, q), NEW p,
         \A w : Waits(q, w, {"FocusIn"}) => Waits(p, w, {"FocusIn"})
  PROVE  Agreed(d, p)
BY DEF Agreed

-----------------------------------------------------------------------------
(* Handlers that leave the focus alone.                                    *)

\* The flags of a client change, but not that it may have the focus.
LEMMA ClientSteady ==
  ASSUME NEW d, Good(d), NEW c \in Managed(d),
         NEW r \in Client, r.mon = d.cl[c].mon, r.tags = d.cl[c].tags,
         c = Sel(d) => /\ r.isurgent => d.cl[c].isurgent
                       /\ d.cl[c].neverfocus => r.neverfocus,
         NEW e, OneClient(d, e, c, r)
  PROVE  Steady(d, e) /\ Good(e) /\ e.cl[c] = r /\ e.run = d.run
<1>1. d \in State /\ c \in Window
  BY ClientFacts DEF Good, Partial, Typed
<1>2. /\ e.cl[c] = r
      /\ \A w \in Window : w # c => e.cl[w] = d.cl[w]
      /\ e.mons = d.mons /\ e.selmon = d.selmon /\ e.input = d.input
      /\ e.viewable = d.viewable /\ e.run = d.run
  BY <1>1, ClFact
<1>3. Good(e) /\ Managed(e) = Managed(d)
  BY FlagFact DEF Flagged, Stays, Keeps, Good
<1>4. SelMon(e) = SelMon(d) /\ Sel(e) = Sel(d)
  BY <1>2 DEF SelMon, Sel
<1>5. ASSUME NEW w \in Managed(d) PROVE e.cl[w].mon = d.cl[w].mon /\ e.cl[w].tags = d.cl[w].tags
  <2>1. w \in Window
    BY DEF Managed
  <2> QED
    BY <1>2, <2>1
<1>6. ASSUME Sel(d) # None
      PROVE  /\ e.cl[Sel(d)].isurgent => d.cl[Sel(d)].isurgent
             /\ d.cl[Sel(d)].neverfocus => e.cl[Sel(d)].neverfocus
  <2>1. Sel(d) \in Window
    BY <1>6, SelFact DEF Managed
  <2>2. CASE Sel(d) = c
    BY <1>2, <2>2
  <2>3. CASE Sel(d) # c
    BY <1>2, <2>1, <2>3
  <2> QED
    BY <2>2, <2>3
<1> QED
  BY <1>2, <1>3, <1>4, <1>5, <1>6 DEF Steady

LEMMA floatSteady ==
  ASSUME NEW d, Good(d), NEW c \in Managed(d), NEW b \in BOOLEAN,
         NEW e, e = [d EXCEPT !.cl[c].isfloating = b]
  PROVE  Steady(d, e) /\ Good(e)
<1>r. PICK r : r = [d.cl[c] EXCEPT !.isfloating = b]
  OBVIOUS
<1>1. d \in State /\ c \in Window /\ d.cl[c] \in Client
  BY ClientFacts DEF Good, Partial, Typed
<1>2. /\ r \in Client /\ r.mon = d.cl[c].mon /\ r.tags = d.cl[c].tags
      /\ r.isurgent = d.cl[c].isurgent /\ r.neverfocus = d.cl[c].neverfocus
  BY <1>1, <1>r DEF Client
<1>3. OneClient(d, e, c, r)
  BY <1>1, <1>r DEF OneClient, State
<1> QED
  BY <1>2, <1>3, ClientSteady

LEMMA fixedSteady ==
  ASSUME NEW d, Good(d), NEW c \in Managed(d),
         NEW e, e = [d EXCEPT !.cl[c].isfixed = ~@]
  PROVE  Steady(d, e)
<1>r. PICK r : r = [d.cl[c] EXCEPT !.isfixed = ~@]
  OBVIOUS
<1>1. d \in State /\ c \in Window /\ d.cl[c] \in Client
  BY ClientFacts DEF Good, Partial, Typed
<1>2. /\ r \in Client /\ r.mon = d.cl[c].mon /\ r.tags = d.cl[c].tags
      /\ r.isurgent = d.cl[c].isurgent /\ r.neverfocus = d.cl[c].neverfocus
  BY <1>1, <1>r DEF Client
<1>3. OneClient(d, e, c, r)
  BY <1>1, <1>r DEF OneClient, State
<1> QED
  BY <1>2, <1>3, ClientSteady

LEMMA setfullscreenSteady ==
  ASSUME NEW d, Good(d), NEW c \in Managed(d), NEW full \in BOOLEAN
  PROVE  Steady(d, setfullscreen(d, c, full)) /\ Good(setfullscreen(d, c, full))
<1>1. d \in State /\ c \in Window /\ d.cl[c] \in Client
  BY ClientFacts DEF Good, Partial, Typed
<1>2. CASE full
  <2>r. PICK r : r = [d.cl[c] EXCEPT !.isfullscreen = TRUE, !.oldstate = d.cl[c].isfloating,
                                     !.isfloating = TRUE]
    OBVIOUS
  <2>1. /\ r \in Client /\ r.mon = d.cl[c].mon /\ r.tags = d.cl[c].tags
        /\ r.isurgent = d.cl[c].isurgent /\ r.neverfocus = d.cl[c].neverfocus
    BY <1>1, <2>r DEF Client
  <2>2. OneClient(d, setfullscreen(d, c, full), c, r)
    BY <1>1, <1>2, <2>r DEF OneClient, setfullscreen, State
  <2> QED
    BY <2>1, <2>2, ClientSteady
<1>3. CASE ~full
  <2>r. PICK r : r = [d.cl[c] EXCEPT !.isfullscreen = FALSE, !.isfloating = d.cl[c].oldstate]
    OBVIOUS
  <2>e. PICK e : e = [d EXCEPT !.cl[c].isfullscreen = FALSE,
                               !.cl[c].isfloating = d.cl[c].oldstate]
    OBVIOUS
  <2>1. /\ r \in Client /\ r.mon = d.cl[c].mon /\ r.tags = d.cl[c].tags
        /\ r.isurgent = d.cl[c].isurgent /\ r.neverfocus = d.cl[c].neverfocus
    BY <1>1, <2>r DEF Client
  <2>2. OneClient(d, e, c, r)
    BY <1>1, <2>r, <2>e DEF OneClient, State
  <2>3. Steady(d, e) /\ Good(e)
    BY <2>1, <2>2, ClientSteady
  <2>4. setfullscreen(d, c, full) = arrange(e, d.cl[c].mon)
    BY <1>3, <2>e DEF setfullscreen
  <2>5. Good(arrange(e, d.cl[c].mon))
    BY <2>3, arrangeFact DEF Good
  <2> QED
    BY <2>3, <2>4, <2>5, arrangeSteady
<1> QED
  BY <1>2, <1>3

LEMMA updatewindowtypeSteady ==
  ASSUME NEW d, Good(d), NEW c \in Managed(d), NEW full \in BOOLEAN
  PROVE  Steady(d, updatewindowtype(d, c, full))
<1>e. PICK e : e = IF full THEN setfullscreen(d, c, TRUE) ELSE d
  OBVIOUS
<1>1. Steady(d, e) /\ Good(e)
  BY <1>e, setfullscreenSteady, SteadySelf
<1>2. CASE c \in Dialog
  <2>1. updatewindowtype(d, c, full) = [e EXCEPT !.cl[c].isfloating = TRUE]
    BY <1>e, <1>2 DEF updatewindowtype
  <2>2. c \in Managed(e)
    BY <1>1 DEF Steady
  <2>3. Steady(e, updatewindowtype(d, c, full))
    BY <1>1, <2>1, <2>2, floatSteady
  <2> QED
    BY <1>1, <2>3, SteadyTrans
<1>3. CASE c \notin Dialog
  BY <1>e, <1>1, <1>3 DEF updatewindowtype
<1> QED
  BY <1>2, <1>3

\* New hints, unless the client begins to accept the keyboard.
LEMMA updatewmhintsSteady ==
  ASSUME NEW d, Good(d), NEW c \in Managed(d), NEW hint \in Hint,
         NEW e, e = drawbars(updatewmhints(d, c, hint)),
         d.cl[c].neverfocus => e.cl[c].neverfocus
  PROVE  Steady(d, e)
<1>r. PICK r : r = [d.cl[c] EXCEPT !.isurgent = IF c = Sel(d) /\ hint.urgent THEN @ ELSE hint.urgent,
                                   !.neverfocus = hint.nofocus]
  OBVIOUS
<1>f. PICK f : f = updatewmhints(d, c, hint)
  OBVIOUS
<1>1. d \in State /\ c \in Window /\ d.cl[c] \in Client
  BY ClientFacts DEF Good, Partial, Typed
<1>2. hint.urgent \in BOOLEAN /\ hint.nofocus \in BOOLEAN
  BY DEF Hint
<1>3. /\ r \in Client /\ r.mon = d.cl[c].mon /\ r.tags = d.cl[c].tags
      /\ r.neverfocus = hint.nofocus
      /\ r.isurgent = IF c = Sel(d) /\ hint.urgent THEN d.cl[c].isurgent ELSE hint.urgent
  BY <1>1, <1>2, <1>r DEF Client
<1>4. OneClient(d, f, c, r)
  BY <1>1, <1>r, <1>f DEF OneClient, updatewmhints, State
<1>5. Good(f) /\ f.cl[c] = r
  <2>1. Good(f)
    BY <1>3, <1>4, FlagFact DEF Flagged, Good
  <2> QED
    BY <1>1, <1>3, <1>4, <2>1, ClFact
<1>6. e.cl = f.cl
  BY <1>5, <1>f, drawbarsFact DEF Good
<1>7. c = Sel(d) => /\ r.isurgent => d.cl[c].isurgent
                    /\ d.cl[c].neverfocus => r.neverfocus
  BY <1>3, <1>5, <1>6
<1>8. Steady(d, f)
  BY <1>3, <1>4, <1>7, ClientSteady
<1> QED
  BY <1>5, <1>8, <1>f, arrangeSteady

LEMMA togglefloatingSteady ==
  ASSUME NEW d, Good(d)
  PROVE  Steady(d, togglefloating(d))
<1>1. CASE Sel(d) = None
  BY <1>1, SteadySelf DEF togglefloating
<1>2. CASE Sel(d) # None
  <2>c. PICK c : c = Sel(d)
    OBVIOUS
  <2>1. c \in Managed(d) /\ d \in State
    BY <1>2, <2>c, SelFact
  <2>2. c \in Window /\ d.cl[c] \in Client
    BY <2>1, ClientFacts DEF Good
  <2>b. PICK b : b = (~d.cl[c].isfloating \/ d.cl[c].isfixed)
    OBVIOUS
  <2>3. b \in BOOLEAN
    BY <2>b
  <2>e. PICK e : e = [d EXCEPT !.cl[c].isfloating = b]
    OBVIOUS
  <2>4. Steady(d, e) /\ Good(e)
    BY <2>1, <2>3, <2>e, floatSteady
  <2>5. e = [d EXCEPT !.cl[c].isfloating = ~@ \/ d.cl[c].isfixed]
    BY <2>1, <2>2, <2>b, <2>e DEF State
  <2>6. togglefloating(d) = arrange(e, d.selmon)
    BY <1>2, <2>c, <2>5 DEF togglefloating
  <2> QED
    BY <2>4, <2>6, arrangeSteady
<1> QED
  BY <1>1, <1>2

LEMMA togglefullscrSteady ==
  ASSUME NEW d, Good(d)
  PROVE  Steady(d, togglefullscr(d))
<1>1. CASE Sel(d) = None
  BY <1>1, SteadySelf DEF togglefullscr
<1>2. CASE Sel(d) # None
  <2>1. Sel(d) \in Managed(d)
    BY <1>2, SelFact
  <2> QED
    BY <1>2, <2>1, setfullscreenSteady DEF togglefullscr
<1> QED
  BY <1>1, <1>2

-----------------------------------------------------------------------------
(* The server and the other programs.                                      *)

\* A handler of the loop leaves the events that wait alone.
LEMMA QuietFocus ==
  ASSUME Focused, Focuses(wm, wm'), queue' = queue
  PROVE  Focused'
BY FocusedAgrees DEF Focuses

\* Without clients nothing is selected.
LEMMA EmptyAgrees ==
  ASSUME NEW d, Good(d), Managed(d) = {}, NEW q
  PROVE  Agreed(d, q)
<1>1. Sel(d) = None /\ d.selmon \in DOMAIN d.mons
  BY SelFact
<1>2. FirstVisible(d, d.selmon) = None
  BY <1>1, FirstVisibleOn DEF On
<1> QED
  BY <1>1, <1>2 DEF Agreed

LEMMA ScanFocus ==
  ASSUME IInv, Scan
  PROVE  Focused'
<1>1. Sound(wm, there, queue, drag) /\ wm.run = "starting"
  BY DEF IInv, Scan
<1>i. PICK icons \in SUBSET (there \ wm.viewable) :
        \E wins \in SetToSeqs(wm.viewable \cup icons), hints \in [wm.viewable \cup icons -> Hint] :
          wm' = scan([wm EXCEPT !.run = "running"], wins, hints)
  BY DEF Scan
<1>V. PICK V : V = wm.viewable \cup icons
  OBVIOUS
<1>2. PICK wins \in SetToSeqs(V), hints \in [V -> Hint] :
        wm' = scan([wm EXCEPT !.run = "running"], wins, hints)
  BY <1>i, <1>V
<1>0. V \in SUBSET Window
  BY <1>1, <1>V DEF Sound
<1>d. PICK d : d = [wm EXCEPT !.run = "running"]
  OBVIOUS
<1>3. /\ Partial(wm, {}, {}) /\ wm \in State /\ wm.selmon \in DOMAIN wm.mons
      /\ wm.input \in wm.viewable \cup {Root, PointerRoot}
      /\ Managed(wm) = {} /\ wm.viewable \in SUBSET Window
  BY <1>1 DEF Sound, Good, Partial, Typed, State
<1>4. Plain(wm, d, wm.selmon, wm.input, "running")
  BY <1>3, <1>d DEF State, Plain
<1>5. Good(d) /\ Managed(d) = {}
  BY <1>3, <1>4, PlainFact DEF Good
<1>6. /\ wins \in Seq(Window)
      /\ \A i, j \in DOMAIN wins : i # j => wins[i] # wins[j]
      /\ \A i \in DOMAIN wins : wins[i] \in V
  BY <1>0, OrderFact
<1>7. \A i \in DOMAIN wins : wins[i] \notin Managed(d) /\ hints[wins[i]] \in Hint
  BY <1>5, <1>6
<1>8. /\ wins = << >> => scan(d, wins, hints) = d
      /\ wins # << >> => Settled(scan(d, wins, hints))
  BY <1>5, <1>6, <1>7, scanFact
<1>9. Agreed(wm', queue')
  BY <1>2, <1>5, <1>8, <1>d, EmptyAgrees, SettledAgrees
<1> QED
  BY <1>9, FocusedAgrees

LEMMA MapFocus ==
  ASSUME IInv, Focused, NEW w \in Window, Map(w)
  PROVE  Focused'
<1>e. PICK e : e = Event("MapRequest", w)
  OBVIOUS
<1>1. e \in Ev /\ queue \in Seq(Ev)
  BY <1>e, EventFact DEF IInv, Sound
<1>2. wm' = wm /\ queue' = Append(queue, e)
  BY <1>e DEF Map
<1>3. \A x : Waits(queue, x, {"FocusIn"}) => Waits(queue', x, {"FocusIn"})
  BY <1>1, <1>2, WaitsAppend
<1> QED
  BY <1>2, <1>3, FocusedAgrees, MoreWaits

LEMMA WithdrawFocus ==
  ASSUME IInv, Focused, NEW w \in Window, Withdraw(w)
  PROVE  Focused'
<1>e. PICK e : e = Event("SentUnmapNotify", w)
  OBVIOUS
<1>1. e \in Ev /\ queue \in Seq(Ev)
  BY <1>e, EventFact DEF IInv, Sound
<1>2. wm' = wm /\ queue' = Append(queue, e)
  BY <1>e DEF Withdraw
<1>3. \A x : Waits(queue, x, {"FocusIn"}) => Waits(queue', x, {"FocusIn"})
  BY <1>1, <1>2, WaitsAppend
<1> QED
  BY <1>2, <1>3, FocusedAgrees, MoreWaits

\* A window that is unmapped takes the keyboard from no other.
LEMMA HidesFocuses ==
  ASSUME NEW d, Good(d), NEW w \in Window, NEW e, Hides(d, e, w)
  PROVE  Focuses(d, e)
<1>1. d \in State
  BY DEF Good, Partial, Typed
<1>2. /\ e.viewable = d.viewable \ {w}
      /\ e.mons = d.mons /\ e.cl = d.cl /\ e.run = d.run /\ e.selmon = d.selmon
      /\ e.input = IF d.input = w THEN PointerRoot ELSE d.input
  BY <1>1 DEF State, Hides
<1>3. Sel(e) = Sel(d)
  BY <1>2 DEF Sel, SelMon
<1>4. FirstVisible(e, e.selmon) = FirstVisible(d, d.selmon)
  BY <1>2, VisibleEqual DEF FirstVisible
<1>5. ASSUME NEW c, d.input = c \/ c \notin d.viewable PROVE e.input = c \/ c \notin e.viewable
  BY <1>2, <1>5
<1> QED
  BY <1>2, <1>3, <1>4, <1>5 DEF Focuses, Agreed

LEMMA UnmapFocus ==
  ASSUME IInv, Focused, NEW w \in Window, Unmap(w)
  PROVE  Focused'
<1>e. PICK e : e = Event("UnmapNotify", w)
  OBVIOUS
<1>d. PICK d : Hides(wm, d, w)
  BY DEF Hides
<1>1. e \in Ev /\ queue \in Seq(Ev) /\ Good(wm)
  BY <1>e, EventFact DEF IInv, Sound
<1>2. wm' = d /\ queue' = Append(queue, e)
  BY <1>d, <1>e DEF Unmap, Reverts, Hides
<1>3. \A x : Waits(queue, x, {"FocusIn"}) => Waits(queue', x, {"FocusIn"})
  BY <1>1, <1>2, WaitsAppend
<1>4. Agreed(wm', queue)
  BY <1>1, <1>2, <1>d, HidesFocuses, FocusedAgrees DEF Focuses
<1> QED
  BY <1>3, <1>4, FocusedAgrees, MoreWaits

LEMMA DestroyFocus ==
  ASSUME IInv, Focused, NEW w \in Window, Destroy(w)
  PROVE  Focused'
<1>e. PICK e : e = Event("DestroyNotify", w)
  OBVIOUS
<1>f. PICK f : f = IF w \in wm.viewable THEN <<Event("UnmapNotify", w)>> ELSE << >>
  OBVIOUS
<1>d. PICK d : Hides(wm, d, w)
  BY DEF Hides
<1>q. PICK q : q = queue \o f
  OBVIOUS
<1>1. e \in Ev /\ queue \in Seq(Ev) /\ Good(wm)
  BY <1>e, EventFact DEF IInv, Sound
<1>2. wm' = d /\ queue' = q \o <<e>>
  BY <1>d, <1>e, <1>f, <1>q DEF Destroy, Reverts, Hides
<1>3. f \in Seq(Ev) /\ <<e>> \in Seq(Ev)
  <2>1. Event("UnmapNotify", w) \in Ev
    BY EventFact
  <2>2. <<Event("UnmapNotify", w)>> \in Seq(Ev) /\ <<e>> \in Seq(Ev)
    BY <1>1, <2>1, WaitsOne
  <2> QED
    BY <1>f, <2>2
<1>4. q \in Seq(Ev) /\ \A x : Waits(queue, x, {"FocusIn"}) => Waits(q, x, {"FocusIn"})
  BY <1>1, <1>3, <1>q, WaitsJoined
<1>5. \A x : Waits(q, x, {"FocusIn"}) => Waits(queue', x, {"FocusIn"})
  BY <1>2, <1>3, <1>4, WaitsJoined
<1>6. Agreed(wm', queue)
  BY <1>1, <1>2, <1>d, HidesFocuses, FocusedAgrees DEF Focuses
<1> QED
  BY <1>4, <1>5, <1>6, FocusedAgrees, MoreWaits

LEMMA StealFocus ==
  ASSUME IInv, Focused, NEW w \in Window, Steal(w)
  PROVE  Focused'
<1>e. PICK e : e = Event("FocusIn", w)
  OBVIOUS
<1>d. PICK d : d = [wm EXCEPT !.input = w]
  OBVIOUS
<1>c. PICK c : c = Sel(wm)
  OBVIOUS
<1>1. e \in Ev /\ e.win = w /\ e.type = "FocusIn" /\ queue \in Seq(Ev) /\ wm \in State
  BY <1>e, EventFact DEF IInv, Sound, Good, Partial, Typed
<1>2. wm' = d /\ queue' = Append(queue, e)
  BY <1>d, <1>e DEF Steal
<1>3. Waits(queue', w, {"FocusIn"})
  BY <1>1, <1>2, WaitsAppend
<1>4. /\ d.mons = wm.mons /\ d.cl = wm.cl /\ d.selmon = wm.selmon /\ d.run = wm.run
      /\ d.viewable = wm.viewable /\ d.input = w
  BY <1>1, <1>d DEF State
<1>5. Sel(d) = c /\ FirstVisible(d, d.selmon) = FirstVisible(wm, wm.selmon)
  BY <1>4, <1>c, VisibleEqual DEF Sel, SelMon, FirstVisible
<1>6. ASSUME c # w PROVE w \in Window \ {c}
  BY <1>6
<1>7. Agreed(wm, queue)
  BY FocusedAgrees
<1>8. Agreed(d, queue')
  BY <1>3, <1>4, <1>5, <1>6, <1>7, <1>c DEF Agreed
<1> QED
  BY <1>2, <1>8, FocusedAgrees

-----------------------------------------------------------------------------
(* The handlers of the events that wait.                                   *)

LEMMA maprequestEnds ==
  ASSUME IInv, NEW w \in Window, maprequest(w)
  PROVE  Ends(wm, wm')
<1>1. Good(wm)
  BY DEF IInv, Sound
<1>2. CASE wm' = wm
  BY <1>2 DEF Ends
<1>3. CASE wintoclient(wm, w) = None /\ \E hint \in Hints[w] : wm' = manage(wm, w, hint)
  <2>1. PICK hint \in Hints[w] : wm' = manage(wm, w, hint)
    BY <1>3
  <2>2. hint \in Hint /\ w \notin Managed(wm)
    BY <1>3, DwmAssumption, wintoclientFact
  <2>3. Settled(manage(wm, w, hint))
    BY <1>1, <2>2, manageFact
  <2> QED
    BY <2>1, <2>3 DEF Ends
<1> QED
  BY <1>2, <1>3 DEF maprequest

LEMMA unmanageEnds ==
  ASSUME IInv, NEW w \in Window,
         wm' = IF wintoclient(wm, w) = None THEN wm ELSE unmanage(wm, w)
  PROVE  Ends(wm, wm')
<1>1. Good(wm)
  BY DEF IInv, Sound
<1>2. CASE w \notin Managed(wm)
  BY <1>2, wintoclientFact DEF Ends
<1>3. CASE w \in Managed(wm)
  <2>1. wm' = unmanage(wm, w)
    BY <1>3, wintoclientFact
  <2>2. Settled(unmanage(wm, w))
    BY <1>1, <1>3, unmanageFact
  <2> QED
    BY <2>1, <2>2 DEF Ends
<1> QED
  BY <1>2, <1>3

\* The client that is selected gets back the keyboard.
LEMMA setfocusAgrees ==
  ASSUME NEW d, Good(d), Sel(d) # None, NEW q, Agreed(d, q), NEW p
  PROVE  Agreed(setfocus(d, Sel(d)), p)
<1>c. PICK c : c = Sel(d)
  OBVIOUS
<1>e. PICK e : e = setfocus(d, c)
  OBVIOUS
<1>1. d \in State
  BY DEF Good, Partial, Typed
<1>2. /\ e.mons = d.mons /\ e.cl = d.cl /\ e.selmon = d.selmon /\ e.run = d.run
      /\ e.viewable = d.viewable
      /\ e.input = c \/ d.cl[c].neverfocus \/ c \notin d.viewable
  BY <1>1, <1>e DEF State, setfocus
<1>3. Sel(e) = c /\ FirstVisible(e, e.selmon) = FirstVisible(d, d.selmon)
  BY <1>2, <1>c, VisibleEqual DEF Sel, SelMon, FirstVisible
<1>4. d.run = "running" => c = FirstVisible(d, d.selmon) /\ ~d.cl[c].isurgent
  BY <1>c DEF Agreed
<1>5. Agreed(e, p)
  BY <1>2, <1>3, <1>4 DEF Agreed
<1> QED
  BY <1>5, <1>c, <1>e

LEMMA runFocus ==
  ASSUME IInv, Focused, run
  PROVE  Focused'
<1>e. PICK e : e = Head(queue)
  OBVIOUS
<1>q. PICK q : q = Tail(queue)
  OBVIOUS
<1>1. queue \in Seq(Ev) /\ queue # << >> /\ queue' = q /\ Good(wm)
  BY <1>q DEF IInv, Sound, run
<1>2. /\ e \in Ev
      /\ \A w : Waits(queue, w, {"FocusIn"}) =>
           Waits(q, w, {"FocusIn"}) \/ (e.win = w /\ e.type \in {"FocusIn"})
  BY <1>1, <1>e, <1>q, WaitsTail
<1>3. e.win \in Window
  BY <1>2 DEF Ev
<1>4. Agreed(wm, queue)
  BY FocusedAgrees
<1>5. CASE e.type # "FocusIn" /\ Ends(wm, wm')
  <2>1. \A w : Waits(queue, w, {"FocusIn"}) => Waits(q, w, {"FocusIn"})
    BY <1>2, <1>5
  <2>2. Agreed(wm', queue)
    BY <1>4, <1>5, EndsFocuses DEF Focuses
  <2> QED
    BY <1>1, <2>1, <2>2, MoreWaits, FocusedAgrees
<1>6. CASE e.type = "FocusIn" /\ focusin(e.win)
  <2>1. CASE Sel(wm) \notin {None, e.win}
    <3>1. wm' = setfocus(wm, Sel(wm))
      BY <1>6, <2>1 DEF focusin
    <3>2. Agreed(setfocus(wm, Sel(wm)), q)
      BY <1>1, <1>4, <2>1, setfocusAgrees
    <3> QED
      BY <1>1, <3>1, <3>2, FocusedAgrees
  <2>2. CASE Sel(wm) \in {None, e.win}
    <3>1. wm' = wm
      BY <1>6, <2>2 DEF focusin
    <3>2. \A w \in Window \ {Sel(wm)} :
            Sel(wm) # None /\ Waits(queue, w, {"FocusIn"}) => Waits(q, w, {"FocusIn"})
      BY <1>2, <2>2
    <3>3. Agreed(wm, q)
      BY <1>4, <3>2 DEF Agreed
    <3> QED
      BY <1>1, <3>1, <3>3, FocusedAgrees
  <2> QED
    BY <2>1, <2>2
<1>7. ASSUME e.type = "MapRequest", maprequest(e.win) PROVE e.type # "FocusIn" /\ Ends(wm, wm')
  BY <1>3, <1>7, maprequestEnds
<1>8. ASSUME e.type \in {"UnmapNotify", "DestroyNotify"},
             unmapnotify(e.win, FALSE) \/ destroynotify(e.win)
      PROVE  e.type # "FocusIn" /\ Ends(wm, wm')
  BY <1>3, <1>8, unmanageEnds DEF unmapnotify, destroynotify
<1>9. ASSUME e.type = "SentUnmapNotify", unmapnotify(e.win, TRUE)
      PROVE  e.type # "FocusIn" /\ Ends(wm, wm')
  BY <1>9 DEF unmapnotify, Ends
<1>10. \/ e.type = "MapRequest" /\ maprequest(e.win)
       \/ e.type = "UnmapNotify" /\ unmapnotify(e.win, FALSE)
       \/ e.type = "SentUnmapNotify" /\ unmapnotify(e.win, TRUE)
       \/ e.type = "DestroyNotify" /\ destroynotify(e.win)
       \/ e.type = "FocusIn" /\ focusin(e.win)
  BY <1>e DEF run
<1> QED
  BY <1>5, <1>6, <1>7, <1>8, <1>9, <1>10

LEMMA DragMapRequestFocus ==
  ASSUME IInv, Focused, DragMapRequest
  PROVE  Focused'
<1>1. PICK i \in DOMAIN queue :
        /\ queue[i].type = "MapRequest"
        /\ maprequest(queue[i].win)
        /\ queue' = RemoveAt(queue, i)
  BY DEF DragMapRequest
<1>2. queue \in Seq(Ev)
  BY DEF IInv, Sound
<1>3. queue[i].win \in Window /\ queue[i].type \notin {"FocusIn"}
  <2>1. queue[i] \in Ev
    BY <1>2
  <2> QED
    BY <1>1, <2>1 DEF Ev
<1>4. \A w : Waits(queue, w, {"FocusIn"}) => Waits(queue', w, {"FocusIn"})
  BY <1>1, <1>2, <1>3, WaitsRemoved
<1>5. Agreed(wm', queue)
  BY <1>1, <1>3, maprequestEnds, EndsFocuses, FocusedAgrees DEF Focuses
<1> QED
  BY <1>4, <1>5, MoreWaits, FocusedAgrees

-----------------------------------------------------------------------------
(* The pointer.                                                            *)

LEMMA PointerFocus ==
  ASSUME IInv, Focused, EnterNotify \/ MotionNotify
  PROVE  Focused'
<1>1. Good(wm)
  BY DEF IInv, Sound
<1>2. ASSUME NEW c \in Managed(wm) PROVE Ends(wm, enternotify(wm, c, wm.cl[c].mon))
  <2>1. wm.cl[c].mon \in DOMAIN wm.mons
    BY <1>1, ClientFacts DEF Good
  <2> QED
    BY <1>1, <2>1, enternotifyFact
<1>3. ASSUME NEW i \in DOMAIN wm.mons PROVE Ends(wm, enternotify(wm, None, i))
  BY <1>1, enternotifyFact
<1>4. ASSUME NEW i \in DOMAIN wm.mons PROVE Ends(wm, focus([wm EXCEPT !.selmon = i], None))
  <2>1. Leads(wm, wm)
    BY <1>1, LeadsSelf
  <2> QED
    BY <2>1, MoveFact DEF Ends
<1>5. PICK e : Ends(wm, e) /\ Does(e)
  BY <1>2, <1>3, <1>4 DEF EnterNotify, MotionNotify
<1> QED
  BY <1>5, EndsFocuses, QuietFocus DEF Does

LEMMA ButtonPressFocus ==
  ASSUME IInv, Focused, ButtonPress
  PROVE  Focused'
<1>1. Good(wm)
  BY DEF IInv, Sound
<1>2. ASSUME NEW i \in DOMAIN wm.mons
      PROVE  Leads(wm, clicked(wm, i)) /\ Focuses(wm, clicked(wm, i))
  BY <1>1, clickedFact, EndsFocuses
<1>3. ASSUME NEW i \in DOMAIN wm.mons, NEW t \in Labels(clicked(wm, i), i)
      PROVE  /\ Focuses(wm, view(clicked(wm, i), {t}))
             /\ \A u \in BOOLEAN : Focuses(wm, toggleview(clicked(wm, i), {t}, u))
             /\ Focuses(wm, tag(clicked(wm, i), {t}))
             /\ Focuses(wm, toggletag(clicked(wm, i), {t}))
  <2>d. PICK d : d = clicked(wm, i)
    OBVIOUS
  <2>1. Focuses(wm, d) /\ Good(d) /\ i \in DOMAIN d.mons
    BY <1>2, <2>d DEF Leads, Stays
  <2>2. {t} \in SUBSET Tags
    BY <2>1, <2>d, LabelsFact
  <2>3. Ends(d, view(d, {t})) /\ Ends(d, tag(d, {t})) /\ Ends(d, toggletag(d, {t}))
    BY <2>1, <2>2, viewFact, tagFact, toggletagFact DEF Ends
  <2>4. \A u \in BOOLEAN : Ends(d, toggleview(d, {t}, u))
    BY <2>1, <2>2, toggleviewFact DEF Ends
  <2> QED
    BY <2>1, <2>3, <2>4, <2>d, EndsFocuses, FocusesTrans
<1>4. ASSUME NEW i \in DOMAIN wm.mons PROVE Focuses(wm, zoom(clicked(wm, i)))
  <2>1. Focuses(wm, clicked(wm, i)) /\ Good(clicked(wm, i))
    BY <1>2 DEF Leads
  <2>2. Ends(clicked(wm, i), zoom(clicked(wm, i)))
    BY <2>1, zoomFact
  <2> QED
    BY <2>1, <2>2, EndsFocuses, FocusesTrans
<1>5. ASSUME NEW c \in Managed(wm)
      PROVE  /\ Focuses(wm, focus(clicked(wm, wm.cl[c].mon), c))
             /\ Focuses(wm, togglefloating(focus(clicked(wm, wm.cl[c].mon), c)))
  <2>d. PICK d : d = focus(clicked(wm, wm.cl[c].mon), c)
    OBVIOUS
  <2>1. Ends(wm, d) /\ Good(d)
    BY <1>1, <2>d, PressFact DEF Leads, Ends
  <2>2. Focuses(d, togglefloating(d))
    BY <2>1, togglefloatingSteady, SteadyFocuses
  <2> QED
    BY <2>1, <2>2, <2>d, EndsFocuses, FocusesTrans
<1>6. PICK e : Focuses(wm, e) /\ Does(e)
  BY <1>2, <1>3, <1>4, <1>5 DEF ButtonPress
<1> QED
  BY <1>6, QuietFocus DEF Does

LEMMA StartDragFocus ==
  ASSUME IInv, Focused, StartDrag
  PROVE  Focused'
<1>1. Good(wm)
  BY DEF IInv, Sound
<1>2. PICK c \in Managed(wm) : wm' = restack(focus(clicked(wm, wm.cl[c].mon), c))
  BY DEF StartDrag
<1>3. Settled(wm')
  BY <1>1, <1>2, PressFact, restackLeads
<1> QED
  BY <1>3, SettledAgrees, FocusedAgrees

LEMMA DragMotionFocus ==
  ASSUME IInv, Focused, DragMotion
  PROVE  Focused'
<1>1. Good(wm) /\ wm' = togglefloating(wm) /\ queue' = queue
  BY DEF IInv, Sound, DragMotion, Does
<1> QED
  BY <1>1, togglefloatingSteady, SteadyFocuses, QuietFocus

LEMMA DragReleaseFocus ==
  ASSUME IInv, Focused, DragRelease
  PROVE  Focused'
<1>1. Good(wm) /\ drag \in Managed(wm) /\ queue' = queue
  BY DEF IInv, Sound, DragRelease
<1>2. PICK i \in DOMAIN wm.mons :
        wm' = IF i = wm.selmon THEN wm
              ELSE focus([sendmon(wm, drag, i) EXCEPT !.selmon = i], None)
  BY DEF DragRelease
<1>3. Leads(wm, sendmon(wm, drag, i))
  BY <1>1, sendmonFact
<1>4. Settled(focus([sendmon(wm, drag, i) EXCEPT !.selmon = i], None))
  BY <1>3, MoveFact
<1>5. Ends(wm, wm')
  BY <1>2, <1>4 DEF Ends
<1> QED
  BY <1>1, <1>5, EndsFocuses, QuietFocus

-----------------------------------------------------------------------------
(* Messages, properties, screens, keys.                                    *)

LEMMA MessageFocus ==
  ASSUME IInv, Focused, ClientMessage
  PROVE  Focused'
<1>1. Good(wm)
  BY DEF IInv, Sound
<1>2. ASSUME NEW c \in Managed(wm), NEW full \in BOOLEAN
      PROVE  Focuses(wm, setfullscreen(wm, c, full))
  BY <1>1, setfullscreenSteady, SteadyFocuses
<1>3. ASSUME NEW c \in Managed(wm) PROVE Focuses(wm, activate(wm, c))
  BY <1>1, activateFact, EndsFocuses DEF Ends
<1>4. PICK e : Focuses(wm, e) /\ Does(e)
  BY <1>2, <1>3 DEF ClientMessage
<1> QED
  BY <1>4, QuietFocus DEF Does

LEMMA PropertyFocus ==
  ASSUME IInv, Focused, PropertyNotify, ~Accepts
  PROVE  Focused'
<1>1. Good(wm) /\ queue' = queue
  BY DEF IInv, Sound, PropertyNotify, Does
<1>2. ASSUME NEW c \in Managed(wm)
      PROVE  Steady(wm, arrange([wm EXCEPT !.cl[c].isfloating = TRUE], wm.cl[c].mon))
  <2>e. PICK e : e = [wm EXCEPT !.cl[c].isfloating = TRUE]
    OBVIOUS
  <2>1. Steady(wm, e) /\ Good(e)
    BY <1>1, <2>e, floatSteady
  <2> QED
    BY <2>1, <2>e, arrangeSteady
<1>3. ASSUME NEW c \in Managed(wm), NEW hint \in Hints[c],
             wm' = drawbars(updatewmhints(wm, c, hint))
      PROVE  Steady(wm, wm')
  <2>e. PICK e : e = wm'
    OBVIOUS
  <2>1. hint \in Hint
    BY DwmAssumption DEF Managed
  <2>2. Flagged(wm, updatewmhints(wm, c, hint), {}, {}, c)
    BY <1>1, <2>1, updatewmhintsFact DEF Good
  <2>3. Leads(wm, updatewmhints(wm, c, hint))
    BY <2>2, FlagLeads
  <2>4. Leads(wm, e)
    BY <1>3, <2>3, <2>e, arrangeLeads DEF arrange_all
  <2>5. c \in Managed(e)
    BY <2>4 DEF Leads, Stays, Keeps
  <2>6. e.cl[c] # None
    BY <2>5 DEF Managed
  <2>7. wm.cl[c].neverfocus => e.cl[c].neverfocus
    BY <2>6, <2>e DEF Accepts
  <2>8. Steady(wm, e)
    BY <1>1, <1>3, <2>1, <2>7, <2>e, updatewmhintsSteady
  <2> QED
    BY <2>8, <2>e
<1>4. ASSUME NEW c \in Managed(wm)
      PROVE  Steady(wm, updatewindowtype(wm, c, wm.cl[c].isfullscreen))
  <2>1. wm.cl[c] \in Client
    BY <1>1, ClientFacts DEF Good
  <2>2. wm.cl[c].isfullscreen \in BOOLEAN
    BY <2>1 DEF Client
  <2> QED
    BY <1>1, <2>2, updatewindowtypeSteady
<1>5. Steady(wm, wm')
  BY <1>2, <1>3, <1>4 DEF PropertyNotify, Does
<1> QED
  BY <1>1, <1>5, SteadyFocuses, QuietFocus

LEMMA SizeHintsFocus ==
  ASSUME IInv, Focused, SizeHints
  PROVE  Focused'
<1>1. Good(wm) /\ queue' = queue
  BY DEF IInv, Sound, SizeHints
<1>2. ASSUME NEW c \in Managed(wm) PROVE Steady(wm, [wm EXCEPT !.cl[c].isfixed = ~@])
  BY <1>1, fixedSteady
<1>3. Steady(wm, wm')
  BY <1>2 DEF SizeHints
<1> QED
  BY <1>1, <1>3, SteadyFocuses, QuietFocus

LEMMA ExposeFocus ==
  ASSUME IInv, Focused, Expose
  PROVE  Focused'
<1>1. Good(wm) /\ queue' = queue
  BY DEF IInv, Sound, Expose, Does
<1>2. ASSUME NEW i PROVE Steady(wm, drawbar(wm, i))
  BY <1>1, SteadySelf, arrangeSteady DEF arrange
<1>3. Steady(wm, wm')
  BY <1>2 DEF Expose, Does
<1> QED
  BY <1>1, <1>3, SteadyFocuses, QuietFocus

LEMMA ConfigureFocus ==
  ASSUME IInv, Focused, ConfigureNotify, ~Unplugged
  PROVE  Focused'
<1>1. Good(wm) /\ queue' = queue
  BY DEF IInv, Sound, ConfigureNotify, Does
<1>2. PICK n \in Heads, moved \in BOOLEAN, wider \in BOOLEAN :
        \E pointer \in 1..n :
          LET geom == updategeom(wm, n, moved, pointer)
          IN Does(IF geom.dirty \/ wider THEN arrange_all(focus(geom.d, None)) ELSE geom.d)
  BY DEF ConfigureNotify
<1>3. PICK pointer \in 1..n :
        LET geom == updategeom(wm, n, moved, pointer)
        IN Does(IF geom.dirty \/ wider THEN arrange_all(focus(geom.d, None)) ELSE geom.d)
  BY <1>2
<1>g. PICK geom : geom = updategeom(wm, n, moved, pointer)
  OBVIOUS
<1>4. n \in Nat \ {0}
  BY DwmAssumption
<1>5. /\ Refits(wm, geom.d)
      /\ ~geom.dirty => \/ geom.d = wm
                        \/ Len(geom.d.mons) < Len(wm.mons) /\ geom.d.cl = wm.cl
  BY <1>1, <1>4, <1>g, updategeomFact
<1>6. CASE geom.dirty \/ wider
  <2>1. wm' = arrange_all(focus(geom.d, None))
    BY <1>3, <1>6, <1>g DEF Does
  <2>2. Leads(geom.d, focus(geom.d, None)) /\ Settled(focus(geom.d, None))
    BY <1>5, focusFact DEF Refits
  <2>3. Settled(wm')
    BY <2>1, <2>2, arrangeSettled DEF Leads
  <2> QED
    BY <2>3, SettledAgrees, FocusedAgrees
<1>7. CASE ~(geom.dirty \/ wider)
  <2>1. wm' = geom.d
    BY <1>3, <1>7, <1>g DEF Does
  <2>2. wm' = wm
    BY <1>5, <1>7, <2>1 DEF Unplugged
  <2> QED
    BY <1>1, <2>2, FocusedAgrees
<1> QED
  BY <1>6, <1>7

LEMMA KeyFocus ==
  ASSUME IInv, Focused, Key
  PROVE  Focused'
<1>1. Good(wm)
  BY DEF IInv, Sound
<1>2. ASSUME NEW arg \in {{t} : t \in Tags} \cup {Everything, {}}
      PROVE  Ends(wm, view(wm, arg))
  BY <1>1, viewFact DEF Ends
<1>3. ASSUME NEW t \in Tags, NEW u \in BOOLEAN PROVE Ends(wm, toggleview(wm, {t}, u))
  BY <1>1, toggleviewFact DEF Ends
<1>4. ASSUME NEW arg PROVE Ends(wm, tag(wm, arg)) /\ Ends(wm, toggletag(wm, arg))
  BY <1>1, tagFact, toggletagFact
<1>5. ASSUME NEW dir \in {1, -1}
      PROVE  /\ Ends(wm, tagmon(wm, dir)) /\ Ends(wm, focusmon(wm, dir))
             /\ Ends(wm, focusstack(wm, dir))
  BY <1>1, tagmonFact, focusmonFact, focusstackFact
<1>6. ASSUME NEW n PROVE Ends(wm, focusnstack(wm, n))
  BY <1>1, focusnstackFact
<1>7. Ends(wm, zoom(wm)) /\ Ends(wm, winview(wm))
  BY <1>1, zoomFact, winviewFact DEF Ends
<1>8. Focuses(wm, togglefloating(wm)) /\ Focuses(wm, togglefullscr(wm))
  BY <1>1, togglefloatingSteady, togglefullscrSteady, SteadyFocuses
<1>9. PICK e : Focuses(wm, e) /\ Does(e)
  BY <1>2, <1>3, <1>4, <1>5, <1>6, <1>7, <1>8, EndsFocuses DEF Key
<1> QED
  BY <1>9, QuietFocus DEF Does

LEMMA SettingFocus ==
  ASSUME IInv, Focused, SettingKey
  PROVE  Focused'
<1>1. Good(wm) /\ queue' = queue
  BY DEF IInv, Sound, SettingKey
<1>2. ASSUME NEW i \in DOMAIN wm.mons, NEW layout \in {None, "monocle"}
      PROVE  Focuses(wm, setlayout(clicked(wm, i), layout))
  <2>1. Ends(wm, clicked(wm, i)) /\ Good(clicked(wm, i))
    BY <1>1, clickedFact DEF Leads
  <2>2. layout \in Layouts \cup {None}
    BY DEF Layouts
  <2>3. Steady(clicked(wm, i), setlayout(clicked(wm, i), layout))
    BY <2>1, <2>2, setlayoutFact
  <2> QED
    BY <2>1, <2>3, EndsFocuses, SteadyFocuses, FocusesTrans
<1>3. ASSUME NEW layout \in KeyLayouts \cup {None} PROVE Steady(wm, setlayout(wm, layout))
  <2>1. layout \in Layouts \cup {None}
    BY DwmAssumption
  <2> QED
    BY <1>1, <2>1, setlayoutFact
<1>4. ASSUME NEW step \in MfactStep PROVE Steady(wm, setmfact(wm, step))
  <2>1. step \in Int
    BY DwmAssumption
  <2> QED
    BY <1>1, <2>1, setmfactFact
<1>5. ASSUME NEW n \in {1, -1} PROVE Steady(wm, incnmaster(wm, n))
  BY <1>1, incnmasterFact
<1>6. Steady(wm, togglebar(wm))
  BY <1>1, togglebarChanges
<1>7. CASE Steady(wm, wm')
  BY <1>1, <1>7, SteadyFocuses, QuietFocus
<1>8. CASE Focuses(wm, wm')
  BY <1>1, <1>8, QuietFocus
<1> QED
  BY <1>2, <1>3, <1>4, <1>5, <1>6, <1>7, <1>8 DEF SettingKey

LEMMA killclientFocus ==
  ASSUME IInv, Focused, killclient
  PROVE  Focused'
<1>1. Sel(wm) # None /\ Destroy(Sel(wm)) /\ Good(wm)
  BY DEF IInv, Sound, killclient
<1>2. Sel(wm) \in Window
  BY <1>1, SelFact DEF Managed
<1> QED
  BY <1>1, <1>2, DestroyFocus

LEMMA quitFocus ==
  ASSUME IInv, quit
  PROVE  Focused'
<1>1. Good(wm) /\ wm' = cleanup(wm)
  BY DEF IInv, Sound, quit, Does
<1>2. wm'.run \in {"quit", "crashed"}
  BY <1>1, cleanupFact
<1>3. Agreed(wm', queue')
  BY <1>2 DEF Agreed
<1> QED
  BY <1>3, FocusedAgrees

-----------------------------------------------------------------------------
(* The theorem.                                                            *)

LEMMA NextFocus ==
  ASSUME IInv, [Next]_vars, Focused, ~Unplugged, ~Accepts
  PROVE  Focused'
<1>1. CASE Scan
  BY <1>1, ScanFocus
<1>2. CASE run
  BY <1>2, runFocus
<1>3. ASSUME NEW w \in Window, Map(w) \/ Unmap(w) \/ Destroy(w) \/ Steal(w) \/ Withdraw(w)
      PROVE  Focused'
  BY <1>3, MapFocus, UnmapFocus, DestroyFocus, StealFocus, WithdrawFocus
<1>4. CASE EnterNotify \/ MotionNotify
  BY <1>4, PointerFocus
<1>5. CASE ButtonPress
  BY <1>5, ButtonPressFocus
<1>6. CASE ClientMessage
  BY <1>6, MessageFocus
<1>7. CASE PropertyNotify
  BY <1>7, PropertyFocus
<1>s. CASE SizeHints
  BY <1>s, SizeHintsFocus
<1>8. CASE Expose
  BY <1>8, ExposeFocus
<1>9. CASE ConfigureNotify
  BY <1>9, ConfigureFocus
<1>10. CASE Key
  BY <1>10, KeyFocus
<1>11. CASE SettingKey
  BY <1>11, SettingFocus
<1>12. CASE killclient
  BY <1>12, killclientFocus
<1>13. CASE quit
  BY <1>13, quitFocus
<1>14. CASE StartDrag
  BY <1>14, StartDragFocus
<1>15. CASE DragMapRequest
  BY <1>15, DragMapRequestFocus
<1>16. CASE DragMotion
  BY <1>16, DragMotionFocus
<1>17. CASE DragRelease
  BY <1>17, DragReleaseFocus
<1>18. CASE UNCHANGED vars
  BY <1>18, FocusedAgrees DEF vars
<1> QED
  BY <1>1, <1>2, <1>3, <1>4, <1>5, <1>6, <1>7, <1>s, <1>8, <1>9, <1>10, <1>11, <1>12, <1>13,
     <1>14, <1>15, <1>16, <1>17, <1>18 DEF Next

\* Where the selected client is on top of the history in view, is not urgent
\* and has the keyboard, it is so after the next step: windows come and go,
\* others steal the keyboard, events are read out of their order, screens are
\* plugged and every key is pressed.  The two steps that may break it are
\* those that dwm itself does not follow up.
THEOREM FocusStays == Spec => FocusKept
<1>1. IInv /\ [Next]_vars => [Focused /\ ~Unplugged /\ ~Accepts => Focused']_vars
  BY NextFocus
<1> QED
  BY <1>1, Invariant, PTL DEF Spec, FocusKept

=============================================================================
