----------------------------- MODULE Dwm_proofs -----------------------------
(***************************************************************************)
(* Proofs about module Dwm, for any windows, tags, rules, screens and      *)
(* bounds.                                                                 *)
(***************************************************************************)
EXTENDS Dwm, FiniteSetTheorems, SequenceTheorems, TLAPS

-----------------------------------------------------------------------------
(* The invariant.                                                          *)

Setting ==
  [nmaster : Int, mfact : Int, sellt : 0..1, lt : [0..1 -> Layouts], showbar : BOOLEAN]

Views == (SUBSET Tags) \ {{}}

Mon ==
  [seltags : 0..1, tagset : [0..1 -> Views], cur : 0..TAGS, prev : 0..TAGS,
   set : Setting, per : [0..TAGS -> Setting],
   clients : Seq(Window), stack : Seq(Window), sel : Window \cup {None}]

State ==
  [mons : Seq(Mon), selmon : Nat, cl : [Window -> Client \cup {None}],
   input : Window \cup {Root, PointerRoot}, viewable : SUBSET Window,
   run : {"starting", "running", "quit", "crashed"}]

\* A screen is selected, a client is on a screen and has a tag, and the
\* keyboard belongs to a window that is mapped.
Typed(d) ==
  /\ d \in State
  /\ d.selmon \in DOMAIN d.mons
  /\ d.input \in d.viewable \cup {Root, PointerRoot}
  /\ \A w \in Managed(d) : d.cl[w].mon \in DOMAIN d.mons /\ d.cl[w].tags # {}

\* The list s holds the clients of X, each of them once.
Holds(s, X) ==
  /\ \A i, j \in DOMAIN s : s[i] = s[j] => i = j
  /\ \A w : w \in X <=> \E i \in DOMAIN s : s[i] = w

On(d, i) == {w \in Managed(d) : d.cl[w].mon = i}

\* Every client is in the two lists of its screen, but for those of A, that a
\* handler has taken out of the clients, and those of B, out of the stack.
Linked(d, A, B) ==
  \A i \in DOMAIN d.mons :
    /\ Holds(d.mons[i].clients, On(d, i) \ A)
    /\ Holds(d.mons[i].stack, On(d, i) \ B)
    /\ d.mons[i].sel \in (On(d, i) \ B) \cup {None}

Partial(d, A, B) == Typed(d) /\ Linked(d, A, B)
Good(d) == Partial(d, {}, {})

\* What a screen shows is what the current tag has.
Tuned(d) == \A i \in DOMAIN d.mons : d.mons[i].set = d.mons[i].per[d.mons[i].cur]

\* From d to e no client, and no window, came or went.
Keeps(d, e) ==
  /\ e.viewable = d.viewable
  /\ Managed(e) = Managed(d)
  /\ e.run \in {d.run, "crashed"}
  /\ Tuned(d) => Tuned(e)

\* Every screen has the same tags in view, and its tags their settings.
Look(m) == <<m.per, m.cur, m.seltags, m.tagset>>
Looks(d, e) == \A i \in DOMAIN d.mons : Look(e.mons[i]) = Look(d.mons[i])

Stays(d, e) == Keeps(d, e) /\ DOMAIN e.mons = DOMAIN d.mons /\ Looks(d, e)

\* A handler takes a good state d to another one.
Leads(d, e) == Good(e) /\ Stays(d, e)

\* Whatever is in view, no tag has got other settings.
Same(d, e) == \A i \in DOMAIN d.mons \cap DOMAIN e.mons : e.mons[i].per = d.mons[i].per

Turns(d, e) == Good(e) /\ Keeps(d, e) /\ DOMAIN e.mons = DOMAIN d.mons /\ Same(d, e)

\* Whatever is set, the same tags are in view, and only the current one of the
\* selected screen has got other settings.
Sets(d, e) ==
  \A i \in DOMAIN d.mons :
    /\ e.mons[i].cur = d.mons[i].cur /\ ViewOf(e.mons[i]) = ViewOf(d.mons[i])
    /\ \A t \in 0..TAGS :
         e.mons[i].per[t] # d.mons[i].per[t] => i = e.selmon /\ t = d.mons[i].cur

Changes(d, e) == Good(e) /\ Keeps(d, e) /\ DOMAIN e.mons = DOMAIN d.mons /\ Sets(d, e)

\* What is selected is on top of the history of the tags in view, is not
\* urgent, and has the keyboard if it wants it and is mapped: as focus leaves it.
Rests(d, c) ==
  c # None => /\ ~d.cl[c].isurgent
              /\ d.input = c \/ d.cl[c].neverfocus \/ c \notin d.viewable

Settled(d) == Sel(d) = FirstVisible(d, d.selmon) /\ Rests(d, Sel(d))

\* Drawing a bar changes nothing, but it may be the end.
Drawn(d, e) == e = d \/ e = [d EXCEPT !.run = "crashed"]

\* A handler does nothing, or it leaves the focus settled, or it is the end.
Ends(d, e) == e = d \/ Settled(e) \/ e.run = "crashed"

\* Nothing that decides what should have the focus, nor who has it, changes,
\* unless what is selected stops being urgent or wanting the keyboard.
Steady(d, e) ==
  /\ e.selmon = d.selmon /\ e.input = d.input /\ e.viewable = d.viewable
  /\ e.run \in {d.run, "crashed"}
  /\ DOMAIN e.mons = DOMAIN d.mons /\ Managed(e) = Managed(d)
  /\ \A i \in DOMAIN d.mons : ViewOf(e.mons[i]) = ViewOf(d.mons[i])
  /\ SelMon(e).stack = SelMon(d).stack /\ Sel(e) = Sel(d)
  /\ \A c \in Managed(d) : e.cl[c].mon = d.cl[c].mon /\ e.cl[c].tags = d.cl[c].tags
  /\ Sel(d) # None =>
       /\ e.cl[Sel(d)].isurgent => d.cl[Sel(d)].isurgent
       /\ d.cl[Sel(d)].neverfocus => e.cl[Sel(d)].neverfocus

-----------------------------------------------------------------------------
(* Numbers and lists.                                                      *)

LEMMA MinFact ==
  ASSUME NEW T \in SUBSET Nat, T # {}
  PROVE  \E x \in T : \A y \in T : x <= y
<1> DEFINE R == {x \in Nat \X Nat : x[1] < x[2]}
<1>1. OpToRel(<, Nat) = R
  BY DEF OpToRel
<1>2. IsWellFoundedOn(R, Nat)
  BY <1>1, NatLessThanWellFounded
<1>3. \A x, y \in Nat : <<y, x>> \in R <=> y < x
  OBVIOUS
<1> HIDE DEF R
<1>4. PICK x \in T : \A y \in T : ~(<<y, x>> \in R)
  BY <1>2, WFMin
<1>5. \A y \in T : ~(y < x)
  BY <1>3, <1>4
<1>6. \A y \in T : x <= y
  BY <1>5
<1> QED
  BY <1>6

LEMMA LowestFact ==
  ASSUME NEW T \in SUBSET Nat, T # {}
  PROVE  Lowest(T) \in T
<1>1. \E t \in T : \A u \in T : t <= u
  BY MinFact
<1> QED
  BY <1>1 DEF Lowest

\* The last of some places in a list.
LEMMA MaxFact ==
  ASSUME NEW n \in Nat, NEW T \in SUBSET (1..n), T # {}
  PROVE  Max(T) \in T
<1> DEFINE U == {n - x : x \in T}
<1>1. U \in SUBSET Nat /\ U # {}
  <2>1. \A x \in T : x \in Int /\ n - x \in Nat
    OBVIOUS
  <2> QED
    BY <2>1
<1>2. PICK u \in U : \A y \in U : u <= y
  BY <1>1, MinFact
<1>3. PICK x \in T : u = n - x
  BY <1>2
<1>4. \A y \in T : n - y \in U
  OBVIOUS
<1>5. \A y \in T : x >= y
  BY <1>2, <1>3, <1>4
<1>6. \E m \in T : \A y \in T : m >= y
  BY <1>5
<1> QED
  BY <1>6 DEF Max

LEMMA FirstInFact ==
  ASSUME NEW s \in Seq(Window), NEW C
  PROVE  \/ FirstIn(s, C) = None
         \/ FirstIn(s, C) \in C /\ \E i \in DOMAIN s : s[i] = FirstIn(s, C)
<1> DEFINE T == {i \in DOMAIN s : s[i] \in C}
<1>1. T \in SUBSET Nat
  OBVIOUS
<1>2. T # {} => Lowest(T) \in T
  BY <1>1, LowestFact
<1> QED
  BY <1>2 DEF FirstIn

LEMMA FirstInTop ==
  ASSUME NEW s \in Seq(Window), NEW C, NEW c \in Window, c \in C
  PROVE  FirstIn(<<c>> \o s, C) = c
<1>t. PICK t : t = <<c>> \o s
  OBVIOUS
<1>T. PICK T : T = {i \in DOMAIN t : t[i] \in C}
  OBVIOUS
<1>1. t \in Seq(Window) /\ 1 \in DOMAIN t /\ t[1] = c
  BY <1>t
<1>2. 1 \in T /\ \A i \in T : i \in Nat /\ 1 <= i
  BY <1>1, <1>T
<1>3. Lowest(T) \in T /\ Lowest(T) <= 1
  BY <1>2 DEF Lowest
<1>4. Lowest(T) = 1
  BY <1>2, <1>3
<1> QED
  BY <1>t, <1>T, <1>1, <1>2, <1>4 DEF FirstIn

LEMMA PlaceFact ==
  ASSUME NEW s \in Seq(Window), NEW X, Holds(s, X), NEW c \in X
  PROVE  Place(s, c) \in 1..Len(s) /\ s[Place(s, c)] = c
<1>1. \E i \in DOMAIN s : s[i] = c
  BY DEF Holds
<1> QED
  BY <1>1 DEF Place

LEMMA ConcatFact ==
  ASSUME NEW S, NEW u \in Seq(S), NEW v \in Seq(S)
  PROVE  /\ u \o v \in Seq(S)
         /\ Len(u \o v) = Len(u) + Len(v)
         /\ \A i \in 1..Len(u \o v) :
              (u \o v)[i] = IF i <= Len(u) THEN u[i] ELSE v[i - Len(u)]
OBVIOUS

\* t is u and then k times x.
Grows(u, t, x, k) == t = u \o [i \in 1..k |-> x]

LEMMA RepeatFact ==
  ASSUME NEW S, NEW u \in Seq(S), NEW x \in S, NEW k \in Nat, NEW t, Grows(u, t, x, k)
  PROVE  /\ t \in Seq(S) /\ Len(t) = Len(u) + k
         /\ \A i \in 1..Len(u) : t[i] = u[i]
         /\ \A i \in 1..(Len(u) + k) : i \notin 1..Len(u) => t[i] = x
<1>v. PICK v : v = [i \in 1..k |-> x]
  OBVIOUS
<1>1. v \in Seq(S) /\ Len(v) = k /\ \A i \in 1..k : v[i] = x
  BY <1>v
<1>2. t = u \o v
  BY <1>v DEF Grows
<1>3. /\ t \in Seq(S) /\ Len(t) = Len(u) + k
      /\ \A i \in 1..(Len(u) + k) : t[i] = IF i <= Len(u) THEN u[i] ELSE v[i - Len(u)]
  <2>1. v \in Seq(S) /\ Len(v) = k
    BY <1>1
  <2>2. /\ u \o v \in Seq(S) /\ Len(u \o v) = Len(u) + Len(v)
        /\ \A i \in 1..Len(u \o v) :
             (u \o v)[i] = IF i <= Len(u) THEN u[i] ELSE v[i - Len(u)]
    BY <2>1, ConcatFact
  <2> QED
    BY <1>2, <2>1, <2>2
<1>n. PICK n \in Nat : n = Len(u)
  OBVIOUS
<1>5. \A i \in 1..n : i \in 1..(n + k) /\ i <= n
  OBVIOUS
<1>6. \A i \in 1..(n + k) : i \notin 1..n => ~(i <= n) /\ i - n \in 1..k
  OBVIOUS
<1> QED
  BY <1>1, <1>3, <1>n, <1>5, <1>6

\* Taking a client out of a list.
LEMMA HoldsRemoved ==
  ASSUME NEW s \in Seq(Window), NEW X, Holds(s, X), NEW c \in X
  PROVE  /\ RemoveAt(s, Place(s, c)) \in Seq(Window)
         /\ Holds(RemoveAt(s, Place(s, c)), X \ {c})
<1> PICK k : k = Place(s, c)
  OBVIOUS
<1> DEFINE t == RemoveAt(s, k)
<1>1. k \in 1..Len(s) /\ s[k] = c
  BY PlaceFact
<1>2. /\ t \in Seq(Window)
      /\ Len(t) = Len(s) - 1
      /\ \A i \in 1..Len(t) : t[i] = IF i < k THEN s[i] ELSE s[i + 1]
  <2> DEFINE u == SubSeq(s, 1, k - 1)
             v == SubSeq(s, k + 1, Len(s))
  <2>1. /\ u \in Seq(Window) /\ Len(u) = k - 1
        /\ \A i \in 1..(k - 1) : u[i] = s[i]
    BY <1>1
  <2>2. /\ v \in Seq(Window) /\ Len(v) = Len(s) - k
        /\ \A i \in 1..(Len(s) - k) : v[i] = s[i + k]
    BY <1>1
  <2>3. t = u \o v
    BY DEF RemoveAt
  <2> HIDE DEF u, v, t
  <2>4. t \in Seq(Window) /\ Len(t) = Len(s) - 1
    BY <1>1, <2>1, <2>2, <2>3
  <2>5. ASSUME NEW i \in 1..Len(t) PROVE t[i] = IF i < k THEN s[i] ELSE s[i + 1]
    <3>1. CASE i < k
      BY <1>1, <2>1, <2>2, <2>3, <2>4, <3>1
    <3>2. CASE ~(i < k)
      <4>1. i - Len(u) \in 1..(Len(s) - k) /\ (i - Len(u)) + k = i + 1
        BY <1>1, <2>1, <2>4, <3>2
      <4>2. ~(i <= Len(u))
        BY <1>1, <2>1, <2>4, <3>2
      <4>3. t[i] = v[i - Len(u)]
        BY <2>1, <2>2, <2>3, <4>2, ConcatFact
      <4> QED
        BY <2>2, <3>2, <4>1, <4>3
    <3> QED
      BY <3>1, <3>2
  <2> QED
    BY <2>4, <2>5
<1> HIDE DEF t
<1>3. \A i, j \in DOMAIN t : t[i] = t[j] => i = j
  <2> SUFFICES ASSUME NEW i \in 1..Len(t), NEW j \in 1..Len(t), t[i] = t[j]
               PROVE  i = j
    BY <1>2
  <2> DEFINE Of(m) == IF m < k THEN m ELSE m + 1
  <2>1. Of(i) \in DOMAIN s /\ Of(j) \in DOMAIN s /\ s[Of(i)] = s[Of(j)]
    BY <1>1, <1>2
  <2>2. Of(i) = Of(j)
    BY <2>1 DEF Holds
  <2> QED
    BY <1>1, <1>2, <2>2
<1>4. ASSUME NEW w PROVE w \in X \ {c} <=> \E i \in DOMAIN t : t[i] = w
  <2>1. ASSUME w \in X \ {c} PROVE \E i \in DOMAIN t : t[i] = w
    <3>1. PICK i \in DOMAIN s : s[i] = w
      BY <2>1 DEF Holds
    <3>2. i \in 1..Len(s) /\ i # k
      BY <1>1, <2>1, <3>1
    <3>3. CASE i < k
      <4>1. i \in 1..Len(t) /\ t[i] = w
        BY <1>1, <1>2, <3>1, <3>2, <3>3
      <4> QED
        BY <1>2, <4>1
    <3>4. CASE i > k
      <4>1. i - 1 \in 1..Len(t) /\ t[i - 1] = w
        BY <1>1, <1>2, <3>1, <3>2, <3>4
      <4> QED
        BY <1>2, <4>1
    <3> QED
      BY <1>1, <3>2, <3>3, <3>4
  <2>2. ASSUME NEW i \in DOMAIN t, t[i] = w PROVE w \in X \ {c}
    <3> DEFINE j == IF i < k THEN i ELSE i + 1
    <3>1. j \in DOMAIN s /\ s[j] = w /\ j # k
      BY <1>1, <1>2, <2>2
    <3>2. w # c
      BY <1>1, <3>1 DEF Holds
    <3> QED
      BY <3>1, <3>2 DEF Holds
  <2> QED
    BY <2>1, <2>2
<1>5. t \in Seq(Window) /\ Holds(t, X \ {c})
  BY <1>2, <1>3, <1>4 DEF Holds
<1> QED
  BY <1>5 DEF t

\* Putting a client in front.
LEMMA HoldsFront ==
  ASSUME NEW s \in Seq(Window), NEW X, Holds(s, X), NEW c \in Window, c \notin X
  PROVE  /\ <<c>> \o s \in Seq(Window)
         /\ Holds(<<c>> \o s, X \cup {c})
<1> DEFINE t == <<c>> \o s
<1>1. /\ t \in Seq(Window)
      /\ Len(t) = Len(s) + 1
      /\ t[1] = c
      /\ \A i \in 1..Len(s) : t[i + 1] = s[i]
  OBVIOUS
<1>2. \A i \in 2..Len(t) : i - 1 \in 1..Len(s) /\ t[i] = s[i - 1]
  <2> SUFFICES ASSUME NEW i \in 2..Len(t) PROVE i - 1 \in 1..Len(s) /\ t[i] = s[i - 1]
    OBVIOUS
  <2>1. i - 1 \in 1..Len(s) /\ (i - 1) + 1 = i
    BY <1>1
  <2> QED
    BY <1>1, <2>1
<1> HIDE DEF t
<1>3. \A i \in DOMAIN s : s[i] # c
  BY DEF Holds
<1>4. \A i, j \in DOMAIN t : t[i] = t[j] => i = j
  <2> SUFFICES ASSUME NEW i \in 1..Len(t), NEW j \in 1..Len(t), t[i] = t[j]
               PROVE  i = j
    BY <1>1
  <2>1. CASE i = 1 \/ j = 1
    BY <1>1, <1>2, <1>3, <2>1
  <2>2. CASE i # 1 /\ j # 1
    <3>1. i \in 2..Len(t) /\ j \in 2..Len(t)
      BY <2>2
    <3>2. i - 1 = j - 1
      BY <1>2, <3>1 DEF Holds
    <3> QED
      BY <3>1, <3>2
  <2> QED
    BY <2>1, <2>2
<1>5. ASSUME NEW w PROVE w \in X \cup {c} <=> \E i \in DOMAIN t : t[i] = w
  <2>1. ASSUME w \in X PROVE \E i \in DOMAIN t : t[i] = w
    <3>1. PICK i \in DOMAIN s : s[i] = w
      BY <2>1 DEF Holds
    <3>2. i + 1 \in DOMAIN t /\ t[i + 1] = w
      BY <1>1, <3>1
    <3> QED
      BY <3>2
  <2>2. 1 \in DOMAIN t /\ t[1] = c
    BY <1>1
  <2>3. ASSUME NEW i \in DOMAIN t, t[i] = w PROVE w \in X \cup {c}
    <3>1. i = 1 \/ i \in 2..Len(t)
      BY <1>1
    <3> QED
      BY <1>1, <1>2, <2>3, <3>1 DEF Holds
  <2> QED
    BY <2>1, <2>2, <2>3
<1>6. t \in Seq(Window) /\ Holds(t, X \cup {c})
  BY <1>1, <1>4, <1>5 DEF Holds
<1> QED
  BY <1>6 DEF t

-----------------------------------------------------------------------------
(* Changes of one screen.                                                  *)

\* The screen i is replaced by m.
OneMon(d, e, i, m) == e = [d EXCEPT !.mons[i] = m]

LEMMA MonFact ==
  ASSUME NEW d \in State, NEW i \in DOMAIN d.mons, NEW m \in Mon,
         NEW e, OneMon(d, e, i, m)
  PROVE  /\ e \in State
         /\ DOMAIN e.mons = DOMAIN d.mons
         /\ e.mons[i] = m
         /\ \A j \in DOMAIN d.mons : j # i => e.mons[j] = d.mons[j]
         /\ e.selmon = d.selmon /\ e.cl = d.cl /\ e.input = d.input
         /\ e.viewable = d.viewable /\ e.run = d.run
<1>1. d.mons \in Seq(Mon) /\ i \in 1..Len(d.mons)
  BY DEF State
<1> PICK M : M = [d.mons EXCEPT ![i] = m]
  OBVIOUS
<1>2. /\ M \in Seq(Mon) /\ Len(M) = Len(d.mons) /\ DOMAIN M = DOMAIN d.mons
      /\ M[i] = m /\ \A j \in DOMAIN d.mons : j # i => M[j] = d.mons[j]
  BY <1>1
<1>3. e = [d EXCEPT !.mons = M]
  BY DEF OneMon
<1>4. e \in State /\ e.mons = M
  BY <1>2, <1>3 DEF State
<1>5. /\ e.selmon = d.selmon /\ e.cl = d.cl /\ e.input = d.input
      /\ e.viewable = d.viewable /\ e.run = d.run
  BY <1>3 DEF State
<1> QED
  BY <1>2, <1>4, <1>5

LEMMA MonType ==
  ASSUME NEW d \in State, NEW i \in DOMAIN d.mons
  PROVE  d.mons[i] \in Mon
BY DEF State

\* m can take the place of screen i: those who are in its lists are the
\* clients there but those of A2 and B2, which are on that screen the others
\* than those of A and B; its settings are its current tag's, and its tags are
\* in view as before.
Fits(d, i, m, A, B, A2, B2) ==
  /\ m \in Mon
  /\ Holds(m.clients, On(d, i) \ A2)
  /\ Holds(m.stack, On(d, i) \ B2)
  /\ m.sel \in (On(d, i) \ B2) \cup {None}
  /\ \A j \in DOMAIN d.mons : j # i => /\ On(d, j) \ A = On(d, j) \ A2
                                       /\ On(d, j) \ B = On(d, j) \ B2
  /\ d.mons[i].set = d.mons[i].per[d.mons[i].cur] => m.set = m.per[m.cur]
  /\ Look(m) = Look(d.mons[i])

LEMMA ListFact ==
  ASSUME NEW d, NEW A, NEW B, Partial(d, A, B), NEW i \in DOMAIN d.mons,
         NEW m, NEW A2, NEW B2, Fits(d, i, m, A, B, A2, B2), NEW e, OneMon(d, e, i, m)
  PROVE  /\ Partial(e, A2, B2)
         /\ Stays(d, e)
         /\ e.cl = d.cl /\ e.selmon = d.selmon /\ e.input = d.input /\ e.run = d.run
         /\ e.viewable = d.viewable
         /\ e.mons[i] = m
         /\ \A j \in DOMAIN d.mons : j # i => e.mons[j] = d.mons[j]
<1>1. d \in State
  BY DEF Partial, Typed
<1>2. /\ e \in State
      /\ DOMAIN e.mons = DOMAIN d.mons
      /\ e.mons[i] = m
      /\ \A j \in DOMAIN d.mons : j # i => e.mons[j] = d.mons[j]
      /\ e.selmon = d.selmon /\ e.cl = d.cl /\ e.input = d.input
      /\ e.viewable = d.viewable /\ e.run = d.run
  BY <1>1, MonFact DEF Fits
<1>3. Typed(e)
  BY <1>2 DEF Partial, Typed, Managed
<1>4. ASSUME Tuned(d), NEW j \in DOMAIN d.mons
      PROVE  e.mons[j].set = e.mons[j].per[e.mons[j].cur]
  <2>1. d.mons[j].set = d.mons[j].per[d.mons[j].cur]
    BY <1>4 DEF Tuned
  <2>2. CASE j = i
    BY <1>2, <2>1, <2>2 DEF Fits
  <2>3. CASE j # i
    BY <1>2, <2>1, <2>3
  <2> QED
    BY <2>2, <2>3
<1>5. Tuned(d) => Tuned(e)
  BY <1>2, <1>4 DEF Tuned
<1>l. Looks(d, e)
  BY <1>2 DEF Looks, Fits
<1>6. Stays(d, e)
  BY <1>2, <1>5, <1>l DEF Stays, Keeps, Managed
<1>7. \A j : On(e, j) = On(d, j)
  BY <1>2 DEF On, Managed
<1>8. Linked(e, A2, B2)
  <2> SUFFICES ASSUME NEW j \in DOMAIN d.mons
               PROVE  /\ Holds(e.mons[j].clients, On(d, j) \ A2)
                      /\ Holds(e.mons[j].stack, On(d, j) \ B2)
                      /\ e.mons[j].sel \in (On(d, j) \ B2) \cup {None}
    BY <1>2, <1>7 DEF Linked
  <2>1. CASE j = i
    BY <1>2, <2>1 DEF Fits
  <2>2. CASE j # i
    <3>1. /\ Holds(d.mons[j].clients, On(d, j) \ A)
          /\ Holds(d.mons[j].stack, On(d, j) \ B)
          /\ d.mons[j].sel \in (On(d, j) \ B) \cup {None}
      BY DEF Partial, Linked
    <3>2. On(d, j) \ A = On(d, j) \ A2 /\ On(d, j) \ B = On(d, j) \ B2 /\ e.mons[j] = d.mons[j]
      BY <1>2, <2>2 DEF Fits
    <3> QED
      BY <3>1, <3>2
  <2> QED
    BY <2>1, <2>2
<1> QED
  BY <1>2, <1>3, <1>6, <1>8 DEF Partial

\* What holds of one screen.
LEMMA MonFacts ==
  ASSUME NEW d, NEW A, NEW B, Partial(d, A, B), NEW i \in DOMAIN d.mons
  PROVE  /\ d \in State
         /\ d.mons[i] \in Mon
         /\ d.mons[i].clients \in Seq(Window) /\ d.mons[i].stack \in Seq(Window)
         /\ Holds(d.mons[i].clients, On(d, i) \ A)
         /\ Holds(d.mons[i].stack, On(d, i) \ B)
         /\ d.mons[i].sel \in (On(d, i) \ B) \cup {None}
         /\ On(d, i) \subseteq Managed(d) /\ Managed(d) \subseteq Window
<1>1. d \in State /\ d.mons[i] \in Mon
  BY MonType DEF Partial, Typed
<1>2. d.mons[i].clients \in Seq(Window) /\ d.mons[i].stack \in Seq(Window)
  BY <1>1 DEF Mon
<1> QED
  BY <1>1, <1>2 DEF Partial, Linked, On, Managed

LEMMA ClientFacts ==
  ASSUME NEW d, NEW A, NEW B, Partial(d, A, B), NEW c \in Managed(d)
  PROVE  /\ c \in Window /\ c # None
         /\ d.cl[c] \in Client
         /\ d.cl[c].mon \in DOMAIN d.mons
         /\ d.cl[c].tags # {}
         /\ c \in On(d, d.cl[c].mon)
         /\ \A j : j # d.cl[c].mon => c \notin On(d, j)
<1>1. d \in State /\ c \in Window /\ d.cl[c] # None
  BY DEF Partial, Typed, Managed
<1>2. d.cl[c] \in Client
  BY <1>1 DEF State
<1> QED
  BY <1>1, <1>2, DwmAssumption DEF Partial, Typed, On

LEMMA attachFact ==
  ASSUME NEW d, NEW A, NEW B, Partial(d, A, B), NEW c \in Managed(d), c \in A
  PROVE  /\ Partial(attach(d, c), A \ {c}, B)
         /\ Stays(d, attach(d, c))
         /\ attach(d, c).cl = d.cl
         /\ attach(d, c).selmon = d.selmon
         /\ attach(d, c).viewable = d.viewable
<1>i. PICK i : i = d.cl[c].mon
  OBVIOUS
<1>m. PICK m : m = [d.mons[i] EXCEPT !.clients = <<c>> \o @]
  OBVIOUS
<1>1. OneMon(d, attach(d, c), i, m)
  BY <1>i, <1>m DEF attach, OneMon
<1>2. c \in Window /\ i \in DOMAIN d.mons /\ c \in On(d, i) /\ \A j : j # i => c \notin On(d, j)
  BY <1>i, ClientFacts
<1>3. /\ d.mons[i] \in Mon /\ d.mons[i].clients \in Seq(Window)
      /\ Holds(d.mons[i].clients, On(d, i) \ A)
      /\ Holds(d.mons[i].stack, On(d, i) \ B)
      /\ d.mons[i].sel \in (On(d, i) \ B) \cup {None}
  BY <1>2, MonFacts
<1>4. c \notin On(d, i) \ A /\ (On(d, i) \ A) \cup {c} = On(d, i) \ (A \ {c})
  BY <1>2
<1>5. <<c>> \o d.mons[i].clients \in Seq(Window)
      /\ Holds(<<c>> \o d.mons[i].clients, On(d, i) \ (A \ {c}))
  BY <1>2, <1>3, <1>4, HoldsFront
<1>6. /\ m.clients = <<c>> \o d.mons[i].clients
      /\ m.stack = d.mons[i].stack /\ m.sel = d.mons[i].sel
      /\ m.set = d.mons[i].set /\ m.per = d.mons[i].per /\ m.cur = d.mons[i].cur
      /\ Look(m) = Look(d.mons[i])
  BY <1>3, <1>m DEF Mon, Look
<1>7. m \in Mon
  BY <1>3, <1>5, <1>m DEF Mon
<1>8. \A j \in DOMAIN d.mons : j # i => On(d, j) \ A = On(d, j) \ (A \ {c})
  BY <1>2
<1>9. Fits(d, i, m, A, B, A \ {c}, B)
  BY <1>2, <1>3, <1>5, <1>6, <1>7, <1>8 DEF Fits
<1> QED
  BY <1>1, <1>2, <1>9, ListFact

LEMMA detachFact ==
  ASSUME NEW d, NEW A, NEW B, Partial(d, A, B), NEW c \in Managed(d), c \notin A
  PROVE  /\ Partial(detach(d, c), A \cup {c}, B)
         /\ Stays(d, detach(d, c))
         /\ detach(d, c).cl = d.cl
         /\ detach(d, c).selmon = d.selmon
         /\ detach(d, c).viewable = d.viewable
<1>i. PICK i : i = d.cl[c].mon
  OBVIOUS
<1>m. PICK m : m = [d.mons[i] EXCEPT !.clients = RemoveAt(@, Place(@, c))]
  OBVIOUS
<1>1. OneMon(d, detach(d, c), i, m)
  BY <1>i, <1>m DEF detach, OneMon
<1>2. c \in Window /\ i \in DOMAIN d.mons /\ c \in On(d, i) /\ \A j : j # i => c \notin On(d, j)
  BY <1>i, ClientFacts
<1>3. /\ d.mons[i] \in Mon /\ d.mons[i].clients \in Seq(Window)
      /\ Holds(d.mons[i].clients, On(d, i) \ A)
      /\ Holds(d.mons[i].stack, On(d, i) \ B)
      /\ d.mons[i].sel \in (On(d, i) \ B) \cup {None}
  BY <1>2, MonFacts
<1>4. c \in On(d, i) \ A /\ (On(d, i) \ A) \ {c} = On(d, i) \ (A \cup {c})
  BY <1>2
<1>q. PICK s : s = RemoveAt(d.mons[i].clients, Place(d.mons[i].clients, c))
  OBVIOUS
<1>5. s \in Seq(Window) /\ Holds(s, On(d, i) \ (A \cup {c}))
  BY <1>2, <1>3, <1>4, <1>q, HoldsRemoved
<1>6. /\ m.clients = s
      /\ m.stack = d.mons[i].stack /\ m.sel = d.mons[i].sel
      /\ m.set = d.mons[i].set /\ m.per = d.mons[i].per /\ m.cur = d.mons[i].cur
      /\ Look(m) = Look(d.mons[i])
  BY <1>3, <1>m, <1>q DEF Mon, Look
<1>7. m \in Mon
  <2>1. m = [d.mons[i] EXCEPT !.clients = s]
    BY <1>m, <1>q
  <2> QED
    BY <1>3, <1>5, <2>1 DEF Mon
<1>8. \A j \in DOMAIN d.mons : j # i => On(d, j) \ A = On(d, j) \ (A \cup {c})
  BY <1>2
<1>9. Fits(d, i, m, A, B, A \cup {c}, B)
  BY <1>2, <1>3, <1>5, <1>6, <1>7, <1>8 DEF Fits
<1> QED
  BY <1>1, <1>2, <1>9, ListFact

LEMMA attachstackFact ==
  ASSUME NEW d, NEW A, NEW B, Partial(d, A, B), NEW c \in Managed(d), c \in B
  PROVE  /\ Partial(attachstack(d, c), A, B \ {c})
         /\ Stays(d, attachstack(d, c))
         /\ attachstack(d, c).cl = d.cl
         /\ attachstack(d, c).selmon = d.selmon
         /\ attachstack(d, c).viewable = d.viewable
<1>i. PICK i : i = d.cl[c].mon
  OBVIOUS
<1>m. PICK m : m = [d.mons[i] EXCEPT !.stack = <<c>> \o @]
  OBVIOUS
<1>1. OneMon(d, attachstack(d, c), i, m)
  BY <1>i, <1>m DEF attachstack, OneMon
<1>2. c \in Window /\ i \in DOMAIN d.mons /\ c \in On(d, i) /\ \A j : j # i => c \notin On(d, j)
  BY <1>i, ClientFacts
<1>3. /\ d.mons[i] \in Mon /\ d.mons[i].stack \in Seq(Window)
      /\ Holds(d.mons[i].clients, On(d, i) \ A)
      /\ Holds(d.mons[i].stack, On(d, i) \ B)
      /\ d.mons[i].sel \in (On(d, i) \ B) \cup {None}
  BY <1>2, MonFacts
<1>4. /\ c \notin On(d, i) \ B /\ (On(d, i) \ B) \cup {c} = On(d, i) \ (B \ {c})
      /\ d.mons[i].sel \in (On(d, i) \ (B \ {c})) \cup {None}
  BY <1>2, <1>3
<1>5. <<c>> \o d.mons[i].stack \in Seq(Window)
      /\ Holds(<<c>> \o d.mons[i].stack, On(d, i) \ (B \ {c}))
  BY <1>2, <1>3, <1>4, HoldsFront
<1>6. /\ m.stack = <<c>> \o d.mons[i].stack
      /\ m.clients = d.mons[i].clients /\ m.sel = d.mons[i].sel
      /\ m.set = d.mons[i].set /\ m.per = d.mons[i].per /\ m.cur = d.mons[i].cur
      /\ Look(m) = Look(d.mons[i])
  BY <1>3, <1>m DEF Mon, Look
<1>7. m \in Mon
  BY <1>3, <1>5, <1>m DEF Mon
<1>8. \A j \in DOMAIN d.mons : j # i => On(d, j) \ B = On(d, j) \ (B \ {c})
  BY <1>2
<1>9. Fits(d, i, m, A, B, A, B \ {c})
  BY <1>2, <1>3, <1>4, <1>5, <1>6, <1>7, <1>8 DEF Fits
<1> QED
  BY <1>1, <1>2, <1>9, ListFact

\* A window of a list that is shown, if there is one.
LEMMA FirstVisibleFact ==
  ASSUME NEW d, NEW i, d.mons[i].stack \in Seq(Window)
  PROVE  \/ FirstVisible(d, i) = None
         \/ /\ FirstVisible(d, i) \in Visible(d)
            /\ \E j \in DOMAIN d.mons[i].stack : d.mons[i].stack[j] = FirstVisible(d, i)
BY FirstInFact DEF FirstVisible

LEMMA detachstackFact ==
  ASSUME NEW d, NEW A, NEW B, Partial(d, A, B), NEW c \in Managed(d), c \notin B
  PROVE  /\ Partial(detachstack(d, c), A, B \cup {c})
         /\ Stays(d, detachstack(d, c))
         /\ detachstack(d, c).cl = d.cl
         /\ detachstack(d, c).selmon = d.selmon
         /\ detachstack(d, c).viewable = d.viewable
<1>i. PICK i : i = d.cl[c].mon
  OBVIOUS
<1>q. PICK s : s = RemoveAt(d.mons[i].stack, Place(d.mons[i].stack, c))
  OBVIOUS
<1>n. PICK n : n = [d.mons[i] EXCEPT !.stack = s]
  OBVIOUS
<1>d. PICK d1 : d1 = [d EXCEPT !.mons[i].stack = s]
  OBVIOUS
<1>m. PICK m : m = [n EXCEPT !.sel = IF d.mons[i].sel = c THEN FirstVisible(d1, i) ELSE @]
  OBVIOUS
<1>2. c \in Window /\ i \in DOMAIN d.mons /\ c \in On(d, i) /\ \A j : j # i => c \notin On(d, j)
  BY <1>i, ClientFacts
<1>3. /\ d \in State
      /\ d.mons[i] \in Mon /\ d.mons[i].stack \in Seq(Window)
      /\ Holds(d.mons[i].clients, On(d, i) \ A)
      /\ Holds(d.mons[i].stack, On(d, i) \ B)
      /\ d.mons[i].sel \in (On(d, i) \ B) \cup {None}
  BY <1>2, MonFacts
<1>4. c \in On(d, i) \ B /\ (On(d, i) \ B) \ {c} = On(d, i) \ (B \cup {c})
  BY <1>2
<1>5. s \in Seq(Window) /\ Holds(s, On(d, i) \ (B \cup {c}))
  BY <1>2, <1>3, <1>4, <1>q, HoldsRemoved
<1>6. n \in Mon /\ n.stack = s /\ n.sel = d.mons[i].sel
  BY <1>3, <1>5, <1>n DEF Mon
<1>7. OneMon(d, d1, i, n)
  BY <1>d, <1>n DEF OneMon
<1>8. d1.mons[i] = n /\ d1 \in State /\ i \in DOMAIN d1.mons
  BY <1>2, <1>3, <1>6, <1>7, MonFact
<1>9. FirstVisible(d1, i) \in (On(d, i) \ (B \cup {c})) \cup {None}
  <2>1. \/ FirstVisible(d1, i) = None
        \/ \E j \in DOMAIN s : s[j] = FirstVisible(d1, i)
    BY <1>5, <1>6, <1>8, FirstVisibleFact
  <2> QED
    BY <1>5, <2>1 DEF Holds
<1>10. /\ m.sel = IF d.mons[i].sel = c THEN FirstVisible(d1, i) ELSE d.mons[i].sel
       /\ m.stack = s /\ m.clients = d.mons[i].clients
       /\ m.set = d.mons[i].set /\ m.per = d.mons[i].per /\ m.cur = d.mons[i].cur
       /\ Look(m) = Look(d.mons[i])
  BY <1>3, <1>6, <1>m, <1>n DEF Mon, Look
<1>11. m.sel \in (On(d, i) \ (B \cup {c})) \cup {None}
  BY <1>3, <1>9, <1>10
<1>12. m \in Mon
  <2>1. m.sel \in Window \cup {None}
    BY <1>11 DEF On, Managed
  <2> QED
    BY <1>6, <1>10, <1>m, <2>1 DEF Mon
<1>13. \A j \in DOMAIN d.mons : j # i => On(d, j) \ B = On(d, j) \ (B \cup {c})
  BY <1>2
<1>14. Fits(d, i, m, A, B, A, B \cup {c})
  BY <1>3, <1>5, <1>10, <1>11, <1>12, <1>13 DEF Fits
<1>15. OneMon(d, detachstack(d, c), i, m)
  <2>1. CASE d.mons[i].sel = c
    <3>1. detachstack(d, c) = [d1 EXCEPT !.mons[i].sel = FirstVisible(d1, i)]
      BY <1>i, <1>q, <1>d, <2>1 DEF detachstack
    <3>2. m = [d.mons[i] EXCEPT !.stack = s, !.sel = FirstVisible(d1, i)]
      BY <1>m, <1>n, <2>1
    <3> QED
      BY <1>d, <1>2, <1>3, <3>1, <3>2 DEF OneMon, State
  <2>2. CASE d.mons[i].sel # c
    <3>1. detachstack(d, c) = d1
      BY <1>i, <1>q, <1>d, <2>2 DEF detachstack
    <3>2. m = n
      BY <1>m, <1>6, <2>2 DEF Mon
    <3> QED
      BY <1>7, <3>1, <3>2
  <2> QED
    BY <2>1, <2>2
<1> QED
  BY <1>2, <1>14, <1>15, ListFact

-----------------------------------------------------------------------------
(* Changes of one client, and of what is not a list.                       *)

\* The client c is replaced by r, which is None when it goes.
OneClient(d, e, c, r) == e = [d EXCEPT !.cl[c] = r]

LEMMA ClFact ==
  ASSUME NEW d \in State, NEW c \in Window, NEW r \in Client \cup {None},
         NEW e, OneClient(d, e, c, r)
  PROVE  /\ e \in State
         /\ e.cl[c] = r
         /\ \A w \in Window : w # c => e.cl[w] = d.cl[w]
         /\ e.mons = d.mons /\ e.selmon = d.selmon /\ e.input = d.input
         /\ e.viewable = d.viewable /\ e.run = d.run
<1> PICK C : C = [d.cl EXCEPT ![c] = r]
  OBVIOUS
<1>1. d.cl \in [Window -> Client \cup {None}]
  BY DEF State
<1>2. /\ C \in [Window -> Client \cup {None}]
      /\ C[c] = r /\ \A w \in Window : w # c => C[w] = d.cl[w]
  BY <1>1
<1>3. e = [d EXCEPT !.cl = C]
  BY DEF OneClient
<1>4. e \in State /\ e.cl = C
  BY <1>2, <1>3 DEF State
<1>5. /\ e.mons = d.mons /\ e.selmon = d.selmon /\ e.input = d.input
      /\ e.viewable = d.viewable /\ e.run = d.run
  BY <1>3 DEF State
<1> QED
  BY <1>2, <1>4, <1>5

\* r can take the place of client c: only a client that is in no list goes to
\* another screen.
Suits(d, c, r, A, B) ==
  /\ r \in Client
  /\ r.mon \in DOMAIN d.mons
  /\ r.tags # {}
  /\ r.mon = d.cl[c].mon \/ (c \in A /\ c \in B)

LEMMA ClientFact ==
  ASSUME NEW d, NEW A, NEW B, Partial(d, A, B), NEW c \in Managed(d),
         NEW r, Suits(d, c, r, A, B), NEW e, OneClient(d, e, c, r)
  PROVE  /\ Partial(e, A, B)
         /\ Stays(d, e)
         /\ e.cl[c] = r
         /\ e.mons = d.mons /\ e.selmon = d.selmon /\ e.input = d.input
         /\ e.viewable = d.viewable /\ e.run = d.run
<1>1. d \in State /\ c \in Window /\ r \in Client \cup {None} /\ r # None
  BY ClientFacts, DwmAssumption DEF Partial, Typed, Suits
<1>2. /\ e \in State
      /\ e.cl[c] = r
      /\ \A w \in Window : w # c => e.cl[w] = d.cl[w]
      /\ e.mons = d.mons /\ e.selmon = d.selmon /\ e.input = d.input
      /\ e.viewable = d.viewable /\ e.run = d.run
  BY <1>1, ClFact
<1>3. Managed(e) = Managed(d)
  BY <1>1, <1>2 DEF Managed
<1>4. Typed(e)
  <2>1. ASSUME NEW w \in Managed(e) PROVE e.cl[w].mon \in DOMAIN e.mons /\ e.cl[w].tags # {}
    <3>1. CASE w = c
      BY <1>2, <3>1 DEF Suits
    <3>2. CASE w # c
      BY <1>2, <1>3, <3>2 DEF Partial, Typed, Managed
    <3> QED
      BY <3>1, <3>2
  <2> QED
    BY <1>2, <2>1 DEF Partial, Typed
<1>5. Stays(d, e)
  BY <1>2, <1>3 DEF Stays, Keeps, Tuned, Looks
<1>6. ASSUME NEW i PROVE On(e, i) \ A = On(d, i) \ A /\ On(e, i) \ B = On(d, i) \ B
  <2>1. ASSUME NEW w \in Window, w # c PROVE w \in On(e, i) <=> w \in On(d, i)
    BY <1>2, <1>3, <2>1 DEF On
  <2>2. CASE r.mon = d.cl[c].mon
    <3>1. c \in On(e, i) <=> c \in On(d, i)
      BY <1>2, <1>3, <2>2 DEF On
    <3> QED
      BY <2>1, <3>1 DEF On, Managed
  <2>3. CASE c \in A /\ c \in B
    BY <2>1, <2>3 DEF On, Managed
  <2> QED
    BY <2>2, <2>3 DEF Suits
<1>7. Linked(e, A, B)
  BY <1>2, <1>6 DEF Partial, Linked
<1> QED
  BY <1>2, <1>4, <1>5, <1>7 DEF Partial

\* A client that is in no list any more is gone.
LEMMA GoneFact ==
  ASSUME NEW d, NEW c, Partial(d, {c}, {c}), c \in Managed(d),
         NEW e, OneClient(d, e, c, None)
  PROVE  /\ Good(e)
         /\ Managed(e) = Managed(d) \ {c}
         /\ e.mons = d.mons /\ e.selmon = d.selmon
         /\ e.viewable = d.viewable /\ e.run = d.run
<1>1. d \in State /\ c \in Window
  BY ClientFacts DEF Partial, Typed
<1>2. /\ e \in State
      /\ e.cl[c] = None
      /\ \A w \in Window : w # c => e.cl[w] = d.cl[w]
      /\ e.mons = d.mons /\ e.selmon = d.selmon /\ e.input = d.input
      /\ e.viewable = d.viewable /\ e.run = d.run
  BY <1>1, ClFact
<1>3. Managed(e) = Managed(d) \ {c}
  BY <1>1, <1>2 DEF Managed
<1>4. Typed(e)
  <2>1. ASSUME NEW w \in Managed(e) PROVE e.cl[w].mon \in DOMAIN e.mons /\ e.cl[w].tags # {}
    BY <1>2, <1>3 DEF Partial, Typed, Managed
  <2> QED
    BY <1>2, <2>1 DEF Partial, Typed
<1>5. ASSUME NEW i PROVE On(e, i) \ {} = On(d, i) \ {c}
  BY <1>2, <1>3 DEF On, Managed
<1>6. Linked(e, {}, {})
  BY <1>2, <1>5 DEF Partial, Linked
<1> QED
  BY <1>2, <1>3, <1>4, <1>6 DEF Partial, Good

\* The client w is new in e, as r.
Adds(d, e, w, r) ==
  /\ Partial(e, {w}, {w})
  /\ Managed(e) = Managed(d) \cup {w}
  /\ e.cl[w] = r
  /\ e.mons = d.mons /\ e.selmon = d.selmon
  /\ e.viewable = d.viewable /\ e.run = d.run

\* A new client is in no list yet.
LEMMA NewFact ==
  ASSUME NEW d, Good(d), NEW w \in Window \ Managed(d),
         NEW r \in Client, r.mon \in DOMAIN d.mons, r.tags # {},
         NEW e, OneClient(d, e, w, r)
  PROVE  Adds(d, e, w, r)
<1>1. d \in State /\ w \in Window /\ r \in Client \cup {None} /\ r # None
  BY DwmAssumption DEF Good, Partial, Typed
<1>2. /\ e \in State
      /\ e.cl[w] = r
      /\ \A x \in Window : x # w => e.cl[x] = d.cl[x]
      /\ e.mons = d.mons /\ e.selmon = d.selmon /\ e.input = d.input
      /\ e.viewable = d.viewable /\ e.run = d.run
  BY <1>1, ClFact
<1>3. Managed(e) = Managed(d) \cup {w}
  BY <1>1, <1>2 DEF Managed
<1>4. Typed(e)
  <2>1. ASSUME NEW x \in Managed(e) PROVE e.cl[x].mon \in DOMAIN e.mons /\ e.cl[x].tags # {}
    <3>1. CASE x = w
      BY <1>2, <3>1
    <3>2. CASE x # w
      BY <1>2, <1>3, <3>2 DEF Good, Partial, Typed, Managed
    <3> QED
      BY <3>1, <3>2
  <2> QED
    BY <1>2, <2>1 DEF Good, Partial, Typed
<1>5. ASSUME NEW i PROVE On(e, i) \ {w} = On(d, i) \ {}
  BY <1>2, <1>3 DEF On, Managed
<1>6. Linked(e, {w}, {w})
  BY <1>2, <1>5 DEF Good, Partial, Linked
<1> QED
  BY <1>2, <1>3, <1>4, <1>6 DEF Partial, Adds

\* Another screen is selected, the keyboard goes elsewhere, or dwm ends.
Plain(d, e, n, k, r) == e = [d EXCEPT !.selmon = n, !.input = k, !.run = r]

LEMMA PlainFact ==
  ASSUME NEW d, NEW A, NEW B, Partial(d, A, B),
         NEW n \in DOMAIN d.mons, NEW k \in d.viewable \cup {Root, PointerRoot},
         NEW r \in {"starting", "running", "quit", "crashed"},
         NEW e, Plain(d, e, n, k, r)
  PROVE  /\ Partial(e, A, B)
         /\ r \in {d.run, "crashed"} => Stays(d, e)
         /\ e.mons = d.mons /\ e.cl = d.cl /\ e.viewable = d.viewable
         /\ e.selmon = n /\ e.input = k /\ e.run = r
         /\ Managed(e) = Managed(d) /\ (Tuned(d) => Tuned(e))
<1>1. d \in State /\ n \in Nat /\ k \in Window \cup {Root, PointerRoot}
  BY DEF Partial, Typed, State
<1>2. /\ e \in State
      /\ e.mons = d.mons /\ e.cl = d.cl /\ e.viewable = d.viewable
      /\ e.selmon = n /\ e.input = k /\ e.run = r
  BY <1>1 DEF State, Plain
<1>3. Managed(e) = Managed(d)
  BY <1>2 DEF Managed
<1>4. Typed(e)
  BY <1>2, <1>3 DEF Partial, Typed
<1>5. Linked(e, A, B)
  <2>1. \A j : On(e, j) = On(d, j)
    BY <1>2, <1>3 DEF On
  <2> QED
    BY <1>2, <2>1 DEF Partial, Linked
<1>6. Tuned(d) => Tuned(e)
  BY <1>2 DEF Tuned
<1>7. r \in {d.run, "crashed"} => Stays(d, e)
  BY <1>2, <1>3, <1>6 DEF Stays, Keeps, Looks
<1> QED
  BY <1>2, <1>3, <1>4, <1>5, <1>6, <1>7 DEF Partial

\* One screen shows something else.
LEMMA ViewFact ==
  ASSUME NEW d, NEW A, NEW B, Partial(d, A, B), NEW i \in DOMAIN d.mons, NEW m \in Mon,
         m.clients = d.mons[i].clients, m.stack = d.mons[i].stack,
         m.sel \in (On(d, i) \ B) \cup {None},
         NEW e, OneMon(d, e, i, m)
  PROVE  /\ Partial(e, A, B)
         /\ Managed(e) = Managed(d)
         /\ (d.mons[i].set = d.mons[i].per[d.mons[i].cur] => m.set = m.per[m.cur])
            => Keeps(d, e)
         /\ Look(m) = Look(d.mons[i]) => Looks(d, e)
         /\ DOMAIN e.mons = DOMAIN d.mons
         /\ e.mons[i] = m
         /\ \A j \in DOMAIN d.mons : j # i => e.mons[j] = d.mons[j]
         /\ e.cl = d.cl /\ e.selmon = d.selmon /\ e.input = d.input
         /\ e.viewable = d.viewable /\ e.run = d.run
<1>1. d \in State
  BY DEF Partial, Typed
<1>2. /\ e \in State
      /\ DOMAIN e.mons = DOMAIN d.mons
      /\ e.mons[i] = m
      /\ \A j \in DOMAIN d.mons : j # i => e.mons[j] = d.mons[j]
      /\ e.selmon = d.selmon /\ e.cl = d.cl /\ e.input = d.input
      /\ e.viewable = d.viewable /\ e.run = d.run
  BY <1>1, MonFact
<1>3. Managed(e) = Managed(d)
  BY <1>2 DEF Managed
<1>4. Typed(e)
  BY <1>2, <1>3 DEF Partial, Typed
<1>5. \A j : On(e, j) = On(d, j)
  BY <1>2, <1>3 DEF On
<1>6. Linked(e, A, B)
  <2> SUFFICES ASSUME NEW j \in DOMAIN d.mons
               PROVE  /\ Holds(e.mons[j].clients, On(d, j) \ A)
                      /\ Holds(e.mons[j].stack, On(d, j) \ B)
                      /\ e.mons[j].sel \in (On(d, j) \ B) \cup {None}
    BY <1>2, <1>5 DEF Linked
  <2>1. /\ Holds(d.mons[j].clients, On(d, j) \ A)
        /\ Holds(d.mons[j].stack, On(d, j) \ B)
        /\ d.mons[j].sel \in (On(d, j) \ B) \cup {None}
    BY DEF Partial, Linked
  <2>2. CASE j = i
    BY <1>2, <2>1, <2>2
  <2>3. CASE j # i
    BY <1>2, <2>1, <2>3
  <2> QED
    BY <2>2, <2>3
<1>7. ASSUME d.mons[i].set = d.mons[i].per[d.mons[i].cur] => m.set = m.per[m.cur],
             Tuned(d), NEW j \in DOMAIN d.mons
      PROVE  e.mons[j].set = e.mons[j].per[e.mons[j].cur]
  <2>1. d.mons[j].set = d.mons[j].per[d.mons[j].cur]
    BY <1>7 DEF Tuned
  <2>2. CASE j = i
    BY <1>2, <1>7, <2>1, <2>2
  <2>3. CASE j # i
    BY <1>2, <2>1, <2>3
  <2> QED
    BY <2>2, <2>3
<1>8. (d.mons[i].set = d.mons[i].per[d.mons[i].cur] => m.set = m.per[m.cur])
      => (Tuned(d) => Tuned(e))
  BY <1>2, <1>7 DEF Tuned
<1>9. (d.mons[i].set = d.mons[i].per[d.mons[i].cur] => m.set = m.per[m.cur]) => Keeps(d, e)
  BY <1>2, <1>3, <1>8 DEF Keeps
<1>10. Look(m) = Look(d.mons[i]) => Looks(d, e)
  BY <1>2 DEF Looks
<1> QED
  BY <1>2, <1>3, <1>4, <1>6, <1>9, <1>10 DEF Partial

LEMMA StaysTrans ==
  ASSUME NEW d, NEW e, NEW f, Stays(d, e), Stays(e, f)
  PROVE  Stays(d, f)
BY DEF Stays, Keeps, Looks

LEMMA LeadsTrans ==
  ASSUME NEW d, NEW e, NEW f, Leads(d, e), Leads(e, f)
  PROVE  Leads(d, f)
BY StaysTrans DEF Leads

\* Nothing changes.
LEMMA LeadsSelf ==
  ASSUME NEW d, Good(d)
  PROVE  Leads(d, d)
BY DEF Leads, Stays, Keeps, Looks

\* What is the same, and what follows one after the other.
LEMMA LookFact ==
  ASSUME NEW m, NEW n, Look(m) = Look(n)
  PROVE  m.per = n.per /\ m.cur = n.cur /\ m.seltags = n.seltags /\ m.tagset = n.tagset
BY DEF Look

LEMMA SameEqual ==
  ASSUME NEW d, NEW e, e.mons = d.mons
  PROVE  Same(d, e)
BY DEF Same

LEMMA LooksSame ==
  ASSUME NEW d, NEW e, Looks(d, e)
  PROVE  Same(d, e)
BY LookFact DEF Looks, Same

LEMMA SameTrans ==
  ASSUME NEW d, NEW e, NEW f, Same(d, e), Same(e, f),
         DOMAIN d.mons \cap DOMAIN f.mons \subseteq DOMAIN e.mons
  PROVE  Same(d, f)
BY DEF Same

LEMMA LeadsTurns ==
  ASSUME NEW d, NEW e, Leads(d, e)
  PROVE  Turns(d, e)
BY LooksSame DEF Leads, Stays, Turns

LEMMA TurnsTrans ==
  ASSUME NEW d, NEW e, NEW f, Turns(d, e), Turns(e, f)
  PROVE  Turns(d, f)
<1>1. Same(d, f)
  BY SameTrans DEF Turns
<1> QED
  BY <1>1 DEF Turns, Keeps

LEMMA ChangesSelf ==
  ASSUME NEW d, Good(d)
  PROVE  Changes(d, d)
BY DEF Changes, Keeps, Sets

LEMMA LeadsChanges ==
  ASSUME NEW d, NEW e, NEW f, Leads(d, e), Changes(e, f)
  PROVE  Changes(d, f)
<1>1. Sets(d, f)
  <2> SUFFICES ASSUME NEW i \in DOMAIN d.mons
               PROVE  /\ f.mons[i].cur = d.mons[i].cur
                      /\ ViewOf(f.mons[i]) = ViewOf(d.mons[i])
                      /\ \A t \in 0..TAGS : f.mons[i].per[t] # d.mons[i].per[t] =>
                           i = f.selmon /\ t = d.mons[i].cur
    BY DEF Sets
  <2>1. /\ e.mons[i].per = d.mons[i].per /\ e.mons[i].cur = d.mons[i].cur
        /\ ViewOf(e.mons[i]) = ViewOf(d.mons[i])
    BY LookFact DEF Leads, Stays, Looks, ViewOf
  <2>2. i \in DOMAIN e.mons
    BY DEF Leads, Stays
  <2> QED
    BY <2>1, <2>2 DEF Changes, Sets
<1> QED
  BY <1>1 DEF Leads, Stays, Changes, Keeps

LEMMA CrashFact ==
  ASSUME NEW d, NEW A, NEW B, Partial(d, A, B), NEW e, e = [d EXCEPT !.run = "crashed"]
  PROVE  /\ Partial(e, A, B) /\ Stays(d, e)
         /\ e.mons = d.mons /\ e.cl = d.cl /\ e.viewable = d.viewable /\ e.selmon = d.selmon
<1>1. /\ d \in State /\ d.selmon \in DOMAIN d.mons
      /\ d.input \in d.viewable \cup {Root, PointerRoot}
  BY DEF Partial, Typed
<1>2. Plain(d, e, d.selmon, d.input, "crashed")
  BY <1>1 DEF State, Plain
<1> QED
  BY <1>1, <1>2, PlainFact

LEMMA InputFact ==
  ASSUME NEW d, NEW A, NEW B, Partial(d, A, B), NEW k \in d.viewable \cup {Root, PointerRoot},
         NEW e, e = [d EXCEPT !.input = k]
  PROVE  /\ Partial(e, A, B) /\ Stays(d, e)
         /\ e.mons = d.mons /\ e.cl = d.cl /\ e.viewable = d.viewable /\ e.selmon = d.selmon
<1>1. /\ d \in State /\ d.selmon \in DOMAIN d.mons
      /\ d.run \in {"starting", "running", "quit", "crashed"}
  BY DEF Partial, Typed, State
<1>2. Plain(d, e, d.selmon, k, d.run)
  BY <1>1 DEF State, Plain
<1> QED
  BY <1>1, <1>2, PlainFact

LEMMA SelmonFact ==
  ASSUME NEW d, NEW A, NEW B, Partial(d, A, B), NEW n \in DOMAIN d.mons,
         NEW e, e = [d EXCEPT !.selmon = n]
  PROVE  /\ Partial(e, A, B) /\ Stays(d, e)
         /\ e.mons = d.mons /\ e.cl = d.cl /\ e.viewable = d.viewable /\ e.selmon = n
<1>1. /\ d \in State /\ d.input \in d.viewable \cup {Root, PointerRoot}
      /\ d.run \in {"starting", "running", "quit", "crashed"}
  BY DEF Partial, Typed, State
<1>2. Plain(d, e, n, d.input, d.run)
  BY <1>1 DEF State, Plain
<1> QED
  BY <1>1, <1>2, PlainFact

LEMMA StaysSelf ==
  ASSUME NEW d, NEW A, NEW B, Partial(d, A, B)
  PROVE  Stays(d, d)
BY DEF Stays, Keeps, Looks

-----------------------------------------------------------------------------
(* The parts of handlers.                                                  *)

LEMMA drawbarFact ==
  ASSUME NEW d, NEW A, NEW B, Partial(d, A, B), NEW i
  PROVE  /\ Partial(drawbar(d, i), A, B) /\ Stays(d, drawbar(d, i))
         /\ drawbar(d, i).mons = d.mons /\ drawbar(d, i).cl = d.cl
         /\ drawbar(d, i).viewable = d.viewable /\ drawbar(d, i).selmon = d.selmon
<1>1. CASE drawbar(d, i) = [d EXCEPT !.run = "crashed"]
  BY <1>1, CrashFact
<1>2. CASE drawbar(d, i) = d
  BY <1>2, StaysSelf
<1> QED
  BY <1>1, <1>2 DEF drawbar

LEMMA drawbarsFact ==
  ASSUME NEW d, NEW A, NEW B, Partial(d, A, B)
  PROVE  /\ Partial(drawbars(d), A, B) /\ Stays(d, drawbars(d))
         /\ drawbars(d).mons = d.mons /\ drawbars(d).cl = d.cl
         /\ drawbars(d).viewable = d.viewable /\ drawbars(d).selmon = d.selmon
<1>1. CASE drawbars(d) = [d EXCEPT !.run = "crashed"]
  BY <1>1, CrashFact
<1>2. CASE drawbars(d) = d
  BY <1>2, StaysSelf
<1> QED
  BY <1>1, <1>2 DEF drawbars

\* What only the drawing of a bar separates rests alike.
LEMMA VisibleEqual ==
  ASSUME NEW d, NEW e, e.mons = d.mons, e.cl = d.cl
  PROVE  Managed(e) = Managed(d) /\ Visible(e) = Visible(d)
<1>1. Managed(e) = Managed(d)
  BY DEF Managed
<1>2. \A c : ISVISIBLE(e, c) = ISVISIBLE(d, c)
  BY DEF ISVISIBLE, MonOf
<1> QED
  BY <1>1, <1>2 DEF Visible

LEMMA DrawnFact ==
  ASSUME NEW d \in State, NEW e, Drawn(d, e)
  PROVE  /\ e.mons = d.mons /\ e.cl = d.cl /\ e.selmon = d.selmon
         /\ e.input = d.input /\ e.viewable = d.viewable /\ e.run \in {d.run, "crashed"}
BY DEF State, Drawn

LEMMA DrawnSettled ==
  ASSUME NEW d \in State, Settled(d), NEW e, Drawn(d, e)
  PROVE  Settled(e)
<1>1. /\ e.mons = d.mons /\ e.cl = d.cl /\ e.selmon = d.selmon
      /\ e.input = d.input /\ e.viewable = d.viewable
  BY DrawnFact
<1>2. Sel(e) = Sel(d) /\ Rests(e, Sel(e)) = Rests(d, Sel(d))
  BY <1>1 DEF Sel, SelMon, Rests
<1>3. FirstVisible(e, e.selmon) = FirstVisible(d, d.selmon)
  BY <1>1, VisibleEqual DEF FirstVisible
<1> QED
  BY <1>2, <1>3 DEF Settled

LEMMA SteadySelf ==
  ASSUME NEW d
  PROVE  Steady(d, d)
BY DEF Steady

LEMMA SteadyTrans ==
  ASSUME NEW d, NEW e, NEW f, Steady(d, e), Steady(e, f)
  PROVE  Steady(d, f)
BY DEF Steady

LEMMA DrawnSteady ==
  ASSUME NEW d \in State, NEW e, Drawn(d, e)
  PROVE  Steady(d, e)
<1>1. /\ e.mons = d.mons /\ e.cl = d.cl /\ e.selmon = d.selmon
      /\ e.input = d.input /\ e.viewable = d.viewable /\ e.run \in {d.run, "crashed"}
  BY DrawnFact
<1>2. SelMon(e) = SelMon(d) /\ Sel(e) = Sel(d) /\ Managed(e) = Managed(d)
  BY <1>1 DEF Sel, SelMon, Managed
<1> QED
  BY <1>1, <1>2 DEF Steady

LEMMA arrangeSteady ==
  ASSUME NEW d, NEW e, Good(e), Steady(d, e), NEW i
  PROVE  Steady(d, arrange(e, i)) /\ Steady(d, drawbars(e))
<1>1. e \in State
  BY DEF Good, Partial, Typed
<1>2. Drawn(e, arrange(e, i)) /\ Drawn(e, drawbars(e))
  BY DEF Drawn, arrange, drawbar, drawbars
<1> QED
  BY <1>1, <1>2, DrawnSteady, SteadyTrans

LEMMA arrangeSettled ==
  ASSUME NEW d, Good(d), Settled(d), NEW i
  PROVE  Settled(arrange(d, i)) /\ Settled(arrange_all(d))
<1>1. d \in State
  BY DEF Good, Partial, Typed
<1>2. Drawn(d, arrange(d, i)) /\ Drawn(d, arrange_all(d))
  BY DEF Drawn, arrange, arrange_all, drawbar, drawbars
<1> QED
  BY <1>1, <1>2, DrawnSettled

LEMMA arrangeFact ==
  ASSUME NEW d, NEW A, NEW B, Partial(d, A, B), NEW i
  PROVE  /\ Partial(arrange(d, i), A, B) /\ Stays(d, arrange(d, i))
         /\ arrange(d, i).mons = d.mons /\ arrange(d, i).cl = d.cl
         /\ arrange(d, i).viewable = d.viewable /\ arrange(d, i).selmon = d.selmon
BY drawbarFact DEF arrange

LEMMA arrangeLeads ==
  ASSUME NEW d, NEW e, Leads(d, e), NEW i
  PROVE  /\ Leads(d, arrange(e, i)) /\ Leads(d, arrange_all(e))
         /\ Settled(e) => Settled(arrange(e, i)) /\ Settled(arrange_all(e))
<1>1. Leads(e, arrange(e, i))
  BY arrangeFact DEF Leads, Good
<1>2. Leads(e, arrange_all(e))
  BY drawbarsFact DEF Leads, Good, arrange_all
<1>3. Settled(e) => Settled(arrange(e, i)) /\ Settled(arrange_all(e))
  BY arrangeSettled DEF Leads
<1> QED
  BY <1>1, <1>2, <1>3, LeadsTrans

LEMMA setfocusFact ==
  ASSUME NEW d, NEW A, NEW B, Partial(d, A, B), NEW c \in Managed(d)
  PROVE  /\ Partial(setfocus(d, c), A, B) /\ Stays(d, setfocus(d, c))
         /\ setfocus(d, c).mons = d.mons /\ setfocus(d, c).cl = d.cl
         /\ setfocus(d, c).viewable = d.viewable /\ setfocus(d, c).selmon = d.selmon
<1>1. CASE setfocus(d, c) = d
  BY <1>1, StaysSelf
<1>2. CASE c \in d.viewable /\ setfocus(d, c) = [d EXCEPT !.input = c]
  BY <1>2, InputFact
<1> QED
  BY <1>1, <1>2 DEF setfocus

LEMMA unfocusFact ==
  ASSUME NEW d, NEW A, NEW B, Partial(d, A, B), NEW c
  PROVE  /\ Partial(unfocus(d, c), A, B) /\ Stays(d, unfocus(d, c))
         /\ unfocus(d, c).mons = d.mons /\ unfocus(d, c).cl = d.cl
         /\ unfocus(d, c).viewable = d.viewable /\ unfocus(d, c).selmon = d.selmon
<1>1. CASE unfocus(d, c) = d
  BY <1>1, StaysSelf
<1>2. CASE unfocus(d, c) = [d EXCEPT !.input = Root]
  BY <1>2, InputFact
<1> QED
  BY <1>1, <1>2 DEF unfocus

\* What the focus falls on is a client of the selected screen.
LEMMA FirstVisibleOn ==
  ASSUME NEW d, Good(d), NEW i \in DOMAIN d.mons
  PROVE  FirstVisible(d, i) \in On(d, i) \cup {None}
<1>1. d.mons[i].stack \in Seq(Window) /\ Holds(d.mons[i].stack, On(d, i) \ {})
  BY MonFacts DEF Good
<1> QED
  BY <1>1, FirstVisibleFact DEF Holds

LEMMA NoneUnmanaged ==
  ASSUME NEW d
  PROVE  None \notin Managed(d)
BY DwmAssumption DEF Managed

LEMMA selFact ==
  ASSUME NEW d, Good(d), NEW i \in DOMAIN d.mons, NEW c \in On(d, i) \cup {None},
         NEW e, e = [d EXCEPT !.mons[i].sel = c]
  PROVE  Leads(d, e) /\ e.cl = d.cl /\ e.selmon = d.selmon /\ e.viewable = d.viewable
<1>m. PICK m : m = [d.mons[i] EXCEPT !.sel = c]
  OBVIOUS
<1>1. d \in State /\ d.mons[i] \in Mon /\ c \in Window \cup {None}
  BY MonFacts DEF Good, On, Managed
<1>2. /\ m \in Mon /\ m.clients = d.mons[i].clients /\ m.stack = d.mons[i].stack
      /\ m.sel = c /\ m.set = d.mons[i].set /\ m.per = d.mons[i].per /\ m.cur = d.mons[i].cur
      /\ Look(m) = Look(d.mons[i])
  BY <1>1, <1>m DEF Mon, Look
<1>3. OneMon(d, e, i, m)
  BY <1>m DEF OneMon
<1>4. /\ Partial(e, {}, {}) /\ Stays(d, e)
      /\ e.cl = d.cl /\ e.selmon = d.selmon /\ e.viewable = d.viewable
  BY <1>2, <1>3, ViewFact DEF Good, Stays
<1> QED
  BY <1>4 DEF Leads, Good

LEMMA SelFact ==
  ASSUME NEW d, Good(d)
  PROVE  /\ d \in State /\ d.selmon \in DOMAIN d.mons /\ SelMon(d) \in Mon
         /\ Sel(d) \in On(d, d.selmon) \cup {None}
         /\ Sel(d) \in Managed(d) \cup {None}
<1>1. d \in State /\ d.selmon \in DOMAIN d.mons
  BY DEF Good, Partial, Typed
<1>2. d.mons[d.selmon] \in Mon /\ d.mons[d.selmon].sel \in (On(d, d.selmon) \ {}) \cup {None}
  BY <1>1, MonFacts DEF Good
<1> QED
  BY <1>1, <1>2 DEF Sel, SelMon, On

\* Where a client is put on top of its history.
LEMMA attachstackTop ==
  ASSUME NEW d, NEW A, NEW B, Partial(d, A, B), NEW c \in Managed(d)
  PROVE  \E s \in Seq(Window) : attachstack(d, c).mons[d.cl[c].mon].stack = <<c>> \o s
<1>i. PICK i : i = d.cl[c].mon
  OBVIOUS
<1>1. i \in DOMAIN d.mons
  BY <1>i, ClientFacts
<1>2. d \in State /\ d.mons[i] \in Mon /\ d.mons[i].stack \in Seq(Window)
  BY <1>1, MonFacts
<1>3. attachstack(d, c).mons[i].stack = <<c>> \o d.mons[i].stack
  BY <1>i, <1>1, <1>2 DEF attachstack, State, Mon
<1> QED
  BY <1>i, <1>2, <1>3

\* What a change of flags, of the focus or of the order leaves in view.
LEMMA VisibleStays ==
  ASSUME NEW d, NEW A, NEW B, Partial(d, A, B), NEW e, Stays(d, e), NEW c \in Managed(d),
         e.cl[c].mon = d.cl[c].mon, e.cl[c].tags = d.cl[c].tags
  PROVE  ISVISIBLE(e, c) = ISVISIBLE(d, c)
<1>i. PICK i : i = d.cl[c].mon
  OBVIOUS
<1>1. i \in DOMAIN d.mons
  BY <1>i, ClientFacts
<1>2. Look(e.mons[i]) = Look(d.mons[i])
  BY <1>1 DEF Stays, Looks
<1>3. ViewOf(e.mons[i]) = ViewOf(d.mons[i])
  BY <1>2, LookFact DEF ViewOf
<1> QED
  BY <1>i, <1>3 DEF ISVISIBLE, MonOf

\* Giving the focus moves a client in its history, and loses none; what is
\* selected then is on top and has the keyboard.
LEMMA focusFact ==
  ASSUME NEW d, Good(d), NEW c0 \in Managed(d) \cup {None}
  PROVE  /\ Leads(d, focus(d, c0)) /\ focus(d, c0).viewable = d.viewable
         /\ Settled(focus(d, c0))
<1>c. PICK c : c = IF c0 # None /\ ISVISIBLE(d, c0) THEN c0 ELSE FirstVisible(d, d.selmon)
  OBVIOUS
<1>b. PICK d2 : d2 = Raise(d, c)
  OBVIOUS
<1>e. PICK e : e = [d2 EXCEPT !.mons[d2.selmon].sel = c]
  OBVIOUS
<1>1. focus(d, c0) = drawbars(e)
  BY <1>c, <1>b, <1>e DEF focus, Select
<1>2. d.selmon \in DOMAIN d.mons /\ d \in State
  BY DEF Good, Partial, Typed
<1>3. c \in Managed(d) \cup {None}
  <2>1. FirstVisible(d, d.selmon) \in Managed(d) \cup {None}
    BY <1>2, FirstVisibleOn DEF On
  <2> QED
    BY <1>c, <2>1
<1>v. c # None => ISVISIBLE(d, c)
  <2>1. d.mons[d.selmon].stack \in Seq(Window)
    BY <1>2, MonFacts DEF Good
  <2>2. FirstVisible(d, d.selmon) # None => FirstVisible(d, d.selmon) \in Visible(d)
    BY <2>1, FirstVisibleFact
  <2> QED
    BY <1>c, <2>2 DEF Visible
<1>4. Leads(d, d2) /\ d2.viewable = d.viewable /\ c \in On(d2, d2.selmon) \cup {None}
      /\ FirstVisible(d2, d2.selmon) = c /\ Rests(d2, c)
  <2>1. CASE c = None
    <3>1. d2 = [d EXCEPT !.input = Root]
      BY <1>b, <2>1 DEF Raise
    <3>2. /\ Partial(d2, {}, {}) /\ Stays(d, d2) /\ d2.viewable = d.viewable
          /\ d2.mons = d.mons /\ d2.cl = d.cl /\ d2.selmon = d.selmon
      BY <3>1, InputFact DEF Good
    <3>3. FirstVisible(d, d.selmon) = None
      BY <1>c, <2>1
    <3>4. FirstVisible(d2, d2.selmon) = FirstVisible(d, d.selmon)
      BY <3>2, VisibleEqual DEF FirstVisible
    <3> QED
      BY <2>1, <3>2, <3>3, <3>4 DEF Leads, Good, Rests
  <2>2. CASE c # None
    <3>1. c \in Managed(d)
      BY <1>3, <2>2
    <3>a. PICK d1 : d1 = [d EXCEPT !.selmon = d.cl[c].mon, !.cl[c].isurgent = FALSE]
      OBVIOUS
    <3>r. PICK r : r = [d.cl[c] EXCEPT !.isurgent = FALSE]
      OBVIOUS
    <3>f. PICK f : f = [d EXCEPT !.cl[c] = r]
      OBVIOUS
    <3>2. /\ c \in Window /\ d.cl[c] \in Client /\ d.cl[c].mon \in DOMAIN d.mons
          /\ d.cl[c].tags # {}
      BY <3>1, ClientFacts DEF Good
    <3>3. r \in Client /\ r.mon = d.cl[c].mon /\ r.tags = d.cl[c].tags
      BY <3>2, <3>r DEF Client
    <3>4. Suits(d, c, r, {}, {}) /\ OneClient(d, f, c, r)
      BY <3>2, <3>3, <3>f DEF Suits, OneClient
    <3>5. /\ Partial(f, {}, {}) /\ Stays(d, f) /\ f.cl[c] = r
          /\ f.mons = d.mons /\ f.viewable = d.viewable
      BY <3>1, <3>4, ClientFact DEF Good
    <3>6. d1 = [f EXCEPT !.selmon = d.cl[c].mon]
      BY <3>a, <1>2, <3>f, <3>r DEF State
    <3>7. /\ Partial(d1, {}, {}) /\ Stays(f, d1) /\ d1.viewable = d.viewable
          /\ d1.cl[c] = r /\ d1.selmon = r.mon
      BY <3>2, <3>3, <3>5, <3>6, SelmonFact
    <3>8. c \in Managed(d1)
      BY <3>1, <3>5, <3>7 DEF Stays, Keeps
    <3>h. PICK h : h = detachstack(d1, c)
      OBVIOUS
    <3>9. /\ Partial(h, {}, {} \cup {c}) /\ Stays(d1, h) /\ h.viewable = d.viewable
          /\ h.cl = d1.cl /\ h.selmon = d1.selmon
      BY <3>7, <3>8, <3>h, detachstackFact
    <3>10. c \in Managed(h)
      BY <3>8, <3>9 DEF Stays, Keeps
    <3>j. PICK j : j = attachstack(h, c)
      OBVIOUS
    <3>11. /\ Partial(j, {}, ({} \cup {c}) \ {c}) /\ Stays(h, j) /\ j.viewable = d.viewable
           /\ j.cl = d1.cl /\ j.selmon = d1.selmon
      BY <3>9, <3>10, <3>j, attachstackFact
    <3>12. ({} \cup {c}) \ {c} = {}
      OBVIOUS
    <3>13. c \in Managed(j) /\ Partial(j, {}, {})
      BY <3>10, <3>11, <3>12 DEF Stays, Keeps
    <3>14. d2 = setfocus(j, c)
      BY <1>b, <2>2, <3>a, <3>h, <3>j DEF Raise
    <3>15. /\ Partial(d2, {}, {}) /\ Stays(j, d2) /\ d2.viewable = d.viewable
           /\ d2.cl = d1.cl /\ d2.selmon = d1.selmon
      BY <3>11, <3>13, <3>14, setfocusFact
    <3>16. Stays(d, d2)
      <4>1. Stays(d, d1)
        BY <3>5, <3>7, StaysTrans
      <4>2. Stays(d, h)
        BY <3>9, <4>1, StaysTrans
      <4>3. Stays(d, j)
        BY <3>11, <4>2, StaysTrans
      <4> QED
        BY <3>15, <4>3, StaysTrans
    <3>17. c \in On(d2, d2.selmon)
      BY <3>1, <3>7, <3>15, <3>16 DEF On, Stays, Keeps
    <3>18. d2.cl[c] = r /\ c \in Managed(d2) /\ d2.selmon = r.mon
      BY <3>7, <3>13, <3>15 DEF Stays, Keeps
    <3>19. FirstVisible(d2, d2.selmon) = c
      <4>1. ISVISIBLE(d2, c)
        BY <1>v, <2>2, <3>1, <3>3, <3>16, <3>18, VisibleStays DEF Good
      <4>2. c \in Visible(d2)
        BY <3>18, <4>1 DEF Visible
      <4>3. PICK s \in Seq(Window) : j.mons[h.cl[c].mon].stack = <<c>> \o s
        BY <3>9, <3>10, <3>j, attachstackTop
      <4>4. h.cl[c].mon = d2.selmon
        BY <3>7, <3>9, <3>18
      <4>5. d2.mons[d2.selmon].stack = <<c>> \o s
        BY <3>11, <3>13, <3>14, <4>3, <4>4, setfocusFact
      <4> QED
        BY <3>2, <4>2, <4>5, FirstInTop DEF FirstVisible
    <3>20. Rests(d2, c)
      <4>1. ~d2.cl[c].isurgent
        BY <3>2, <3>18, <3>r DEF Client
      <4>2. j \in State
        BY <3>13 DEF Partial, Typed
      <4>3. d2.input = c \/ d2.cl[c].neverfocus \/ c \notin d2.viewable
        BY <3>14, <4>2 DEF setfocus, State
      <4> QED
        BY <4>1, <4>3 DEF Rests
    <3> QED
      BY <3>15, <3>16, <3>17, <3>19, <3>20 DEF Leads, Good
  <2> QED
    BY <2>1, <2>2
<1>s. d2 \in State /\ d2.selmon \in DOMAIN d2.mons /\ d2.mons[d2.selmon] \in Mon
  BY <1>4, SelFact DEF Leads, SelMon
<1>5. /\ Leads(d2, e) /\ e.viewable = d.viewable /\ e.cl = d2.cl /\ e.selmon = d2.selmon
  BY <1>4, <1>e, <1>s, selFact DEF Leads
<1>t. Settled(e)
  <2>1. /\ Sel(e) = c /\ e.input = d2.input
        /\ e.mons[d2.selmon].stack = d2.mons[d2.selmon].stack
    BY <1>e, <1>s DEF Sel, SelMon, State, Mon
  <2>2. Visible(e) = Visible(d2)
    <3>1. \A w \in Managed(d2) : ISVISIBLE(e, w) = ISVISIBLE(d2, w)
      BY <1>4, <1>5, VisibleStays DEF Leads, Good
    <3>2. Managed(e) = Managed(d2)
      BY <1>5 DEF Managed
    <3> QED
      BY <3>1, <3>2 DEF Visible
  <2>3. FirstVisible(e, e.selmon) = c
    BY <1>4, <1>5, <2>1, <2>2 DEF FirstVisible
  <2>4. Rests(e, c)
    BY <1>4, <1>5, <2>1 DEF Rests
  <2> QED
    BY <2>1, <2>3, <2>4 DEF Settled
<1>6. Leads(e, drawbars(e)) /\ drawbars(e).viewable = e.viewable
  BY <1>5, drawbarsFact DEF Leads, Good
<1>u. Settled(drawbars(e))
  BY <1>5, <1>t, arrangeSettled DEF Leads, arrange_all
<1>7. Leads(d, e)
  BY <1>4, <1>5, LeadsTrans
<1> QED
  BY <1>1, <1>5, <1>6, <1>7, <1>u, LeadsTrans

-----------------------------------------------------------------------------
(* Clients that change.                                                    *)

\* The flags of a client change, but neither its screen nor its tags.
Flagged(d, e, A, B, c) ==
  /\ Partial(e, A, B) /\ Stays(d, e)
  /\ e.mons = d.mons /\ e.selmon = d.selmon /\ e.viewable = d.viewable
  /\ e.cl[c].mon = d.cl[c].mon /\ e.cl[c].tags = d.cl[c].tags

LEMMA FlagFact ==
  ASSUME NEW d, NEW A, NEW B, Partial(d, A, B), NEW c \in Managed(d),
         NEW r \in Client, r.mon = d.cl[c].mon, r.tags = d.cl[c].tags,
         NEW e, OneClient(d, e, c, r)
  PROVE  Flagged(d, e, A, B, c)
<1>1. Suits(d, c, r, A, B)
  BY ClientFacts DEF Suits
<1> QED
  BY <1>1, ClientFact DEF Flagged

LEMMA FlagTrans ==
  ASSUME NEW d, NEW e, NEW f, NEW A, NEW B, NEW c,
         Flagged(d, e, A, B, c), Flagged(e, f, A, B, c)
  PROVE  Flagged(d, f, A, B, c)
BY StaysTrans DEF Flagged

LEMMA FlagSelf ==
  ASSUME NEW d, NEW A, NEW B, NEW c, Partial(d, A, B)
  PROVE  Flagged(d, d, A, B, c)
BY StaysSelf DEF Flagged

LEMMA setfullscreenFact ==
  ASSUME NEW d, NEW A, NEW B, Partial(d, A, B), NEW c \in Managed(d), NEW full \in BOOLEAN
  PROVE  Flagged(d, setfullscreen(d, c, full), A, B, c)
<1>1. d \in State /\ c \in Window /\ d.cl[c] \in Client
  BY ClientFacts DEF Partial, Typed
<1>2. CASE full
  <2>r. PICK r : r = [d.cl[c] EXCEPT !.isfullscreen = TRUE, !.oldstate = d.cl[c].isfloating,
                                     !.isfloating = TRUE]
    OBVIOUS
  <2>1. r \in Client /\ r.mon = d.cl[c].mon /\ r.tags = d.cl[c].tags
    BY <1>1, <2>r DEF Client
  <2>2. OneClient(d, setfullscreen(d, c, full), c, r)
    BY <1>1, <1>2, <2>r DEF OneClient, setfullscreen, State
  <2> QED
    BY <2>1, <2>2, FlagFact
<1>3. CASE ~full
  <2>r. PICK r : r = [d.cl[c] EXCEPT !.isfullscreen = FALSE, !.isfloating = d.cl[c].oldstate]
    OBVIOUS
  <2>e. PICK e : e = [d EXCEPT !.cl[c].isfullscreen = FALSE,
                               !.cl[c].isfloating = d.cl[c].oldstate]
    OBVIOUS
  <2>1. r \in Client /\ r.mon = d.cl[c].mon /\ r.tags = d.cl[c].tags
    BY <1>1, <2>r DEF Client
  <2>2. OneClient(d, e, c, r)
    BY <1>1, <2>r, <2>e DEF OneClient, State
  <2>3. Flagged(d, e, A, B, c)
    BY <2>1, <2>2, FlagFact
  <2>4. Flagged(e, arrange(e, d.cl[c].mon), A, B, c)
    BY <2>3, arrangeFact DEF Flagged
  <2>5. setfullscreen(d, c, full) = arrange(e, d.cl[c].mon)
    BY <1>3, <2>e DEF setfullscreen
  <2> QED
    BY <2>3, <2>4, <2>5, FlagTrans
<1> QED
  BY <1>2, <1>3

LEMMA FloatFact ==
  ASSUME NEW d, NEW A, NEW B, Partial(d, A, B), NEW c \in Managed(d), NEW b \in BOOLEAN,
         NEW e, e = [d EXCEPT !.cl[c].isfloating = b]
  PROVE  Flagged(d, e, A, B, c)
<1>r. PICK r : r = [d.cl[c] EXCEPT !.isfloating = b]
  OBVIOUS
<1>1. d \in State /\ c \in Window /\ d.cl[c] \in Client
  BY ClientFacts DEF Partial, Typed
<1>2. r \in Client /\ r.mon = d.cl[c].mon /\ r.tags = d.cl[c].tags
  BY <1>1, <1>r DEF Client
<1>3. OneClient(d, e, c, r)
  BY <1>1, <1>r DEF OneClient, State
<1> QED
  BY <1>2, <1>3, FlagFact

LEMMA FixedFact ==
  ASSUME NEW d, NEW A, NEW B, Partial(d, A, B), NEW c \in Managed(d),
         NEW e, e = [d EXCEPT !.cl[c].isfixed = ~@]
  PROVE  Flagged(d, e, A, B, c)
<1>r. PICK r : r = [d.cl[c] EXCEPT !.isfixed = ~@]
  OBVIOUS
<1>1. d \in State /\ c \in Window /\ d.cl[c] \in Client
  BY ClientFacts DEF Partial, Typed
<1>2. r \in Client /\ r.mon = d.cl[c].mon /\ r.tags = d.cl[c].tags
  BY <1>1, <1>r DEF Client
<1>3. OneClient(d, e, c, r)
  BY <1>1, <1>r DEF OneClient, State
<1> QED
  BY <1>2, <1>3, FlagFact

LEMMA updatewindowtypeFact ==
  ASSUME NEW d, NEW A, NEW B, Partial(d, A, B), NEW c \in Managed(d), NEW full \in BOOLEAN
  PROVE  Flagged(d, updatewindowtype(d, c, full), A, B, c)
<1>e. PICK e : e = IF full THEN setfullscreen(d, c, TRUE) ELSE d
  OBVIOUS
<1>1. Flagged(d, e, A, B, c)
  BY <1>e, setfullscreenFact, FlagSelf
<1>2. Partial(e, A, B) /\ c \in Managed(e)
  BY <1>1 DEF Flagged, Stays, Keeps
<1>3. CASE c \in Dialog
  <2>1. updatewindowtype(d, c, full) = [e EXCEPT !.cl[c].isfloating = TRUE]
    BY <1>e, <1>3 DEF updatewindowtype
  <2>2. Flagged(e, updatewindowtype(d, c, full), A, B, c)
    BY <1>2, <2>1, FloatFact
  <2> QED
    BY <1>1, <2>2, FlagTrans
<1>4. CASE c \notin Dialog
  BY <1>e, <1>1, <1>4 DEF updatewindowtype
<1> QED
  BY <1>3, <1>4

LEMMA updatewmhintsFact ==
  ASSUME NEW d, NEW A, NEW B, Partial(d, A, B), NEW c \in Managed(d), NEW hint \in Hint
  PROVE  Flagged(d, updatewmhints(d, c, hint), A, B, c)
<1>r. PICK r : r = [d.cl[c] EXCEPT !.isurgent = IF c = Sel(d) /\ hint.urgent THEN @ ELSE hint.urgent,
                                   !.neverfocus = hint.nofocus]
  OBVIOUS
<1>1. d \in State /\ c \in Window /\ d.cl[c] \in Client
  BY ClientFacts DEF Partial, Typed
<1>2. hint.urgent \in BOOLEAN /\ hint.nofocus \in BOOLEAN
  BY DEF Hint
<1>3. r \in Client /\ r.mon = d.cl[c].mon /\ r.tags = d.cl[c].tags
  BY <1>1, <1>2, <1>r DEF Client
<1>4. OneClient(d, updatewmhints(d, c, hint), c, r)
  BY <1>1, <1>r DEF OneClient, updatewmhints, State
<1> QED
  BY <1>3, <1>4, FlagFact

LEMMA FlagLeads ==
  ASSUME NEW d, NEW e, NEW c, Flagged(d, e, {}, {}, c)
  PROVE  Leads(d, e)
BY DEF Flagged, Leads, Good

LEMMA togglefloatingFact ==
  ASSUME NEW d, Good(d)
  PROVE  Leads(d, togglefloating(d))
<1>1. CASE Sel(d) = None
  BY <1>1, LeadsSelf DEF togglefloating
<1>2. CASE Sel(d) # None
  <2>c. PICK c : c = Sel(d)
    OBVIOUS
  <2>1. c \in Managed(d) /\ d \in State
    BY <1>2, <2>c, SelFact
  <2>2. c \in Window /\ d.cl[c] \in Client
    BY <2>1, ClientFacts DEF Good
  <2>b. PICK b : b = (~d.cl[c].isfloating \/ d.cl[c].isfixed)
    OBVIOUS
  <2>3. b \in BOOLEAN
    BY <2>b
  <2>e. PICK e : e = [d EXCEPT !.cl[c].isfloating = b]
    OBVIOUS
  <2>4. Leads(d, e)
    BY <2>1, <2>3, <2>e, FloatFact, FlagLeads DEF Good
  <2>5. e = [d EXCEPT !.cl[c].isfloating = ~@ \/ d.cl[c].isfixed]
    BY <2>1, <2>2, <2>b, <2>e DEF State
  <2>6. togglefloating(d) = arrange(e, d.selmon)
    BY <1>2, <2>c, <2>5 DEF togglefloating
  <2> QED
    BY <2>4, <2>6, arrangeLeads
<1> QED
  BY <1>1, <1>2

LEMMA togglefullscrFact ==
  ASSUME NEW d, Good(d)
  PROVE  Leads(d, togglefullscr(d))
<1>1. CASE Sel(d) = None
  BY <1>1, LeadsSelf DEF togglefullscr
<1>2. CASE Sel(d) # None
  <2>1. Sel(d) \in Managed(d)
    BY <1>2, SelFact
  <2>2. Flagged(d, setfullscreen(d, Sel(d), ~d.cl[Sel(d)].isfullscreen), {}, {}, Sel(d))
    BY <2>1, setfullscreenFact DEF Good
  <2> QED
    BY <1>2, <2>2, FlagLeads DEF togglefullscr
<1> QED
  BY <1>1, <1>2

-----------------------------------------------------------------------------
(* Clients that move, come and go.                                         *)

LEMMA popFact ==
  ASSUME NEW d, Good(d), NEW c \in Managed(d)
  PROVE  Leads(d, pop(d, c)) /\ Settled(pop(d, c))
<1>h. PICK h : h = detach(d, c)
  OBVIOUS
<1>j. PICK j : j = attach(h, c)
  OBVIOUS
<1>f. PICK f : f = focus(j, c)
  OBVIOUS
<1>1. Partial(h, {} \cup {c}, {}) /\ Stays(d, h)
  BY <1>h, detachFact DEF Good
<1>2. c \in Managed(h)
  BY <1>1 DEF Stays, Keeps
<1>3. Partial(j, ({} \cup {c}) \ {c}, {}) /\ Stays(h, j)
  BY <1>1, <1>2, <1>j, attachFact
<1>4. ({} \cup {c}) \ {c} = {}
  OBVIOUS
<1>5. Good(j) /\ c \in Managed(j)
  BY <1>2, <1>3, <1>4 DEF Stays, Keeps, Good
<1>6. Leads(d, j)
  BY <1>1, <1>3, <1>5, StaysTrans DEF Leads
<1>7. Leads(j, f) /\ Settled(f)
  BY <1>5, <1>f, focusFact
<1>8. pop(d, c) = arrange(f, f.cl[c].mon)
  BY <1>h, <1>j, <1>f DEF pop
<1>9. Settled(pop(d, c))
  BY <1>7, <1>8, arrangeSettled DEF Leads
<1> QED
  BY <1>6, <1>7, <1>8, <1>9, LeadsTrans, arrangeLeads

LEMMA ViewOfFact ==
  ASSUME NEW m \in Mon
  PROVE  ViewOf(m) \in SUBSET Tags /\ ViewOf(m) # {}
<1>1. m.tagset \in [0..1 -> Views] /\ m.seltags \in 0..1
  BY DEF Mon
<1> QED
  BY <1>1 DEF ViewOf, Views

LEMMA sendmonFact ==
  ASSUME NEW d, Good(d), NEW c \in Managed(d), NEW i \in DOMAIN d.mons
  PROVE  /\ Leads(d, sendmon(d, c, i))
         /\ d.cl[c].mon # i => Settled(sendmon(d, c, i))
<1>1. CASE d.cl[c].mon = i
  BY <1>1, LeadsSelf DEF sendmon
<1>2. CASE d.cl[c].mon # i
  <2>u. PICK u : u = unfocus(d, c)
    OBVIOUS
  <2>h. PICK h : h = detach(u, c)
    OBVIOUS
  <2>k. PICK k : k = detachstack(h, c)
    OBVIOUS
  <2>r. PICK r : r = [k.cl[c] EXCEPT !.mon = i, !.tags = ViewOf(d.mons[i])]
    OBVIOUS
  <2>e. PICK e : e = [k EXCEPT !.cl[c].mon = i, !.cl[c].tags = ViewOf(d.mons[i])]
    OBVIOUS
  <2>j. PICK j : j = attach(e, c)
    OBVIOUS
  <2>l. PICK l : l = attachstack(j, c)
    OBVIOUS
  <2>f. PICK f : f = focus(l, None)
    OBVIOUS
  <2>1. Partial(u, {}, {}) /\ Stays(d, u) /\ c \in Managed(u)
    BY <2>u, unfocusFact DEF Good, Stays, Keeps
  <2>2. Partial(h, {} \cup {c}, {}) /\ Stays(u, h)
    BY <2>1, <2>h, detachFact
  <2>3. c \in Managed(h)
    BY <2>1, <2>2 DEF Stays, Keeps
  <2>4. Partial(k, {} \cup {c}, {} \cup {c}) /\ Stays(h, k)
    BY <2>2, <2>3, <2>k, detachstackFact
  <2>5. c \in Managed(k) /\ k \in State /\ c \in Window /\ k.cl[c] \in Client
    <3>1. c \in Managed(k)
      BY <2>3, <2>4 DEF Stays, Keeps
    <3> QED
      BY <2>4, <3>1, ClientFacts DEF Partial, Typed
  <2>6. ViewOf(d.mons[i]) \in SUBSET Tags /\ ViewOf(d.mons[i]) # {}
    BY MonFacts, ViewOfFact DEF Good
  <2>7. i \in DOMAIN k.mons /\ i \in Nat
    <3>1. DOMAIN k.mons = DOMAIN d.mons
      BY <2>1, <2>2, <2>4 DEF Stays
    <3> QED
      BY <3>1, <2>5 DEF State
  <2>8. r \in Client /\ r.mon = i /\ r.tags = ViewOf(d.mons[i])
    BY <2>5, <2>6, <2>7, <2>r DEF Client
  <2>9. Suits(k, c, r, {} \cup {c}, {} \cup {c})
    BY <2>6, <2>7, <2>8 DEF Suits
  <2>10. OneClient(k, e, c, r)
    BY <2>5, <2>r, <2>e DEF OneClient, State
  <2>11. Partial(e, {} \cup {c}, {} \cup {c}) /\ Stays(k, e)
    BY <2>4, <2>5, <2>9, <2>10, ClientFact
  <2>12. c \in Managed(e)
    BY <2>5, <2>11 DEF Stays, Keeps
  <2>13. Partial(j, ({} \cup {c}) \ {c}, {} \cup {c}) /\ Stays(e, j)
    BY <2>11, <2>12, <2>j, attachFact
  <2>14. c \in Managed(j)
    BY <2>12, <2>13 DEF Stays, Keeps
  <2>15. Partial(l, ({} \cup {c}) \ {c}, ({} \cup {c}) \ {c}) /\ Stays(j, l)
    BY <2>13, <2>14, <2>l, attachstackFact
  <2>16. ({} \cup {c}) \ {c} = {}
    OBVIOUS
  <2>17. Good(l)
    BY <2>15, <2>16 DEF Good
  <2>18. Stays(d, l)
    <3>1. Stays(d, k)
      BY <2>1, <2>2, <2>4, StaysTrans
    <3>2. Stays(k, l)
      BY <2>11, <2>13, <2>15, StaysTrans
    <3> QED
      BY <3>1, <3>2, StaysTrans
  <2>19. Leads(d, l) /\ Leads(l, f) /\ Settled(f)
    BY <2>17, <2>18, <2>f, focusFact DEF Leads
  <2>20. sendmon(d, c, i) = arrange_all(f)
    BY <1>2, <2>u, <2>h, <2>k, <2>e, <2>j, <2>l, <2>f DEF sendmon
  <2>21. Settled(sendmon(d, c, i))
    BY <2>19, <2>20, arrangeSettled DEF Leads
  <2> QED
    BY <2>19, <2>20, <2>21, LeadsTrans, arrangeLeads
<1> QED
  BY <1>1, <1>2

LEMMA dirtomonFact ==
  ASSUME NEW d \in State, d.selmon \in DOMAIN d.mons, NEW dir \in {1, -1}
  PROVE  dirtomon(d, dir) \in DOMAIN d.mons
<1>1. PICK n \in Nat : n = Len(d.mons) /\ DOMAIN d.mons = 1..n
  BY DEF State
<1>2. d.selmon \in 1..n
  BY <1>1
<1>3. PICK k : k = d.selmon - 1 + dir
  OBVIOUS
<1>4. k \in Int /\ n > 0
  BY <1>2, <1>3
<1>5. k % n \in 0..(n - 1)
  BY <1>4
<1>6. (k % n) + 1 \in 1..n
  BY <1>4, <1>5
<1> QED
  BY <1>1, <1>3, <1>6 DEF dirtomon

LEMMA applyrulesFact ==
  ASSUME NEW d, Good(d), NEW w \in Window
  PROVE  /\ applyrules(d, w).mon \in DOMAIN d.mons
         /\ applyrules(d, w).tags \in SUBSET Tags /\ applyrules(d, w).tags # {}
         /\ applyrules(d, w).isfloating \in BOOLEAN
<1>n. PICK n \in Nat : n = Len(Rules) /\ DOMAIN Rules = 1..n
  BY DwmAssumption
<1>h. PICK hits : hits = {i \in DOMAIN Rules : w \in Rules[i].matches}
  OBVIOUS
<1>p. PICK placed : placed = {i \in hits : Rules[i].monitor + 1 \in DOMAIN d.mons}
  OBVIOUS
<1>m. PICK mon : mon = IF placed = {} THEN d.selmon ELSE Rules[Max(placed)].monitor + 1
  OBVIOUS
<1>t. PICK tags : tags = (UNION {Rules[i].tags : i \in hits}) \cap Tags
  OBVIOUS
<1>1. hits \in SUBSET (1..n) /\ placed \in SUBSET (1..n)
  BY <1>n, <1>h, <1>p
<1>2. mon \in DOMAIN d.mons
  <2>1. CASE placed = {}
    BY <1>m, <2>1, SelFact
  <2>2. CASE placed # {}
    <3>1. Max(placed) \in placed
      BY <1>1, <2>2, MaxFact
    <3> QED
      BY <1>m, <1>p, <2>2, <3>1
  <2> QED
    BY <2>1, <2>2
<1>3. ViewOf(d.mons[mon]) \in SUBSET Tags /\ ViewOf(d.mons[mon]) # {}
  BY <1>2, MonFacts, ViewOfFact DEF Good
<1>4. applyrules(d, w) = [tags |-> IF tags = {} THEN ViewOf(d.mons[mon]) ELSE tags,
                          isfloating |-> hits # {} /\ Rules[Max(hits)].isfloating,
                          mon |-> mon]
  BY <1>h, <1>p, <1>m, <1>t DEF applyrules
<1>5. tags \in SUBSET Tags
  BY <1>t
<1> QED
  BY <1>2, <1>3, <1>4, <1>5

\* From d to e the client c is gone and nothing else.
Leaves(d, e, c) ==
  /\ Good(e)
  /\ Same(d, e)
  /\ Managed(e) = Managed(d) \ {c}
  /\ e.viewable = d.viewable
  /\ DOMAIN e.mons = DOMAIN d.mons
  /\ e.run \in {d.run, "crashed"}
  /\ Tuned(d) => Tuned(e)

LEMMA unmanageFact ==
  ASSUME NEW d, Good(d), NEW c \in Managed(d)
  PROVE  Leaves(d, unmanage(d, c), c) /\ Settled(unmanage(d, c))
<1>h. PICK h : h = detach(d, c)
  OBVIOUS
<1>k. PICK k : k = detachstack(h, c)
  OBVIOUS
<1>e. PICK e : e = [k EXCEPT !.cl[c] = None]
  OBVIOUS
<1>f. PICK f : f = focus(e, None)
  OBVIOUS
<1>1. Partial(h, {} \cup {c}, {}) /\ Stays(d, h)
  BY <1>h, detachFact DEF Good
<1>2. c \in Managed(h)
  BY <1>1 DEF Stays, Keeps
<1>3. Partial(k, {} \cup {c}, {} \cup {c}) /\ Stays(h, k)
  BY <1>1, <1>2, <1>k, detachstackFact
<1>4. {} \cup {c} = {c} /\ Stays(d, k)
  BY <1>1, <1>3, StaysTrans
<1>5. Partial(k, {c}, {c}) /\ c \in Managed(k)
  BY <1>2, <1>3, <1>4 DEF Stays, Keeps
<1>6. OneClient(k, e, c, None)
  BY <1>e DEF OneClient
<1>7. /\ Good(e) /\ Managed(e) = Managed(k) \ {c}
      /\ e.mons = k.mons /\ e.viewable = k.viewable /\ e.run = k.run
  BY <1>5, <1>6, GoneFact
<1>8. Leaves(d, e, c)
  <2>1. Same(d, k) /\ Same(k, e) /\ DOMAIN k.mons = DOMAIN d.mons
    BY <1>4, <1>7, LooksSame, SameEqual DEF Stays
  <2>2. Same(d, e)
    BY <2>1, SameTrans
  <2> QED
    BY <1>4, <1>7, <2>2 DEF Leaves, Stays, Keeps, Tuned
<1>9. Leads(e, f) /\ Settled(f)
  BY <1>7, <1>f, focusFact
<1>10. unmanage(d, c) = arrange(f, d.cl[c].mon)
  BY <1>h, <1>k, <1>e, <1>f DEF unmanage
<1>11. Leads(e, unmanage(d, c))
  BY <1>9, <1>10, arrangeLeads
<1>12. Turns(e, unmanage(d, c)) /\ Same(d, e) /\ DOMAIN e.mons = DOMAIN d.mons
  BY <1>8, <1>11, LeadsTurns DEF Leaves
<1>13. Same(d, unmanage(d, c))
  BY <1>12, SameTrans DEF Turns
<1>14. Settled(unmanage(d, c))
  BY <1>9, <1>10, arrangeSettled DEF Leads
<1> QED
  BY <1>8, <1>12, <1>13, <1>14 DEF Leaves, Turns, Keeps

\* From d to e the windows of W have become clients and are mapped.
Joins(d, e, W) ==
  /\ Good(e)
  /\ Same(d, e)
  /\ Managed(e) = Managed(d) \cup W
  /\ e.viewable = d.viewable \cup W
  /\ DOMAIN e.mons = DOMAIN d.mons
  /\ e.run \in {d.run, "crashed"}
  /\ Tuned(d) => Tuned(e)

LEMMA MappedFact ==
  ASSUME NEW d, Good(d), NEW w \in Window, NEW e, e = [d EXCEPT !.viewable = @ \cup {w}]
  PROVE  /\ Good(e) /\ e.viewable = d.viewable \cup {w}
         /\ e.mons = d.mons /\ e.cl = d.cl /\ e.run = d.run /\ Managed(e) = Managed(d)
<1>1. d \in State /\ d.viewable \in SUBSET Window
  BY DEF Good, Partial, Typed, State
<1>2. /\ e \in State /\ e.viewable = d.viewable \cup {w}
      /\ e.mons = d.mons /\ e.cl = d.cl /\ e.run = d.run
      /\ e.selmon = d.selmon /\ e.input = d.input
  BY <1>1 DEF State
<1>3. Managed(e) = Managed(d)
  BY <1>2 DEF Managed
<1>4. Typed(e)
  BY <1>2, <1>3 DEF Good, Partial, Typed
<1>5. \A j : On(e, j) = On(d, j)
  BY <1>2, <1>3 DEF On
<1>6. Linked(e, {}, {})
  BY <1>2, <1>5 DEF Good, Partial, Linked
<1> QED
  BY <1>2, <1>3, <1>4, <1>6 DEF Good, Partial

LEMMA manageFact ==
  ASSUME NEW d, Good(d), NEW w \in Window, w \notin Managed(d), NEW hint \in Hint
  PROVE  Joins(d, manage(d, w, hint), {w}) /\ Settled(manage(d, w, hint))
<1>t. PICK t : t = IF TransientFor[w] = None THEN None ELSE wintoclient(d, TransientFor[w])
  OBVIOUS
<1>at. PICK at : at = IF t # None
                      THEN [tags |-> d.cl[t].tags, isfloating |-> FALSE, mon |-> d.cl[t].mon]
                      ELSE applyrules(d, w)
  OBVIOUS
<1>c. PICK c : c = [mon |-> at.mon, tags |-> at.tags, isfloating |-> at.isfloating,
                    isfixed |-> w \in FixedSize, isfullscreen |-> FALSE, oldstate |-> FALSE,
                    isurgent |-> FALSE, neverfocus |-> FALSE]
  OBVIOUS
<1>e. PICK e : e = [d EXCEPT !.cl[w] = c]
  OBVIOUS
<1>f. PICK f : f = updatewindowtype(e, w, w \in StartsFull)
  OBVIOUS
<1>d1. PICK d1 : d1 = updatewmhints(f, w, hint)
  OBVIOUS
<1>fl. PICK floats : floats = (TransientFor[w] # None \/ w \in FixedSize)
  OBVIOUS
<1>d2. PICK d2 : d2 = IF d1.cl[w].isfloating THEN d1
                      ELSE [d1 EXCEPT !.cl[w].isfloating = floats, !.cl[w].oldstate = floats]
  OBVIOUS
<1>i. PICK i : i = d2.cl[w].mon
  OBVIOUS
<1>h. PICK h : h = attach(d2, w)
  OBVIOUS
<1>j. PICK j : j = attachstack(h, w)
  OBVIOUS
<1>d3. PICK d3 : d3 = [j EXCEPT !.mons[i].sel = w]
  OBVIOUS
<1>d4. PICK d4 : d4 = arrange(d3, i)
  OBVIOUS
<1>d5. PICK d5 : d5 = [d4 EXCEPT !.viewable = @ \cup {w}]
  OBVIOUS
<1>0. manage(d, w, hint) = focus(d5, None)
  <2>1. NewClient(d, w) = c
    BY <1>t, <1>at, <1>c DEF NewClient
  <2>2. Prepared(d, w, hint) = d2
    BY <1>e, <1>f, <1>d1, <1>fl, <1>d2, <2>1 DEF Prepared
  <2>3. d2.cl[w].mon = i
    BY <1>i
  <2> QED
    BY <1>h, <1>j, <1>d3, <1>d4, <1>d5, <2>2, <2>3 DEF manage
<1>1. at.mon \in DOMAIN d.mons /\ at.tags \in SUBSET Tags /\ at.tags # {} /\ at.isfloating \in BOOLEAN
  <2>1. CASE t # None
    <3>1. TransientFor[w] \in Window \cup {None}
      BY DwmAssumption
    <3>2. t \in Managed(d)
      BY <1>t, <2>1, <3>1 DEF wintoclient, Managed
    <3>3. d.cl[t].mon \in DOMAIN d.mons /\ d.cl[t].tags # {} /\ d.cl[t] \in Client
      BY <3>2, ClientFacts DEF Good
    <3>4. d.cl[t].tags \in SUBSET Tags
      BY <3>3 DEF Client
    <3> QED
      BY <1>at, <2>1, <3>3, <3>4
  <2>2. CASE t = None
    BY <1>at, <2>2, applyrulesFact
  <2> QED
    BY <2>1, <2>2
<1>2. at.mon \in Nat
  BY <1>1 DEF Good, Partial, Typed, State
<1>3. c \in Client /\ c.mon = at.mon /\ c.tags = at.tags
  BY <1>1, <1>2, <1>c DEF Client
<1>4. OneClient(d, e, w, c)
  BY <1>e DEF OneClient
<1>5. /\ Partial(e, {w}, {w}) /\ Managed(e) = Managed(d) \cup {w} /\ e.cl[w].mon = at.mon
      /\ e.mons = d.mons /\ e.viewable = d.viewable /\ e.run = d.run
  <2>1. w \in Window \ Managed(d) /\ c.mon \in DOMAIN d.mons /\ c.tags # {}
    BY <1>1, <1>3
  <2>2. c \in Client
    BY <1>3
  <2>3. Adds(d, e, w, c)
    BY <1>4, <2>1, <2>2, NewFact
  <2> QED
    BY <1>3, <2>3 DEF Adds
<1>6. Flagged(e, f, {w}, {w}, w)
  <2>1. w \in Managed(e) /\ (w \in StartsFull) \in BOOLEAN
    BY <1>5
  <2> QED
    BY <1>5, <1>f, <2>1, updatewindowtypeFact
<1>7. Flagged(f, d1, {w}, {w}, w)
  BY <1>5, <1>6, <1>d1, updatewmhintsFact DEF Flagged, Stays, Keeps
<1>8. Flagged(d1, d2, {w}, {w}, w)
  <2>1. CASE d1.cl[w].isfloating
    BY <1>7, <1>d2, <2>1, FlagSelf DEF Flagged
  <2>2. CASE ~d1.cl[w].isfloating
    <3>r. PICK r : r = [d1.cl[w] EXCEPT !.isfloating = floats, !.oldstate = floats]
      OBVIOUS
    <3>1. Partial(d1, {w}, {w}) /\ w \in Managed(d1)
      BY <1>5, <1>6, <1>7 DEF Flagged, Stays, Keeps
    <3>2. d1 \in State /\ d1.cl[w] \in Client
      BY <3>1, ClientFacts DEF Partial, Typed
    <3>3. floats \in BOOLEAN
      BY <1>fl
    <3>4. r \in Client /\ r.mon = d1.cl[w].mon /\ r.tags = d1.cl[w].tags
      BY <3>2, <3>3, <3>r DEF Client
    <3>5. d2 = [d1 EXCEPT !.cl[w].isfloating = floats, !.cl[w].oldstate = floats]
      BY <1>d2, <2>2
    <3>6. OneClient(d1, d2, w, r)
      BY <3>2, <3>5, <3>r DEF OneClient, State
    <3> QED
      BY <3>1, <3>4, <3>6, FlagFact
  <2> QED
    BY <2>1, <2>2
<1>9. Flagged(e, d2, {w}, {w}, w)
  BY <1>6, <1>7, <1>8, FlagTrans
<1>10. Partial(d2, {w}, {w}) /\ w \in Managed(d2) /\ d2.cl[w].mon = at.mon /\ i = at.mon
  BY <1>i, <1>5, <1>9 DEF Flagged, Stays, Keeps
<1>11. Partial(h, {w} \ {w}, {w}) /\ Stays(d2, h) /\ h.cl = d2.cl
  BY <1>10, <1>h, attachFact
<1>12. w \in Managed(h)
  BY <1>10, <1>11 DEF Stays, Keeps
<1>13. Partial(j, {w} \ {w}, {w} \ {w}) /\ Stays(h, j) /\ j.cl = h.cl
  BY <1>11, <1>12, <1>j, attachstackFact
<1>14. {w} \ {w} = {}
  OBVIOUS
<1>15. Good(j) /\ w \in On(j, at.mon) /\ at.mon \in DOMAIN j.mons
  BY <1>1, <1>5, <1>9, <1>10, <1>11, <1>12, <1>13, <1>14 DEF Flagged, Stays, Keeps, On, Good
<1>16. Leads(j, d3)
  BY <1>10, <1>15, <1>d3, selFact
<1>17. Leads(j, d4)
  BY <1>16, <1>d4, arrangeLeads
<1>18. Stays(e, d4)
  <2>1. Stays(e, h)
    BY <1>9, <1>11, StaysTrans DEF Flagged
  <2>2. Stays(e, j)
    BY <1>13, <2>1, StaysTrans
  <2> QED
    BY <1>17, <2>2, StaysTrans DEF Leads
<1>19. /\ Good(d5) /\ d5.viewable = d4.viewable \cup {w}
       /\ d5.mons = d4.mons /\ d5.run = d4.run /\ Managed(d5) = Managed(d4)
  BY <1>17, <1>d5, MappedFact DEF Leads
<1>20. Joins(d, d5, {w})
  <2>1. Tuned(d) => Tuned(e)
    BY <1>5 DEF Tuned
  <2>2. Tuned(d4) => Tuned(d5)
    BY <1>19 DEF Tuned
  <2>3. Same(d, e) /\ Same(e, d4) /\ Same(d4, d5)
    BY <1>5, <1>18, <1>19, SameEqual, LooksSame DEF Stays
  <2>4. DOMAIN e.mons = DOMAIN d.mons /\ DOMAIN d4.mons = DOMAIN d.mons
    BY <1>5, <1>18 DEF Stays
  <2>5. Same(d, d4)
    BY <2>3, <2>4, SameTrans
  <2>6. Same(d, d5)
    BY <2>3, <2>4, <2>5, SameTrans
  <2> QED
    BY <1>5, <1>18, <1>19, <2>1, <2>2, <2>6 DEF Joins, Stays, Keeps
<1>21. Leads(d5, manage(d, w, hint)) /\ Settled(manage(d, w, hint))
  BY <1>0, <1>19, focusFact
<1>22. Turns(d5, manage(d, w, hint))
  BY <1>21, LeadsTurns
<1>23. Same(d, manage(d, w, hint))
  BY <1>20, <1>22, SameTrans DEF Joins, Turns
<1> QED
  BY <1>20, <1>21, <1>22, <1>23 DEF Joins, Turns, Keeps

-----------------------------------------------------------------------------
(* Handlers that do the same thing again and again.                        *)

LEMMA Upward ==
  ASSUME NEW T, 0 \in T, \A k \in Nat : k \in T => k + 1 \in T
  PROVE  \A k \in Nat : k \in T
<1> DEFINE Bad == Nat \ T
<1> SUFFICES ASSUME Bad # {} PROVE FALSE
  OBVIOUS
<1>1. Bad \in SUBSET Nat
  OBVIOUS
<1>2. PICK m \in Bad : \A y \in Bad : m <= y
  BY <1>1, MinFact
<1>3. m \in Nat /\ m # 0 /\ m \notin T
  OBVIOUS
<1>4. m - 1 \in Nat /\ (m - 1) + 1 = m /\ ~(m <= m - 1)
  BY <1>3
<1>5. m - 1 \in T
  BY <1>2, <1>4
<1> QED
  BY <1>3, <1>4, <1>5

\* What is done again: scan manages a window, cleanup lets a client go, and
\* updategeom takes the last screen away.
Held(s) == {i \in DOMAIN s.mons : s.mons[i].stack # << >>}

LetGo(s) == IF Held(s) = {} THEN s ELSE unmanage(s, s.mons[Lowest(Held(s))].stack[1])

Again(what, wins, hints, s, k) ==
  IF what = "scan" THEN manage(s, wins[k], hints[wins[k]])
  ELSE IF what = "cleanup" THEN LetGo(s)
  ELSE RemoveLast(s)

Unfolds(what, wins, hints, d, n, f) ==
  f = [k \in 0..n |-> IF k = 0 THEN d ELSE Again(what, wins, hints, f[k - 1], k)]

LEMMA Unfolding ==
  ASSUME NEW what, NEW wins, NEW hints, NEW d
  PROVE  \A n \in Nat : \E f : Unfolds(what, wins, hints, d, n, f)
<1> DEFINE A(s, k) == Again(what, wins, hints, s, k)
           U(f, n) == f = [k \in 0..n |-> IF k = 0 THEN d ELSE A(f[k - 1], k)]
           T == {n \in Nat : \E f : U(f, n)}
<1> HIDE DEF A
<1>1. 0 \in T
  <2> DEFINE f == [k \in 0..0 |-> d]
  <2>1. U(f, 0)
    OBVIOUS
  <2> QED
    BY <2>1
<1>2. ASSUME NEW n \in Nat, n \in T PROVE n + 1 \in T
  <2>1. PICK f : U(f, n)
    BY <1>2
  <2> DEFINE g == [k \in 0..(n + 1) |-> IF k = n + 1 THEN A(f[n], n + 1) ELSE f[k]]
  <2>2. ASSUME NEW k \in 0..(n + 1)
        PROVE  g[k] = IF k = 0 THEN d ELSE A(g[k - 1], k)
    <3>1. CASE k = n + 1
      <4>1. k # 0 /\ k - 1 = n /\ n \in 0..(n + 1) /\ n # n + 1
        BY <3>1
      <4>2. g[k - 1] = f[n] /\ g[k] = A(f[n], n + 1)
        BY <3>1, <4>1
      <4> QED
        BY <3>1, <4>1, <4>2
    <3>2. CASE k # n + 1
      <4>1. k \in 0..n
        BY <3>2
      <4>2. g[k] = f[k]
        BY <3>2
      <4>3. k # 0 => g[k - 1] = f[k - 1]
        BY <4>1
      <4>4. f[k] = IF k = 0 THEN d ELSE A(f[k - 1], k)
        BY <2>1, <4>1
      <4> QED
        BY <4>2, <4>3, <4>4
    <3> QED
      BY <3>1, <3>2
  <2>3. U(g, n + 1)
    <3>1. g = [k \in 0..(n + 1) |-> g[k]]
      OBVIOUS
    <3> HIDE DEF g
    <3> QED
      BY <2>2, <3>1
  <2> HIDE DEF g
  <2>4. \E h : U(h, n + 1)
    BY <2>3, Zenon
  <2> QED
    BY <2>4
<1>3. \A n \in Nat : n \in T
  <2> HIDE DEF T
  <2> QED
    BY <1>1, <1>2, Upward
<1>4. \A n \in Nat : \E f : U(f, n)
  BY <1>3
<1> QED
  BY <1>4 DEF Unfolds, A

LEMMA ScannedFact ==
  ASSUME NEW d, NEW wins, NEW hints, Len(wins) \in Nat
  PROVE  LET f == Scanned(d, wins, hints)
         IN  /\ f[0] = d
             /\ \A k \in 1..Len(wins) : f[k] = manage(f[k - 1], wins[k], hints[wins[k]])
<1>n. PICK n \in Nat : n = Len(wins)
  OBVIOUS
<1> DEFINE P(f) == f = [k \in 0..Len(wins) |-> IF k = 0 THEN d
                                               ELSE manage(f[k - 1], wins[k], hints[wins[k]])]
<1>1. Scanned(d, wins, hints) = CHOOSE f : P(f)
  BY DEF Scanned
<1>2. PICK f : Unfolds("scan", wins, hints, d, n, f)
  BY Unfolding
<1>3. P(f)
  BY <1>n, <1>2 DEF Unfolds, Again
<1>4. P(Scanned(d, wins, hints))
  BY <1>1, <1>3
<1>5. PICK g : g = Scanned(d, wins, hints)
  OBVIOUS
<1>6. g = [k \in 0..n |-> IF k = 0 THEN d ELSE manage(g[k - 1], wins[k], hints[wins[k]])]
  BY <1>n, <1>4, <1>5
<1>7. \A k \in 0..n : g[k] = IF k = 0 THEN d ELSE manage(g[k - 1], wins[k], hints[wins[k]])
  BY <1>6
<1>8. 0 \in 0..n /\ \A k \in 1..n : k \in 0..n /\ k # 0
  OBVIOUS
<1> QED
  BY <1>n, <1>5, <1>7, <1>8

\* The windows that are managed one after the other are all clients then.
LEMMA scanFact ==
  ASSUME NEW d, Good(d), NEW wins \in Seq(Window), NEW hints,
         \A i, j \in DOMAIN wins : i # j => wins[i] # wins[j],
         \A i \in DOMAIN wins : wins[i] \notin Managed(d) /\ hints[wins[i]] \in Hint
  PROVE  /\ Joins(d, scan(d, wins, hints), Range(wins))
         /\ wins = << >> => scan(d, wins, hints) = d
         /\ wins # << >> => Settled(scan(d, wins, hints))
<1>n. PICK n \in Nat : n = Len(wins) /\ DOMAIN wins = 1..n
  OBVIOUS
<1>f. PICK f : f = Scanned(d, wins, hints)
  OBVIOUS
<1>1. f[0] = d /\ \A k \in 1..n : f[k] = manage(f[k - 1], wins[k], hints[wins[k]])
  BY <1>n, <1>f, ScannedFact
<1> DEFINE W(k) == {wins[i] : i \in 1..k}
           T == {k \in Nat : k <= n => Joins(d, f[k], W(k)) /\ (k # 0 => Settled(f[k]))}
<1>2. 0 \in T
  <2>1. W(0) = {}
    OBVIOUS
  <2>2. Joins(d, d, {})
    BY SameEqual DEF Joins
  <2> HIDE DEF W
  <2> QED
    BY <1>1, <2>1, <2>2
<1>3. ASSUME NEW k \in Nat, k \in T PROVE k + 1 \in T
  <2> SUFFICES ASSUME k + 1 <= n
               PROVE  Joins(d, f[k + 1], W(k + 1)) /\ Settled(f[k + 1])
    OBVIOUS
  <2>1. k <= n /\ k + 1 \in 1..n /\ (k + 1) - 1 = k
    BY <1>n
  <2>2. Joins(d, f[k], W(k))
    BY <1>3, <2>1
  <2>w. PICK w : w = wins[k + 1]
    OBVIOUS
  <2>3. w \in Window /\ w \notin Managed(d) /\ hints[w] \in Hint
    BY <1>n, <2>1, <2>w
  <2>4. w \notin W(k)
    <3>1. \A i \in 1..k : i \in DOMAIN wins /\ i # k + 1
      BY <1>n, <2>1
    <3>2. k + 1 \in DOMAIN wins
      BY <1>n, <2>1
    <3>3. \A i \in 1..k : wins[i] # w
      BY <2>w, <3>1, <3>2
    <3> QED
      BY <3>3
  <2>5. W(k + 1) = W(k) \cup {w}
    <3>1. \A i \in 1..(k + 1) : i \in 1..k \/ i = k + 1
      OBVIOUS
    <3>2. \A i \in 1..k : i \in 1..(k + 1)
      OBVIOUS
    <3> QED
      BY <2>1, <2>w, <3>1, <3>2
  <2> HIDE DEF W
  <2>6. Good(f[k]) /\ w \notin Managed(f[k])
    BY <2>2, <2>3, <2>4 DEF Joins
  <2>7. f[k + 1] = manage(f[k], w, hints[w])
    BY <1>1, <2>1, <2>w
  <2>8. Joins(f[k], f[k + 1], {w}) /\ Settled(f[k + 1])
    BY <2>3, <2>6, <2>7, manageFact
  <2>9. Same(d, f[k + 1])
    BY <2>2, <2>8, SameTrans DEF Joins
  <2> QED
    BY <2>2, <2>5, <2>8, <2>9 DEF Joins
<1>4. n \in T
  <2> HIDE DEF T
  <2> QED
    BY <1>2, <1>3, Upward
<1>5. W(n) = Range(wins)
  BY <1>n DEF Range
<1> HIDE DEF W
<1>6. Joins(d, f[n], Range(wins)) /\ (n # 0 => Settled(f[n]))
  BY <1>4, <1>5
<1>7. (wins = << >> => n = 0) /\ (wins # << >> => n # 0)
  BY <1>n
<1> QED
  BY <1>n, <1>f, <1>1, <1>6, <1>7 DEF scan

-----------------------------------------------------------------------------
(* Settings and views of the selected screen.                              *)

\* As Leads, but for the settings.
Shows(d, e) ==
  /\ Good(e)
  /\ e.viewable = d.viewable
  /\ Managed(e) = Managed(d)
  /\ DOMAIN e.mons = DOMAIN d.mons
  /\ e.run \in {d.run, "crashed"}

TunedBut(d, i) ==
  \A j \in DOMAIN d.mons : j # i => d.mons[j].set = d.mons[j].per[d.mons[j].cur]

LEMMA ShowsTurns ==
  ASSUME NEW d, NEW e, Shows(d, e), Same(d, e), Tuned(d) => Tuned(e)
  PROVE  Turns(d, e)
BY DEF Shows, Turns, Keeps

LEMMA ShowsChanges ==
  ASSUME NEW d, NEW e, Shows(d, e), Sets(d, e), Tuned(d) => Tuned(e)
  PROVE  Changes(d, e)
BY DEF Shows, Changes, Keeps

LEMMA SetsLooks ==
  ASSUME NEW d, NEW e, NEW f, Sets(d, e), Looks(e, f),
         DOMAIN e.mons = DOMAIN d.mons, f.selmon = e.selmon
  PROVE  Sets(d, f)
<1> SUFFICES ASSUME NEW i \in DOMAIN d.mons
             PROVE  /\ f.mons[i].cur = d.mons[i].cur
                    /\ ViewOf(f.mons[i]) = ViewOf(d.mons[i])
                    /\ \A t \in 0..TAGS : f.mons[i].per[t] # d.mons[i].per[t] =>
                         i = f.selmon /\ t = d.mons[i].cur
  BY DEF Sets
<1>1. /\ f.mons[i].per = e.mons[i].per /\ f.mons[i].cur = e.mons[i].cur
      /\ ViewOf(f.mons[i]) = ViewOf(e.mons[i])
  BY LookFact DEF Looks, ViewOf
<1> QED
  BY <1>1 DEF Sets

LEMMA LeadsShows ==
  ASSUME NEW d, NEW e, NEW f, Shows(d, e), Leads(e, f)
  PROVE  Shows(d, f) /\ (Tuned(e) => Tuned(f))
BY DEF Shows, Leads, Stays, Keeps

\* The selected screen is replaced by one with the same clients.
LEMMA ScreenFact ==
  ASSUME NEW d, Good(d), NEW m \in Mon,
         m.clients = SelMon(d).clients, m.stack = SelMon(d).stack, m.sel = SelMon(d).sel,
         NEW e, OneMon(d, e, d.selmon, m)
  PROVE  /\ Shows(d, e)
         /\ e.selmon = d.selmon /\ SelMon(e) = m
         /\ Tuned(d) => TunedBut(e, d.selmon)
         /\ TunedBut(d, d.selmon) => TunedBut(e, d.selmon)
         /\ TunedBut(d, d.selmon) /\ m.set = m.per[m.cur] => Tuned(e)
         /\ \A j \in DOMAIN d.mons : j # d.selmon => e.mons[j] = d.mons[j]
         /\ m.per = SelMon(d).per => Same(d, e)
<1>i. PICK i : i = d.selmon
  OBVIOUS
<1>1. /\ i \in DOMAIN d.mons /\ SelMon(d) = d.mons[i]
      /\ SelMon(d).sel \in (On(d, i) \ {}) \cup {None}
  <2>1. i \in DOMAIN d.mons /\ SelMon(d) = d.mons[i] /\ Sel(d) \in On(d, i) \cup {None}
    BY <1>i, SelFact DEF SelMon
  <2> QED
    BY <2>1 DEF Sel
<1>2. /\ m.clients = d.mons[i].clients /\ m.stack = d.mons[i].stack
      /\ m.sel \in (On(d, i) \ {}) \cup {None}
      /\ OneMon(d, e, i, m) /\ Partial(d, {}, {})
  BY <1>i, <1>1 DEF Good
<1>3. /\ Partial(e, {}, {})
      /\ Managed(e) = Managed(d)
      /\ DOMAIN e.mons = DOMAIN d.mons
      /\ e.mons[i] = m
      /\ \A j \in DOMAIN d.mons : j # i => e.mons[j] = d.mons[j]
      /\ e.selmon = d.selmon /\ e.viewable = d.viewable /\ e.run = d.run
  BY <1>1, <1>2, ViewFact
<1>4. Shows(d, e)
  BY <1>3 DEF Shows, Good
<1>5. e.selmon = d.selmon /\ SelMon(e) = m
  BY <1>i, <1>3 DEF SelMon
<1>6. Tuned(d) => TunedBut(d, d.selmon)
  BY DEF Tuned, TunedBut
<1>7. TunedBut(d, d.selmon) => TunedBut(e, d.selmon)
  BY <1>i, <1>3 DEF TunedBut
<1>8. TunedBut(e, d.selmon) /\ m.set = m.per[m.cur] => Tuned(e)
  BY <1>i, <1>3 DEF TunedBut, Tuned
<1>9. m.per = SelMon(d).per => Same(d, e)
  BY <1>i, <1>1, <1>3 DEF Same
<1> QED
  BY <1>i, <1>3, <1>4, <1>5, <1>6, <1>7, <1>8, <1>9

LEMMA MonParts ==
  ASSUME NEW m \in Mon
  PROVE  /\ m.cur \in 0..TAGS /\ m.prev \in 0..TAGS /\ m.seltags \in 0..1
         /\ m.set \in Setting /\ m.per \in [0..TAGS -> Setting] /\ m.per[m.cur] \in Setting
         /\ m.tagset \in [0..1 -> Views]
BY DEF Mon

\* The settings become s, and those of the current tag p.
SetTo(d, m, s, p) == m = [SelMon(d) EXCEPT !.set = s, !.per[SelMon(d).cur] = p]

LEMMA SettingFact ==
  ASSUME NEW d, Good(d), NEW s \in Setting, NEW p \in Setting,
         NEW m, SetTo(d, m, s, p),
         NEW e, OneMon(d, e, d.selmon, m)
  PROVE  /\ Shows(d, e)
         /\ e.selmon = d.selmon /\ SelMon(e) = m
         /\ TunedBut(d, d.selmon) => TunedBut(e, d.selmon)
         /\ TunedBut(d, d.selmon) /\ s = p => Tuned(e)
         /\ Sets(d, e)
         /\ p = SelMon(d).per[SelMon(d).cur] => Same(d, e)
         /\ Steady(d, e)
<1>1. SelMon(d) \in Mon
  BY SelFact
<1>2. /\ SelMon(d).cur \in 0..TAGS /\ SelMon(d).per \in [0..TAGS -> Setting]
  BY <1>1, MonParts
<1>q. PICK q : q = [SelMon(d).per EXCEPT ![SelMon(d).cur] = p]
  OBVIOUS
<1>3. q \in [0..TAGS -> Setting] /\ q[SelMon(d).cur] = p
  BY <1>2, <1>q
<1>4. m = [SelMon(d) EXCEPT !.set = s, !.per = q]
  BY <1>1, <1>q DEF Mon, SetTo
<1>5. /\ m \in Mon
      /\ m.clients = SelMon(d).clients /\ m.stack = SelMon(d).stack /\ m.sel = SelMon(d).sel
      /\ m.set = s /\ m.per = q /\ m.cur = SelMon(d).cur
      /\ m.seltags = SelMon(d).seltags /\ m.tagset = SelMon(d).tagset
  BY <1>1, <1>3, <1>4 DEF Mon
<1>6. /\ Shows(d, e)
      /\ e.selmon = d.selmon /\ SelMon(e) = m
      /\ TunedBut(d, d.selmon) => TunedBut(e, d.selmon)
      /\ TunedBut(d, d.selmon) /\ m.set = m.per[m.cur] => Tuned(e)
      /\ \A j \in DOMAIN d.mons : j # d.selmon => e.mons[j] = d.mons[j]
      /\ m.per = SelMon(d).per => Same(d, e)
  BY <1>5, ScreenFact
<1>7. ASSUME p = SelMon(d).per[SelMon(d).cur] PROVE q = SelMon(d).per
  BY <1>2, <1>7, <1>q
<1>8. Sets(d, e)
  <2> SUFFICES ASSUME NEW i \in DOMAIN d.mons
               PROVE  /\ e.mons[i].cur = d.mons[i].cur
                      /\ ViewOf(e.mons[i]) = ViewOf(d.mons[i])
                      /\ \A t \in 0..TAGS : e.mons[i].per[t] # d.mons[i].per[t] =>
                           i = e.selmon /\ t = d.mons[i].cur
    BY DEF Sets
  <2>1. CASE i = d.selmon
    <3>1. e.mons[i] = m /\ d.mons[i] = SelMon(d)
      BY <1>6, <2>1 DEF SelMon
    <3>2. \A t \in 0..TAGS : t # SelMon(d).cur => q[t] = SelMon(d).per[t]
      BY <1>2, <1>q
    <3> QED
      BY <1>5, <1>6, <2>1, <3>1, <3>2 DEF ViewOf
  <2>2. CASE i # d.selmon
    BY <1>6, <2>2
  <2> QED
    BY <2>1, <2>2
<1>9. Steady(d, e)
  <2>1. /\ d \in State /\ d.selmon \in DOMAIN d.mons /\ m \in Mon
    BY <1>5, SelFact
  <2>2. /\ e.selmon = d.selmon /\ e.cl = d.cl /\ e.input = d.input
        /\ e.viewable = d.viewable /\ e.run = d.run
    BY <2>1, MonFact
  <2>3. DOMAIN e.mons = DOMAIN d.mons /\ Managed(e) = Managed(d)
    BY <1>6 DEF Shows
  <2>4. SelMon(e).stack = SelMon(d).stack /\ Sel(e) = Sel(d)
    BY <1>5, <1>6 DEF Sel
  <2>5. \A i \in DOMAIN d.mons : ViewOf(e.mons[i]) = ViewOf(d.mons[i])
    BY <1>8 DEF Sets
  <2> QED
    BY <2>2, <2>3, <2>4, <2>5 DEF Steady
<1> QED
  BY <1>3, <1>5, <1>6, <1>7, <1>8, <1>9

LEMMA arrangeShows ==
  ASSUME NEW d, NEW e, Shows(d, e), NEW i
  PROVE  /\ Shows(d, arrange(e, i))
         /\ arrange(e, i).selmon = e.selmon
         /\ Tuned(e) => Tuned(arrange(e, i))
         /\ Looks(e, arrange(e, i)) /\ DOMAIN arrange(e, i).mons = DOMAIN e.mons
<1>1. Partial(e, {}, {})
  BY DEF Shows, Good
<1>2. /\ Partial(arrange(e, i), {}, {}) /\ Stays(e, arrange(e, i))
      /\ arrange(e, i).selmon = e.selmon
  BY <1>1, arrangeFact
<1> QED
  BY <1>2 DEF Shows, Stays, Keeps, Good

LEMMA TunedIsBut ==
  ASSUME NEW d, Tuned(d), Good(d)
  PROVE  TunedBut(d, d.selmon) /\ SelMon(d).set = SelMon(d).per[SelMon(d).cur]
BY SelFact DEF Tuned, TunedBut, SelMon

LEMMA togglebarFact ==
  ASSUME NEW d, Good(d),
         NEW s, s = [SelMon(d).set EXCEPT !.showbar = ~SelMon(d).set.showbar],
         NEW p, p = [SelMon(d).per[SelMon(d).cur] EXCEPT !.showbar = ~SelMon(d).set.showbar]
  PROVE  /\ Shows(d, togglebar(d))
         /\ togglebar(d).selmon = d.selmon
         /\ TunedBut(d, d.selmon) /\ s = p => Tuned(togglebar(d))
         /\ Sets(d, togglebar(d))
         /\ p = SelMon(d).per[SelMon(d).cur] => Same(d, togglebar(d))
         /\ Steady(d, togglebar(d))
<1>b. PICK show : show = ~SelMon(d).set.showbar
  OBVIOUS
<1>m. PICK m : SetTo(d, m, s, p)
  BY DEF SetTo
<1>e. PICK e : e = [d EXCEPT !.mons[d.selmon].set.showbar = show,
                             !.mons[d.selmon].per[SelMon(d).cur].showbar = show]
  OBVIOUS
<1>1. SelMon(d) \in Mon /\ d.selmon \in DOMAIN d.mons /\ d \in State
  BY SelFact
<1>2. /\ SelMon(d).cur \in 0..TAGS /\ SelMon(d).set \in Setting
      /\ SelMon(d).per \in [0..TAGS -> Setting] /\ SelMon(d).per[SelMon(d).cur] \in Setting
  BY <1>1, MonParts
<1>3. show \in BOOLEAN
  BY <1>b
<1>4. s \in Setting /\ p \in Setting
  BY <1>2, <1>3, <1>b DEF Setting
<1>5. OneMon(d, e, d.selmon, m)
  <2>1. m = [SelMon(d) EXCEPT !.set.showbar = show, !.per[SelMon(d).cur].showbar = show]
    BY <1>1, <1>2, <1>b, <1>m DEF Mon, SetTo
  <2>2. [d EXCEPT !.mons[d.selmon] = m] = e
    BY <1>1, <1>e, <2>1 DEF State, SelMon, Mon
  <2> QED
    BY <2>2 DEF OneMon
<1>6. /\ Shows(d, e) /\ e.selmon = d.selmon
      /\ TunedBut(d, d.selmon) /\ s = p => Tuned(e)
      /\ Sets(d, e)
      /\ p = SelMon(d).per[SelMon(d).cur] => Same(d, e)
      /\ Steady(d, e)
  BY <1>4, <1>5, <1>m, SettingFact
<1>7. togglebar(d) = arrange(e, d.selmon)
  BY <1>b, <1>e DEF togglebar
<1>8. /\ Looks(e, togglebar(d)) /\ DOMAIN togglebar(d).mons = DOMAIN e.mons
      /\ togglebar(d).selmon = e.selmon /\ DOMAIN e.mons = DOMAIN d.mons
  BY <1>6, <1>7, arrangeShows DEF Shows
<1>9. Sets(d, togglebar(d))
  BY <1>6, <1>8, SetsLooks
<1>10. Same(d, e) => Same(d, togglebar(d))
  BY <1>8, LooksSame, SameTrans
<1>11. Steady(d, togglebar(d))
  BY <1>6, <1>7, arrangeSteady DEF Shows
<1> QED
  BY <1>6, <1>7, <1>9, <1>10, <1>11, arrangeShows

\* A view ends with the settings of its current tag, whatever was shown before.
LEMMA apply_viewFact ==
  ASSUME NEW d, Good(d)
  PROVE  /\ Shows(d, apply_view(d))
         /\ TunedBut(d, d.selmon) => Tuned(apply_view(d))
         /\ Same(d, apply_view(d))
         /\ Settled(apply_view(d))
<1>m. PICK m : m = SelMon(d)
  OBVIOUS
<1>p. PICK p : p = m.per[m.cur]
  OBVIOUS
<1>s. PICK s : s = [p EXCEPT !.showbar = m.set.showbar]
  OBVIOUS
<1>n. PICK n : n = [m EXCEPT !.set = s]
  OBVIOUS
<1>e. PICK e : e = [d EXCEPT !.mons[d.selmon].set = s]
  OBVIOUS
<1>f. PICK f : f = IF p.showbar # m.set.showbar THEN togglebar(e) ELSE e
  OBVIOUS
<1>1. m \in Mon /\ d.selmon \in DOMAIN d.mons /\ d \in State /\ m = d.mons[d.selmon]
  BY <1>m, SelFact DEF SelMon
<1>2. m.cur \in 0..TAGS /\ m.set \in Setting /\ m.per \in [0..TAGS -> Setting] /\ p \in Setting
  BY <1>1, <1>p, MonParts
<1>3. m.set.showbar \in BOOLEAN /\ p.showbar \in BOOLEAN
  BY <1>2 DEF Setting
<1>4. s \in Setting /\ s.showbar = m.set.showbar
  BY <1>2, <1>3, <1>s DEF Setting
<1>5. SetTo(d, n, s, p)
  <2>1. m.per = [m.per EXCEPT ![m.cur] = p]
    BY <1>2, <1>p
  <2>2. n = [m EXCEPT !.set = s, !.per = [m.per EXCEPT ![m.cur] = p]]
    BY <1>1, <1>n, <2>1 DEF Mon
  <2>3. n = [m EXCEPT !.set = s, !.per[m.cur] = p]
    BY <1>1, <2>2 DEF Mon
  <2> QED
    BY <1>m, <2>3 DEF SetTo
<1>6. OneMon(d, e, d.selmon, n)
  BY <1>1, <1>n, <1>e DEF OneMon
<1>7. /\ Shows(d, e) /\ e.selmon = d.selmon /\ SelMon(e) = n
      /\ TunedBut(d, d.selmon) => TunedBut(e, d.selmon)
      /\ TunedBut(d, d.selmon) /\ s = p => Tuned(e)
      /\ Same(d, e)
  <2>1. p = SelMon(d).per[SelMon(d).cur]
    BY <1>m, <1>p
  <2> QED
    BY <1>2, <1>4, <1>5, <1>6, <2>1, SettingFact
<1>8. /\ Shows(d, f) /\ f.selmon = d.selmon /\ (TunedBut(d, d.selmon) => Tuned(f))
      /\ Same(d, f)
  <2>1. CASE p.showbar = m.set.showbar
    <3>1. s = p
      BY <1>2, <1>s, <2>1 DEF Setting
    <3> QED
      BY <1>7, <1>f, <2>1, <3>1
  <2>2. CASE p.showbar # m.set.showbar
    <3>a. PICK a : a = [SelMon(e).set EXCEPT !.showbar = ~SelMon(e).set.showbar]
      OBVIOUS
    <3>b. PICK b : b = [SelMon(e).per[SelMon(e).cur] EXCEPT !.showbar = ~SelMon(e).set.showbar]
      OBVIOUS
    <3>1. n.set = s /\ n.per[n.cur] = p
      BY <1>1, <1>n, <1>p DEF Mon
    <3>2. (~s.showbar) = p.showbar
      BY <1>3, <1>4, <2>2
    <3>3. a = p
      <4>1. a = [s EXCEPT !.showbar = p.showbar]
        BY <1>7, <3>a, <3>1, <3>2
      <4>2. a = [p EXCEPT !.showbar = p.showbar]
        BY <1>2, <1>s, <4>1 DEF Setting
      <4> QED
        BY <1>2, <4>2 DEF Setting
    <3>4. b = p
      <4>1. b = [p EXCEPT !.showbar = p.showbar]
        BY <1>7, <3>b, <3>1, <3>2
      <4> QED
        BY <1>2, <4>1 DEF Setting
    <3>5. Good(e) /\ f = togglebar(e)
      BY <1>7, <1>f, <2>2 DEF Shows
    <3>6. /\ Shows(e, f) /\ f.selmon = e.selmon
          /\ TunedBut(e, e.selmon) /\ a = b => Tuned(f)
          /\ b = SelMon(e).per[SelMon(e).cur] => Same(e, f)
      BY <3>a, <3>b, <3>5, togglebarFact
    <3>7. Same(e, f)
      BY <1>7, <3>1, <3>4, <3>6
    <3>8. Same(d, f)
      BY <1>7, <3>7, SameTrans DEF Shows
    <3> QED
      BY <1>7, <3>3, <3>4, <3>6, <3>8 DEF Shows
  <2> QED
    BY <2>1, <2>2
<1>9. apply_view(d) = arrange(focus(f, None), d.selmon)
  BY <1>m, <1>p, <1>s, <1>e, <1>f DEF apply_view
<1>10. Leads(f, apply_view(d)) /\ Settled(apply_view(d))
  <2>1. Leads(f, focus(f, None)) /\ Settled(focus(f, None))
    BY <1>8, focusFact DEF Shows
  <2> QED
    BY <1>9, <2>1, arrangeLeads, arrangeSettled DEF Leads
<1>11. Same(d, apply_view(d))
  <2>1. Same(f, apply_view(d)) /\ DOMAIN f.mons = DOMAIN d.mons
    BY <1>8, <1>10, LeadsTurns DEF Turns, Shows
  <2> QED
    BY <1>8, <2>1, SameTrans
<1> QED
  BY <1>8, <1>10, <1>11, LeadsShows

\* A change of the view, and then the settings that go with it.
LEMMA ViewTurns ==
  ASSUME NEW d, Good(d), NEW m \in Mon,
         m.clients = SelMon(d).clients, m.stack = SelMon(d).stack, m.sel = SelMon(d).sel,
         m.per = SelMon(d).per,
         NEW e, OneMon(d, e, d.selmon, m)
  PROVE  Turns(d, apply_view(e)) /\ Settled(apply_view(e))
<1>1. /\ Shows(d, e) /\ e.selmon = d.selmon /\ Same(d, e)
      /\ Tuned(d) => TunedBut(e, d.selmon)
  BY ScreenFact
<1>2. /\ Shows(e, apply_view(e))
      /\ TunedBut(e, e.selmon) => Tuned(apply_view(e))
      /\ Same(e, apply_view(e)) /\ Settled(apply_view(e))
  BY <1>1, apply_viewFact DEF Shows
<1>3. Shows(d, apply_view(e)) /\ (Tuned(d) => Tuned(apply_view(e)))
  BY <1>1, <1>2 DEF Shows
<1>4. Same(d, apply_view(e))
  BY <1>1, <1>2, SameTrans DEF Shows
<1> QED
  BY <1>2, <1>3, <1>4, ShowsTurns

LEMMA TurnsSelf ==
  ASSUME NEW d, Good(d)
  PROVE  Turns(d, d)
BY LeadsSelf, LeadsTurns

LEMMA viewFact ==
  ASSUME NEW d, Good(d), NEW arg, arg = Everything \/ arg \in SUBSET Tags
  PROVE  Turns(d, view(d, arg)) /\ (view(d, arg) = d \/ Settled(view(d, arg)))
<1>1. CASE arg \cap Tags = ViewOf(SelMon(d))
  BY <1>1, TurnsSelf DEF view
<1>2. CASE arg \cap Tags # ViewOf(SelMon(d))
  <2>m. PICK m : m = SelMon(d)
    OBVIOUS
  <2>b. PICK back : back = (arg \cap Tags = {})
    OBVIOUS
  <2>s. PICK s : s = 1 - m.seltags
    OBVIOUS
  <2>c. PICK cur : cur = IF back THEN m.prev ELSE IF arg = Everything THEN 0 ELSE Lowest(arg)
    OBVIOUS
  <2>v. PICK v : v = IF back THEN m.tagset[s] ELSE arg \cap Tags
    OBVIOUS
  <2>t. PICK t : t = [m.tagset EXCEPT ![s] = v]
    OBVIOUS
  <2>n. PICK n : n = [m EXCEPT !.seltags = s, !.tagset[s] = IF back THEN @ ELSE arg \cap Tags,
                               !.prev = m.cur, !.cur = cur]
    OBVIOUS
  <2>e. PICK e : e = [d EXCEPT !.mons[d.selmon] = n]
    OBVIOUS
  <2>1. m \in Mon /\ d.selmon \in DOMAIN d.mons /\ d \in State /\ m = d.mons[d.selmon]
    BY <2>m, SelFact DEF SelMon
  <2>2. /\ m.cur \in 0..TAGS /\ m.prev \in 0..TAGS /\ m.seltags \in 0..1
        /\ m.tagset \in [0..1 -> Views]
    BY <2>1, MonParts
  <2>3. s \in 0..1
    BY <2>2, <2>s
  <2>4. cur \in 0..TAGS
    <3>1. CASE back
      BY <2>2, <2>c, <3>1
    <3>2. CASE ~back /\ arg = Everything
      BY <2>c, <3>2, DwmAssumption
    <3>3. CASE ~back /\ arg # Everything
      <4>1. arg \in SUBSET Tags /\ arg # {} /\ cur = Lowest(arg)
        BY <2>b, <2>c, <3>3
      <4>2. arg \in SUBSET Nat
        BY <4>1 DEF Tags
      <4>3. cur \in Tags
        BY <4>1, <4>2, LowestFact
      <4> QED
        BY <4>3, DwmAssumption DEF Tags
    <3> QED
      BY <3>1, <3>2, <3>3
  <2>5. t \in [0..1 -> Views]
    <3>1. v \in Views
      <4>1. ~back => arg \cap Tags \in Views
        BY <2>b DEF Views
      <4> QED
        BY <2>2, <2>3, <2>v, <4>1
    <3> QED
      BY <2>2, <2>3, <2>t, <3>1
  <2>6. /\ n \in Mon /\ n.clients = SelMon(d).clients /\ n.stack = SelMon(d).stack
        /\ n.sel = SelMon(d).sel /\ n.per = SelMon(d).per
    <3>1. n = [m EXCEPT !.seltags = s, !.tagset = t, !.prev = m.cur, !.cur = cur]
      BY <2>1, <2>2, <2>3, <2>n, <2>t, <2>v DEF Mon
    <3> QED
      BY <2>1, <2>2, <2>3, <2>4, <2>5, <2>m, <3>1 DEF Mon
  <2>7. OneMon(d, e, d.selmon, n)
    BY <2>e DEF OneMon
  <2>8. view(d, arg) = apply_view(e)
    BY <1>2, <2>m, <2>b, <2>s, <2>c, <2>n, <2>e DEF view
  <2> QED
    BY <2>6, <2>7, <2>8, ViewTurns
<1> QED
  BY <1>1, <1>2

LEMMA toggleviewFact ==
  ASSUME NEW d, Good(d), NEW arg \in SUBSET Tags, NEW u \in BOOLEAN
  PROVE  Turns(d, toggleview(d, arg, u)) /\ (toggleview(d, arg, u) = d \/ Settled(toggleview(d, arg, u)))
<1>m. PICK m : m = SelMon(d)
  OBVIOUS
<1>w. PICK new : new = SymDiff(ViewOf(m), arg \cap Tags)
  OBVIOUS
<1>1. CASE new = {}
  BY <1>m, <1>w, <1>1, TurnsSelf DEF toggleview
<1>2. CASE new # {}
  <2>k. PICK keep : keep = IF m.cur = 0 THEN u ELSE m.cur \in new
    OBVIOUS
  <2>a. PICK m1 : m1 = [m EXCEPT !.tagset[m.seltags] = new]
    OBVIOUS
  <2>b. PICK m2 : m2 = IF keep THEN m1 ELSE [m1 EXCEPT !.prev = m.cur, !.cur = Lowest(new)]
    OBVIOUS
  <2>e. PICK e : e = [d EXCEPT !.mons[d.selmon] = m2]
    OBVIOUS
  <2>1. m \in Mon
    BY <1>m, SelFact
  <2>2. /\ m.cur \in 0..TAGS /\ m.seltags \in 0..1 /\ m.tagset \in [0..1 -> Views]
    BY <2>1, MonParts
  <2>3. new \in Views
    <3>1. ViewOf(m) \in SUBSET Tags
      BY <2>1, ViewOfFact
    <3>2. new \in SUBSET Tags
      BY <1>w, <3>1 DEF SymDiff
    <3> QED
      BY <1>2, <3>2 DEF Views
  <2>4. Lowest(new) \in 0..TAGS
    <3>1. new \in SUBSET Nat /\ new \in SUBSET Tags
      BY <2>3, DwmAssumption DEF Views, Tags
    <3>2. Lowest(new) \in Tags
      BY <1>2, <3>1, LowestFact
    <3> QED
      BY <3>2, DwmAssumption DEF Tags
  <2>5. /\ m1 \in Mon /\ m1.clients = m.clients /\ m1.stack = m.stack /\ m1.sel = m.sel
        /\ m1.per = m.per
    BY <2>1, <2>2, <2>3, <2>a DEF Mon
  <2>6. /\ m2 \in Mon /\ m2.clients = m.clients /\ m2.stack = m.stack /\ m2.sel = m.sel
        /\ m2.per = m.per
    BY <2>2, <2>4, <2>5, <2>b DEF Mon
  <2>7. OneMon(d, e, d.selmon, m2)
    BY <2>e DEF OneMon
  <2>8. toggleview(d, arg, u) = apply_view(e)
    BY <1>2, <1>m, <1>w, <2>k, <2>a, <2>b, <2>e DEF toggleview
  <2> QED
    BY <1>m, <2>6, <2>7, <2>8, ViewTurns
<1> QED
  BY <1>1, <1>2

LEMMA winviewFact ==
  ASSUME NEW d, Good(d)
  PROVE  Turns(d, winview(d)) /\ (winview(d) = d \/ Settled(winview(d)))
<1>1. CASE d.input \notin Managed(d)
  BY <1>1, TurnsSelf DEF winview
<1>2. CASE d.input \in Managed(d)
  <2>1. d.cl[d.input] \in Client
    BY <1>2, ClientFacts DEF Good
  <2>2. d.cl[d.input].tags \in SUBSET Tags
    BY <2>1 DEF Client
  <2> QED
    BY <1>2, <2>2, viewFact DEF winview
<1> QED
  BY <1>1, <1>2

-----------------------------------------------------------------------------
(* Keys for settings.                                                      *)

LEMMA togglebarChanges ==
  ASSUME NEW d, Good(d)
  PROVE  Changes(d, togglebar(d)) /\ Steady(d, togglebar(d))
<1>s. PICK s : s = [SelMon(d).set EXCEPT !.showbar = ~SelMon(d).set.showbar]
  OBVIOUS
<1>p. PICK p : p = [SelMon(d).per[SelMon(d).cur] EXCEPT !.showbar = ~SelMon(d).set.showbar]
  OBVIOUS
<1>1. /\ Shows(d, togglebar(d))
      /\ TunedBut(d, d.selmon) /\ s = p => Tuned(togglebar(d))
      /\ Sets(d, togglebar(d)) /\ Steady(d, togglebar(d))
  BY <1>s, <1>p, togglebarFact
<1>2. Tuned(d) => Tuned(togglebar(d))
  <2>1. ASSUME Tuned(d) PROVE s = p /\ TunedBut(d, d.selmon)
    BY <1>s, <1>p, <2>1, TunedIsBut
  <2> QED
    BY <1>1, <2>1
<1> QED
  BY <1>1, <1>2, ShowsChanges

\* The same change of what is shown and of what the current tag has.
LEMMA SetChanges ==
  ASSUME NEW d, Good(d), NEW s \in Setting, NEW p \in Setting,
         SelMon(d).set = SelMon(d).per[SelMon(d).cur] => s = p,
         NEW m, SetTo(d, m, s, p),
         NEW e, OneMon(d, e, d.selmon, m)
  PROVE  Changes(d, arrange(e, d.selmon)) /\ Steady(d, arrange(e, d.selmon))
<1>1. /\ Shows(d, e) /\ Sets(d, e) /\ Steady(d, e)
      /\ TunedBut(d, d.selmon) /\ s = p => Tuned(e)
  BY SettingFact
<1>2. Tuned(d) => Tuned(e)
  BY <1>1, TunedIsBut
<1>f. PICK f : f = arrange(e, d.selmon)
  OBVIOUS
<1>3. Shows(d, f) /\ f.selmon = e.selmon /\ Looks(e, f) /\ (Tuned(e) => Tuned(f))
  BY <1>1, <1>f, arrangeShows
<1>4. Sets(d, f)
  BY <1>1, <1>3, SetsLooks DEF Shows
<1>5. Steady(d, f)
  BY <1>1, <1>f, arrangeSteady DEF Shows
<1> QED
  BY <1>2, <1>3, <1>4, <1>5, <1>f, ShowsChanges

LEMMA LayoutFact ==
  ASSUME NEW s \in Setting
  PROVE  /\ s.lt \in [0..1 -> Layouts] /\ s.sellt \in 0..1 /\ s.lt[s.sellt] \in Layouts
         /\ s.nmaster \in Int /\ s.mfact \in Int /\ s.showbar \in BOOLEAN
BY DEF Setting

LEMMA setlayoutFact ==
  ASSUME NEW d, Good(d), NEW layout \in Layouts \cup {None}
  PROVE  Changes(d, setlayout(d, layout)) /\ Steady(d, setlayout(d, layout))
<1>m. PICK m : m = SelMon(d)
  OBVIOUS
<1>p. PICK p : p = m.per[m.cur]
  OBVIOUS
<1>s. PICK s : s = IF layout # Layout(m) THEN 1 - p.sellt ELSE m.set.sellt
  OBVIOUS
<1>q. PICK q : q = [p EXCEPT !.sellt = IF layout # Layout(m) THEN s ELSE @,
                             !.lt[s] = IF layout = None THEN @ ELSE layout]
  OBVIOUS
<1>t. PICK t : t = [m.set EXCEPT !.sellt = s, !.lt[s] = q.lt[s]]
  OBVIOUS
<1>n. PICK n : n = [m EXCEPT !.per[m.cur] = q, !.set.sellt = s, !.set.lt[s] = q.lt[s]]
  OBVIOUS
<1>e. PICK e : e = [d EXCEPT !.mons[d.selmon] = n]
  OBVIOUS
<1>1. m \in Mon
  BY <1>m, SelFact
<1>2. m.cur \in 0..TAGS /\ m.set \in Setting /\ m.per \in [0..TAGS -> Setting] /\ p \in Setting
  BY <1>1, <1>p, MonParts
<1>3. /\ p.lt \in [0..1 -> Layouts] /\ p.sellt \in 0..1
      /\ m.set.lt \in [0..1 -> Layouts] /\ m.set.sellt \in 0..1
  BY <1>2, LayoutFact
<1>4. s \in 0..1
  BY <1>3, <1>s
<1>l. PICK l : l = [p.lt EXCEPT ![s] = IF layout = None THEN @ ELSE layout]
  OBVIOUS
<1>5. l \in [0..1 -> Layouts]
  <2>1. (IF layout = None THEN p.lt[s] ELSE layout) \in Layouts
    BY <1>3, <1>4
  <2> QED
    BY <1>3, <1>4, <1>l, <2>1
<1>6. q = [p EXCEPT !.sellt = IF layout # Layout(m) THEN s ELSE @, !.lt = l]
  BY <1>2, <1>q, <1>l DEF Setting
<1>7. q \in Setting /\ q.lt = l
  BY <1>2, <1>3, <1>4, <1>5, <1>6 DEF Setting
<1>8. t = [m.set EXCEPT !.sellt = s, !.lt = [m.set.lt EXCEPT ![s] = l[s]]]
  BY <1>2, <1>7, <1>t DEF Setting
<1>9. t \in Setting
  <2>1. l[s] \in Layouts
    BY <1>4, <1>5
  <2>2. [m.set.lt EXCEPT ![s] = l[s]] \in [0..1 -> Layouts]
    BY <1>3, <1>4, <2>1
  <2> QED
    BY <1>2, <1>4, <1>8, <2>2 DEF Setting
<1>10. ASSUME m.set = p PROVE t = q
  <2>1. l = [p.lt EXCEPT ![s] = l[s]]
    BY <1>3, <1>4, <1>l
  <2>2. (IF layout # Layout(m) THEN s ELSE p.sellt) = s
    BY <1>10, <1>s
  <2>3. q = [p EXCEPT !.sellt = s, !.lt = l]
    BY <1>2, <1>6, <2>2 DEF Setting
  <2>4. t = [p EXCEPT !.sellt = s, !.lt = l]
    BY <1>8, <1>10, <2>1
  <2> QED
    BY <2>3, <2>4
<1>11. SetTo(d, n, t, q)
  <2>1. n = [m EXCEPT !.set = t, !.per[m.cur] = q]
    BY <1>1, <1>2, <1>n, <1>t DEF Mon, Setting
  <2> QED
    BY <1>m, <2>1 DEF SetTo
<1>12. OneMon(d, e, d.selmon, n)
  BY <1>e DEF OneMon
<1>13. setlayout(d, layout) = arrange(e, d.selmon)
  BY <1>m, <1>p, <1>s, <1>q, <1>n, <1>e DEF setlayout
<1>14. SelMon(d).set = SelMon(d).per[SelMon(d).cur] => t = q
  BY <1>m, <1>p, <1>10
<1> QED
  BY <1>7, <1>9, <1>11, <1>12, <1>13, <1>14, SetChanges

LEMMA setmfactFact ==
  ASSUME NEW d, Good(d), NEW step \in Int
  PROVE  Changes(d, setmfact(d, step)) /\ Steady(d, setmfact(d, step))
<1>m. PICK m : m = SelMon(d)
  OBVIOUS
<1>f. PICK f : f = m.set.mfact + step
  OBVIOUS
<1>1. CASE Layout(m) = "float" \/ f < 10 \/ f > 90
  BY <1>m, <1>f, <1>1, ChangesSelf, SteadySelf DEF setmfact
<1>2. CASE ~(Layout(m) = "float" \/ f < 10 \/ f > 90)
  <2>p. PICK p : p = [m.per[m.cur] EXCEPT !.mfact = f]
    OBVIOUS
  <2>s. PICK s : s = [m.set EXCEPT !.mfact = f]
    OBVIOUS
  <2>n. PICK n : n = [m EXCEPT !.set.mfact = f, !.per[m.cur].mfact = f]
    OBVIOUS
  <2>e. PICK e : e = [d EXCEPT !.mons[d.selmon] = n]
    OBVIOUS
  <2>1. m \in Mon
    BY <1>m, SelFact
  <2>2. /\ m.cur \in 0..TAGS /\ m.set \in Setting /\ m.per \in [0..TAGS -> Setting]
        /\ m.per[m.cur] \in Setting
    BY <2>1, MonParts
  <2>3. f \in Int
    BY <1>f, <2>2, LayoutFact
  <2>4. p \in Setting /\ s \in Setting
    BY <2>2, <2>3, <2>p, <2>s DEF Setting
  <2>5. SetTo(d, n, s, p)
    <3>1. n = [m EXCEPT !.set = s, !.per[m.cur] = p]
      BY <2>1, <2>2, <2>n, <2>p, <2>s DEF Mon, Setting
    <3> QED
      BY <1>m, <3>1 DEF SetTo
  <2>6. OneMon(d, e, d.selmon, n)
    BY <2>e DEF OneMon
  <2>7. setmfact(d, step) = arrange(e, d.selmon)
    BY <1>m, <1>f, <1>2, <2>n, <2>e DEF setmfact
  <2>8. SelMon(d).set = SelMon(d).per[SelMon(d).cur] => s = p
    BY <1>m, <2>p, <2>s
  <2> QED
    BY <2>4, <2>5, <2>6, <2>7, <2>8, SetChanges
<1> QED
  BY <1>1, <1>2

LEMMA incnmasterFact ==
  ASSUME NEW d, Good(d), NEW j \in Int
  PROVE  Changes(d, incnmaster(d, j)) /\ Steady(d, incnmaster(d, j))
<1>m. PICK m : m = SelMon(d)
  OBVIOUS
<1>k. PICK k : k = IF m.set.nmaster + j < 0 THEN 0 ELSE m.set.nmaster + j
  OBVIOUS
<1>p. PICK p : p = [m.per[m.cur] EXCEPT !.nmaster = k]
  OBVIOUS
<1>s. PICK s : s = [m.set EXCEPT !.nmaster = k]
  OBVIOUS
<1>n. PICK n : n = [m EXCEPT !.set.nmaster = k, !.per[m.cur].nmaster = k]
  OBVIOUS
<1>e. PICK e : e = [d EXCEPT !.mons[d.selmon] = n]
  OBVIOUS
<1>1. m \in Mon
  BY <1>m, SelFact
<1>2. /\ m.cur \in 0..TAGS /\ m.set \in Setting /\ m.per \in [0..TAGS -> Setting]
      /\ m.per[m.cur] \in Setting
  BY <1>1, MonParts
<1>3. k \in Int
  <2>1. m.set.nmaster \in Int
    BY <1>2, LayoutFact
  <2> QED
    BY <1>k, <2>1
<1>4. p \in Setting /\ s \in Setting
  BY <1>2, <1>3, <1>p, <1>s DEF Setting
<1>5. SetTo(d, n, s, p)
  <2>1. n = [m EXCEPT !.set = s, !.per[m.cur] = p]
    BY <1>1, <1>2, <1>n, <1>p, <1>s DEF Mon, Setting
  <2> QED
    BY <1>m, <2>1 DEF SetTo
<1>6. OneMon(d, e, d.selmon, n)
  BY <1>e DEF OneMon
<1>7. incnmaster(d, j) = arrange(e, d.selmon)
  BY <1>m, <1>k, <1>n, <1>e DEF incnmaster
<1>8. SelMon(d).set = SelMon(d).per[SelMon(d).cur] => s = p
  BY <1>m, <1>p, <1>s
<1> QED
  BY <1>4, <1>5, <1>6, <1>7, <1>8, SetChanges

-----------------------------------------------------------------------------
(* Keys and buttons for clients.                                           *)

LEMMA TagsFact ==
  ASSUME NEW d, Good(d), NEW c \in Managed(d), NEW tags \in Views,
         NEW e, e = [d EXCEPT !.cl[c].tags = tags]
  PROVE  Leads(d, e)
<1>r. PICK r : r = [d.cl[c] EXCEPT !.tags = tags]
  OBVIOUS
<1>1. d \in State /\ c \in Window /\ d.cl[c] \in Client /\ d.cl[c].mon \in DOMAIN d.mons
  BY ClientFacts DEF Good, Partial, Typed
<1>2. tags \in SUBSET Tags /\ tags # {}
  BY DEF Views
<1>3. r \in Client /\ r.mon = d.cl[c].mon /\ r.tags = tags
  BY <1>1, <1>2, <1>r DEF Client
<1>4. Suits(d, c, r, {}, {}) /\ OneClient(d, e, c, r)
  BY <1>1, <1>2, <1>3, <1>r DEF Suits, OneClient, State
<1>5. Partial(e, {}, {}) /\ Stays(d, e)
  BY <1>4, ClientFact DEF Good
<1> QED
  BY <1>5 DEF Leads, Good

LEMMA focusLeads ==
  ASSUME NEW d, NEW e, Leads(d, e), NEW c \in Managed(d) \cup {None}
  PROVE  Leads(d, focus(e, c)) /\ Settled(focus(e, c))
<1>1. Good(e) /\ c \in Managed(e) \cup {None}
  BY DEF Leads, Stays, Keeps
<1>2. Leads(e, focus(e, c)) /\ Settled(focus(e, c))
  BY <1>1, focusFact
<1> QED
  BY <1>2, LeadsTrans

LEMMA tagFact ==
  ASSUME NEW d, Good(d), NEW arg
  PROVE  Leads(d, tag(d, arg)) /\ Ends(d, tag(d, arg))
<1>1. CASE Sel(d) = None \/ arg \cap Tags = {}
  BY <1>1, LeadsSelf DEF tag, Ends
<1>2. CASE ~(Sel(d) = None \/ arg \cap Tags = {})
  <2>c. PICK c : c = Sel(d)
    OBVIOUS
  <2>e. PICK e : e = [d EXCEPT !.cl[c].tags = arg \cap Tags]
    OBVIOUS
  <2>1. c \in Managed(d) /\ arg \cap Tags \in Views
    BY <1>2, <2>c, SelFact DEF Views
  <2>2. Leads(d, e)
    BY <2>1, <2>e, TagsFact
  <2>3. Leads(d, focus(e, None)) /\ Settled(focus(e, None))
    BY <2>2, focusLeads
  <2>4. tag(d, arg) = arrange(focus(e, None), d.selmon)
    BY <1>2, <2>c, <2>e DEF tag
  <2>5. Leads(d, tag(d, arg)) /\ Settled(tag(d, arg))
    BY <2>3, <2>4, arrangeLeads
  <2> QED
    BY <2>5 DEF Ends
<1> QED
  BY <1>1, <1>2

LEMMA toggletagFact ==
  ASSUME NEW d, Good(d), NEW arg
  PROVE  Leads(d, toggletag(d, arg)) /\ Ends(d, toggletag(d, arg))
<1>c. PICK c : c = Sel(d)
  OBVIOUS
<1>n. PICK new : new = SymDiff(d.cl[c].tags, arg \cap Tags)
  OBVIOUS
<1>1. CASE c = None \/ new = {}
  BY <1>c, <1>n, <1>1, LeadsSelf DEF toggletag, Ends
<1>2. CASE ~(c = None \/ new = {})
  <2>e. PICK e : e = [d EXCEPT !.cl[c].tags = new]
    OBVIOUS
  <2>1. c \in Managed(d)
    BY <1>2, <1>c, SelFact
  <2>2. d.cl[c].tags \in SUBSET Tags
    BY <2>1, ClientFacts DEF Good, Client
  <2>3. new \in Views
    BY <1>2, <1>n, <2>2 DEF Views, SymDiff
  <2>4. Leads(d, e)
    BY <2>1, <2>3, <2>e, TagsFact
  <2>5. Leads(d, focus(e, None)) /\ Settled(focus(e, None))
    BY <2>4, focusLeads
  <2>6. toggletag(d, arg) = arrange(focus(e, None), d.selmon)
    BY <1>c, <1>n, <1>2, <2>e DEF toggletag
  <2>7. Leads(d, toggletag(d, arg)) /\ Settled(toggletag(d, arg))
    BY <2>5, <2>6, arrangeLeads
  <2> QED
    BY <2>7 DEF Ends
<1> QED
  BY <1>1, <1>2

LEMMA tagmonFact ==
  ASSUME NEW d, Good(d), NEW dir \in {1, -1}
  PROVE  Leads(d, tagmon(d, dir)) /\ Ends(d, tagmon(d, dir))
<1>1. CASE Sel(d) = None \/ Len(d.mons) = 1
  BY <1>1, LeadsSelf DEF tagmon, Ends
<1>2. CASE ~(Sel(d) = None \/ Len(d.mons) = 1)
  <2>1. Sel(d) \in Managed(d) /\ dirtomon(d, dir) \in DOMAIN d.mons
    BY <1>2, SelFact, dirtomonFact
  <2>2. tagmon(d, dir) = sendmon(d, Sel(d), dirtomon(d, dir))
    BY <1>2 DEF tagmon
  <2>3. Leads(d, tagmon(d, dir))
    BY <2>1, <2>2, sendmonFact
  <2>4. CASE d.cl[Sel(d)].mon = dirtomon(d, dir)
    BY <2>2, <2>3, <2>4 DEF sendmon, Ends
  <2>5. CASE d.cl[Sel(d)].mon # dirtomon(d, dir)
    BY <2>1, <2>2, <2>3, <2>5, sendmonFact DEF Ends
  <2> QED
    BY <2>4, <2>5, <2>3
<1> QED
  BY <1>1, <1>2

\* Another screen is selected, and what is visible there has the keyboard.
LEMMA MoveFact ==
  ASSUME NEW d, NEW e, Leads(d, e), NEW n \in DOMAIN d.mons, NEW c \in Managed(d) \cup {None}
  PROVE  /\ Leads(d, focus([e EXCEPT !.selmon = n], c))
         /\ Settled(focus([e EXCEPT !.selmon = n], c))
<1>f. PICK f : f = [e EXCEPT !.selmon = n]
  OBVIOUS
<1>1. Partial(e, {}, {}) /\ n \in DOMAIN e.mons
  BY DEF Leads, Good, Stays
<1>2. Partial(f, {}, {}) /\ Stays(e, f)
  BY <1>1, <1>f, SelmonFact
<1>3. Leads(e, f)
  BY <1>2 DEF Leads, Good
<1>4. Leads(d, f)
  BY <1>3, LeadsTrans
<1> QED
  BY <1>4, <1>f, focusLeads

LEMMA unfocusLeads ==
  ASSUME NEW d, Good(d), NEW c
  PROVE  Leads(d, unfocus(d, c))
<1>1. Partial(unfocus(d, c), {}, {}) /\ Stays(d, unfocus(d, c))
  BY unfocusFact DEF Good
<1> QED
  BY <1>1 DEF Leads, Good

LEMMA focusmonFact ==
  ASSUME NEW d, Good(d), NEW dir \in {1, -1}
  PROVE  Leads(d, focusmon(d, dir)) /\ Ends(d, focusmon(d, dir))
<1>1. CASE Len(d.mons) = 1
  BY <1>1, LeadsSelf DEF focusmon, Ends
<1>2. CASE Len(d.mons) # 1
  <2>1. dirtomon(d, dir) \in DOMAIN d.mons
    BY SelFact, dirtomonFact
  <2>2. Leads(d, unfocus(d, Sel(d)))
    BY unfocusLeads
  <2>3. Leads(d, focusmon(d, dir)) /\ Settled(focusmon(d, dir))
    BY <1>2, <2>1, <2>2, MoveFact DEF focusmon
  <2> QED
    BY <2>3 DEF Ends
<1> QED
  BY <1>1, <1>2

LEMMA clickedFact ==
  ASSUME NEW d, Good(d), NEW i \in DOMAIN d.mons
  PROVE  Leads(d, clicked(d, i)) /\ Ends(d, clicked(d, i))
<1>1. Leads(d, unfocus(d, Sel(d)))
  BY unfocusLeads
<1>2. /\ Leads(d, focus([unfocus(d, Sel(d)) EXCEPT !.selmon = i], None))
      /\ Settled(focus([unfocus(d, Sel(d)) EXCEPT !.selmon = i], None))
  BY <1>1, MoveFact
<1> QED
  BY <1>2, LeadsSelf DEF clicked, Ends

LEMMA enternotifyFact ==
  ASSUME NEW d, Good(d), NEW c \in Managed(d) \cup {None}, NEW i \in DOMAIN d.mons
  PROVE  Leads(d, enternotify(d, c, i)) /\ Ends(d, enternotify(d, c, i))
<1>1. Leads(d, unfocus(d, Sel(d)))
  BY unfocusLeads
<1>2. /\ Leads(d, focus([unfocus(d, Sel(d)) EXCEPT !.selmon = i], c))
      /\ Settled(focus([unfocus(d, Sel(d)) EXCEPT !.selmon = i], c))
  BY <1>1, MoveFact
<1>3. Leads(d, d) /\ Leads(d, focus(d, c)) /\ Settled(focus(d, c))
  BY LeadsSelf, focusFact
<1> QED
  BY <1>2, <1>3 DEF enternotify, Ends

LEMMA restackLeads ==
  ASSUME NEW d, NEW e, Leads(d, e)
  PROVE  Leads(d, restack(e)) /\ (Settled(e) => Settled(restack(e)))
BY arrangeLeads DEF restack, arrange

\* The clients of the selected screen.
LEMMA OwnFact ==
  ASSUME NEW d, Good(d)
  PROVE  /\ SelMon(d).clients \in Seq(Window)
         /\ Holds(SelMon(d).clients, On(d, d.selmon))
         /\ \A c : c \in On(d, d.selmon) =>
              Place(SelMon(d).clients, c) \in 1..Len(SelMon(d).clients)
<1>1. /\ SelMon(d).clients \in Seq(Window)
      /\ Holds(SelMon(d).clients, On(d, d.selmon) \ {})
  BY SelFact, MonFacts DEF Good, SelMon
<1>2. On(d, d.selmon) \ {} = On(d, d.selmon)
  OBVIOUS
<1>3. Holds(SelMon(d).clients, On(d, d.selmon))
  BY <1>1, <1>2
<1> QED
  BY <1>1, <1>3, PlaceFact

LEMMA PartFact ==
  ASSUME NEW s \in Seq(Window), NEW k \in 1..Len(s)
  PROVE  /\ SubSeq(s, k + 1, Len(s)) \in Seq(Window)
         /\ SubSeq(s, 1, k - 1) \in Seq(Window)
         /\ SubSeq(s, k, Len(s)) \in Seq(Window)
OBVIOUS

LEMMA ReverseFact ==
  ASSUME NEW s \in Seq(Window)
  PROVE  /\ Reverse(s) \in Seq(Window)
         /\ Len(Reverse(s)) = Len(s)
         /\ \A i \in 1..Len(s) : Reverse(s)[i] = s[(Len(s) - i) + 1]
BY DEF Reverse

LEMMA VisibleFact ==
  ASSUME NEW d
  PROVE  Visible(d) \subseteq Managed(d) /\ Tiled(d) \subseteq Managed(d)
BY DEF Visible, Tiled

LEMMA focusstackFact ==
  ASSUME NEW d, Good(d), NEW dir \in {1, -1}
  PROVE  Leads(d, focusstack(d, dir)) /\ Ends(d, focusstack(d, dir))
<1>s. PICK clients : clients = SelMon(d).clients
  OBVIOUS
<1>k. PICK at : at = Place(clients, Sel(d))
  OBVIOUS
<1>o. PICK order : order = IF dir > 0 THEN After(clients, Sel(d)) \o clients
               ELSE Reverse(SubSeq(clients, 1, at - 1)) \o Reverse(SubSeq(clients, at, Len(clients)))
  OBVIOUS
<1>c. PICK c : c = FirstIn(order, Visible(d))
  OBVIOUS
<1>1. CASE Sel(d) = None \/ c = None
  BY <1>s, <1>k, <1>o, <1>c, <1>1, LeadsSelf DEF focusstack, Ends
<1>2. CASE ~(Sel(d) = None \/ c = None)
  <2>1. clients \in Seq(Window) /\ at \in 1..Len(clients)
    BY <1>s, <1>k, <1>2, SelFact, OwnFact
  <2>2. order \in Seq(Window)
    <3>1. CASE dir > 0
      <4>1. After(clients, Sel(d)) \in Seq(Window)
        BY <1>k, <2>1, PartFact DEF After
      <4> QED
        BY <1>o, <2>1, <3>1, <4>1
    <3>2. CASE ~(dir > 0)
      <4>1. /\ Reverse(SubSeq(clients, 1, at - 1)) \in Seq(Window)
            /\ Reverse(SubSeq(clients, at, Len(clients))) \in Seq(Window)
        BY <2>1, PartFact, ReverseFact
      <4> QED
        BY <1>o, <3>2, <4>1
    <3> QED
      BY <3>1, <3>2
  <2>3. c \in Managed(d)
    BY <1>c, <1>2, <2>2, FirstInFact, VisibleFact
  <2>4. Leads(d, focus(d, c)) /\ Settled(focus(d, c))
    BY <2>3, focusFact
  <2>5. focusstack(d, dir) = restack(focus(d, c))
    BY <1>s, <1>k, <1>o, <1>c, <1>2 DEF focusstack
  <2>6. Leads(d, focusstack(d, dir)) /\ Settled(focusstack(d, dir))
    BY <2>4, <2>5, restackLeads
  <2> QED
    BY <2>6 DEF Ends
<1> QED
  BY <1>1, <1>2

LEMMA focusnstackFact ==
  ASSUME NEW d, Good(d), NEW n
  PROVE  Leads(d, focusnstack(d, n)) /\ Ends(d, focusnstack(d, n))
<1>s. PICK clients : clients = SelMon(d).clients
  OBVIOUS
<1>1. CASE n \in DOMAIN clients
  <2>1. clients[n] \in Managed(d)
    BY <1>s, <1>1, OwnFact DEF Holds, On
  <2>2. Leads(d, restack(focus(d, clients[n]))) /\ Settled(restack(focus(d, clients[n])))
    BY <2>1, focusFact, restackLeads
  <2> QED
    BY <1>s, <2>2, LeadsSelf DEF focusnstack, Ends
<1>2. CASE n \notin DOMAIN clients
  BY <1>s, <1>2, LeadsSelf DEF focusnstack, Ends
<1> QED
  BY <1>1, <1>2

LEMMA zoomFact ==
  ASSUME NEW d, Good(d)
  PROVE  Leads(d, zoom(d)) /\ Ends(d, zoom(d))
<1>s. PICK clients : clients = SelMon(d).clients
  OBVIOUS
<1>c. PICK c : c = nexttiled(d, clients)
  OBVIOUS
<1>n. PICK next : next = IF c = None THEN None ELSE nexttiled(d, After(clients, c))
  OBVIOUS
<1>1. clients \in Seq(Window) /\ Sel(d) \in Managed(d) \cup {None}
  BY <1>s, OwnFact, SelFact
<1>2. c # None => c \in Managed(d) /\ \E i \in DOMAIN clients : clients[i] = c
  BY <1>1, <1>c, FirstInFact, VisibleFact DEF nexttiled
<1>3. next # None => next \in Managed(d)
  <2>1. SUFFICES ASSUME next # None PROVE next \in Managed(d)
    OBVIOUS
  <2>2. c # None
    BY <1>n, <2>1
  <2>3. c \in On(d, d.selmon)
    BY <1>2, <1>s, <2>2, OwnFact DEF Holds
  <2>4. After(clients, c) \in Seq(Window)
    BY <1>1, <1>s, <2>3, OwnFact, PartFact DEF After
  <2> QED
    BY <1>n, <2>1, <2>2, <2>4, FirstInFact, VisibleFact DEF nexttiled
<1>4. Leads(d, [d EXCEPT !.run = "crashed"]) /\ Ends(d, [d EXCEPT !.run = "crashed"])
  <2>e. PICK e : e = [d EXCEPT !.run = "crashed"]
    OBVIOUS
  <2>1. Partial(e, {}, {}) /\ Stays(d, e)
    BY <2>e, CrashFact DEF Good
  <2>2. e.run = "crashed"
    BY <2>e, SelFact DEF State
  <2> QED
    BY <2>e, <2>1, <2>2 DEF Leads, Good, Ends
<1>5. Sel(d) # None => Leads(d, pop(d, Sel(d))) /\ Ends(d, pop(d, Sel(d)))
  BY <1>1, popFact DEF Ends
<1>6. next # None => Leads(d, pop(d, next)) /\ Ends(d, pop(d, next))
  BY <1>3, popFact DEF Ends
<1>7. Leads(d, d) /\ Ends(d, d)
  BY LeadsSelf DEF Ends
<1> QED
  BY <1>s, <1>c, <1>n, <1>4, <1>5, <1>6, <1>7 DEF zoom

LEMMA activateFact ==
  ASSUME NEW d, Good(d), NEW c \in Managed(d)
  PROVE  Turns(d, activate(d, c)) /\ Settled(activate(d, c))
<1>i. PICK i : i = d.cl[c].mon
  OBVIOUS
<1>s. PICK s : s = 1 - d.mons[i].seltags
  OBVIOUS
<1>m. PICK m : m = [d.mons[i] EXCEPT !.seltags = s, !.tagset[s] = d.cl[c].tags]
  OBVIOUS
<1>e. PICK e : e = IF ISVISIBLE(d, c) THEN d
                   ELSE [d EXCEPT !.mons[i].seltags = s, !.mons[i].tagset[s] = d.cl[c].tags]
  OBVIOUS
<1>1. /\ i \in DOMAIN d.mons /\ d.cl[c] \in Client /\ d.cl[c].tags # {}
  BY <1>i, ClientFacts DEF Good
<1>2. d \in State /\ d.mons[i] \in Mon /\ d.mons[i].sel \in (On(d, i) \ {}) \cup {None}
  BY <1>1, MonFacts DEF Good
<1>3. d.mons[i].seltags \in 0..1 /\ d.mons[i].tagset \in [0..1 -> Views]
  BY <1>2, MonParts
<1>4. s \in 0..1 /\ d.cl[c].tags \in Views
  BY <1>1, <1>3, <1>s DEF Client, Views
<1>5. /\ m \in Mon /\ m.clients = d.mons[i].clients /\ m.stack = d.mons[i].stack
      /\ m.sel = d.mons[i].sel
      /\ m.set = d.mons[i].set /\ m.per = d.mons[i].per /\ m.cur = d.mons[i].cur
  BY <1>2, <1>3, <1>4, <1>m DEF Mon
<1>6. Turns(d, e)
  <2>1. CASE ISVISIBLE(d, c)
    BY <1>e, <2>1, TurnsSelf
  <2>2. CASE ~ISVISIBLE(d, c)
    <3>1. OneMon(d, e, i, m)
      <4>1. e = [d EXCEPT !.mons[i].seltags = s, !.mons[i].tagset[s] = d.cl[c].tags]
        BY <1>e, <2>2
      <4>2. [d EXCEPT !.mons[i] = m] = e
        BY <1>1, <1>2, <1>m, <4>1 DEF State, Mon
      <4> QED
        BY <4>2 DEF OneMon
    <3>2. Partial(d, {}, {})
      BY DEF Good
    <3>3. /\ Partial(e, {}, {})
          /\ (d.mons[i].set = d.mons[i].per[d.mons[i].cur] => m.set = m.per[m.cur]) => Keeps(d, e)
          /\ DOMAIN e.mons = DOMAIN d.mons /\ e.mons[i] = m
          /\ \A j \in DOMAIN d.mons : j # i => e.mons[j] = d.mons[j]
      BY <1>1, <1>2, <1>5, <3>1, <3>2, ViewFact
    <3>4. Keeps(d, e)
      BY <1>5, <3>3
    <3>5. Same(d, e)
      BY <1>5, <3>3 DEF Same
    <3> QED
      BY <3>3, <3>4, <3>5 DEF Turns, Good
  <2> QED
    BY <2>1, <2>2
<1>7. activate(d, c) = pop(e, c)
  BY <1>i, <1>s, <1>e DEF activate
<1>8. Turns(e, pop(e, c)) /\ Settled(pop(e, c))
  BY <1>6, popFact, LeadsTurns DEF Turns, Keeps
<1> QED
  BY <1>6, <1>7, <1>8, TurnsTrans

-----------------------------------------------------------------------------
(* The end.                                                                *)

\* From d to e clients may have gone.
Frees(d, e) ==
  /\ Good(e)
  /\ DOMAIN e.mons = DOMAIN d.mons /\ Same(d, e)
  /\ Managed(e) \subseteq Managed(d)
  /\ e.viewable = d.viewable
  /\ e.run \in {d.run, "crashed"}

LEMMA LetGoFact ==
  ASSUME NEW d, Good(d)
  PROVE  Frees(d, LetGo(d))
<1>1. CASE Held(d) = {}
  BY <1>1, SameEqual DEF LetGo, Frees
<1>2. CASE Held(d) # {}
  <2>i. PICK i : i = Lowest(Held(d))
    OBVIOUS
  <2>c. PICK c : c = d.mons[i].stack[1]
    OBVIOUS
  <2>1. d \in State
    BY SelFact
  <2>2. Held(d) \in SUBSET Nat
    BY <2>1 DEF Held, State
  <2>3. i \in DOMAIN d.mons /\ d.mons[i].stack # << >>
    BY <1>2, <2>2, <2>i, LowestFact DEF Held
  <2>4. d.mons[i].stack \in Seq(Window) /\ Holds(d.mons[i].stack, On(d, i) \ {})
    BY <2>3, MonFacts DEF Good
  <2>5. 1 \in DOMAIN d.mons[i].stack
    BY <2>3, <2>4
  <2>6. c \in Managed(d)
    BY <2>4, <2>5, <2>c DEF Holds, On
  <2>7. Leaves(d, unmanage(d, c), c)
    BY <2>6, unmanageFact
  <2> QED
    BY <1>2, <2>7, <2>i, <2>c DEF LetGo, Leaves, Frees
<1> QED
  BY <1>1, <1>2

LEMMA ReleasedFact ==
  ASSUME NEW d, Good(d), NEW k \in Nat, k <= Cardinality(Window)
  PROVE  Frees(d, Released(d)[k])
<1>n. PICK n : n = Cardinality(Window)
  OBVIOUS
<1>0. n \in Nat
  BY <1>n, DwmAssumption, FS_CardinalityType
<1> DEFINE P(f) == f = [j \in 0..Cardinality(Window) |-> IF j = 0 THEN d ELSE LetGo(f[j - 1])]
<1>1. Released(d) = CHOOSE f : P(f)
  BY DEF Released, LetGo, Held
<1>2. PICK f : Unfolds("cleanup", 0, 0, d, n, f)
  BY <1>0, Unfolding
<1>3. P(f)
  BY <1>n, <1>2 DEF Unfolds, Again
<1>4. P(Released(d))
  BY <1>1, <1>3
<1>5. PICK g : g = Released(d)
  OBVIOUS
<1>6. g = [j \in 0..n |-> IF j = 0 THEN d ELSE LetGo(g[j - 1])]
  BY <1>n, <1>4, <1>5
<1>7. \A j \in 0..n : g[j] = IF j = 0 THEN d ELSE LetGo(g[j - 1])
  BY <1>6
<1> DEFINE T == {j \in Nat : j <= n => Frees(d, g[j])}
<1>8. 0 \in T
  <2>1. g[0] = d
    BY <1>0, <1>7
  <2> QED
    BY <2>1, SameEqual DEF Frees
<1>9. ASSUME NEW j \in Nat, j \in T PROVE j + 1 \in T
  <2> SUFFICES ASSUME j + 1 <= n PROVE Frees(d, g[j + 1])
    OBVIOUS
  <2>1. j <= n /\ j + 1 \in 0..n /\ j + 1 # 0 /\ (j + 1) - 1 = j
    BY <1>0
  <2>2. Frees(d, g[j]) /\ g[j + 1] = LetGo(g[j])
    BY <1>7, <1>9, <2>1
  <2>3. Frees(g[j], g[j + 1])
    BY <2>2, LetGoFact DEF Frees
  <2>4. Same(d, g[j + 1])
    BY <2>2, <2>3, SameTrans DEF Frees
  <2> QED
    BY <2>2, <2>3, <2>4 DEF Frees
<1>10. k \in T
  <2> HIDE DEF T
  <2> QED
    BY <1>8, <1>9, Upward
<1> QED
  BY <1>n, <1>5, <1>10

LEMMA cleanupFact ==
  ASSUME NEW d, Good(d)
  PROVE  /\ Good(cleanup(d))
         /\ Managed(cleanup(d)) \subseteq Managed(d)
         /\ cleanup(d).viewable = d.viewable
         /\ cleanup(d).run \in {"quit", "crashed"}
         /\ Same(d, cleanup(d))
<1>a. PICK d1 : d1 = view(d, Everything)
  OBVIOUS
<1>m. PICK m : m = SelMon(d1)
  OBVIOUS
<1>s. PICK s : s = [m.set EXCEPT !.lt[m.set.sellt] = "float"]
  OBVIOUS
<1>n. PICK n : n = [m EXCEPT !.set = s]
  OBVIOUS
<1>b. PICK d2 : d2 = [d1 EXCEPT !.mons[d1.selmon].set.lt[SelMon(d1).set.sellt] = "float"]
  OBVIOUS
<1>c. PICK d3 : d3 = Released(d2)[Cardinality(Window)]
  OBVIOUS
<1>r. PICK r : r = IF d3.run = "crashed" THEN "crashed" ELSE "quit"
  OBVIOUS
<1>1. Turns(d, d1)
  BY <1>a, viewFact
<1>2. m \in Mon /\ d1.selmon \in DOMAIN d1.mons /\ d1 \in State /\ m = d1.mons[d1.selmon]
  BY <1>1, <1>m, SelFact DEF SelMon, Turns
<1>3. m.set \in Setting
  BY <1>2, MonParts
<1>4. s \in Setting
  <2>1. m.set.lt \in [0..1 -> Layouts] /\ m.set.sellt \in 0..1
    BY <1>3, LayoutFact
  <2>2. [m.set.lt EXCEPT ![m.set.sellt] = "float"] \in [0..1 -> Layouts]
    BY <2>1 DEF Layouts
  <2>3. s = [m.set EXCEPT !.lt = [m.set.lt EXCEPT ![m.set.sellt] = "float"]]
    BY <1>3, <1>s DEF Setting
  <2> QED
    BY <1>3, <2>2, <2>3 DEF Setting
<1>5. /\ n \in Mon /\ n.clients = m.clients /\ n.stack = m.stack /\ n.sel = m.sel
      /\ n.per = m.per
  BY <1>2, <1>4, <1>n DEF Mon
<1>6. OneMon(d1, d2, d1.selmon, n)
  <2>1. d2 = [d1 EXCEPT !.mons[d1.selmon].set = s]
    BY <1>2, <1>b, <1>m, <1>s DEF State, Mon
  <2>2. d2 = [d1 EXCEPT !.mons[d1.selmon] = n]
    BY <1>2, <1>n, <2>1 DEF State
  <2> QED
    BY <2>2 DEF OneMon
<1>7. Shows(d1, d2) /\ Same(d1, d2)
  BY <1>1, <1>5, <1>6, <1>m, ScreenFact DEF Turns
<1>8. Frees(d2, d3)
  <2>1. Cardinality(Window) \in Nat /\ Cardinality(Window) <= Cardinality(Window)
    BY DwmAssumption, FS_CardinalityType
  <2> QED
    BY <1>7, <1>c, <2>1, ReleasedFact DEF Shows
<1>9. Good(d3) /\ Managed(d3) \subseteq Managed(d) /\ d3.viewable = d.viewable
  BY <1>1, <1>7, <1>8 DEF Turns, Keeps, Shows, Frees
<1>10. cleanup(d) = [d3 EXCEPT !.run = r, !.input = PointerRoot]
  BY <1>a, <1>b, <1>c, <1>r DEF cleanup
<1>11. /\ Partial(d3, {}, {}) /\ d3 \in State /\ d3.selmon \in DOMAIN d3.mons
       /\ r \in {"quit", "crashed"}
  BY <1>9, <1>r, SelFact DEF Good
<1>12. Plain(d3, cleanup(d), d3.selmon, PointerRoot, r)
  BY <1>10, <1>11 DEF State, Plain
<1>13. /\ Partial(cleanup(d), {}, {})
       /\ cleanup(d).viewable = d3.viewable /\ cleanup(d).run = r
       /\ Managed(cleanup(d)) = Managed(d3) /\ cleanup(d).mons = d3.mons
  <2>1. r \in {"starting", "running", "quit", "crashed"}
        /\ PointerRoot \in d3.viewable \cup {Root, PointerRoot}
    BY <1>11
  <2> QED
    BY <1>11, <1>12, <2>1, PlainFact
<1>14. Same(d, cleanup(d))
  <2>1. Same(d, d1) /\ Same(d1, d2) /\ Same(d2, d3) /\ Same(d3, cleanup(d))
    BY <1>1, <1>7, <1>8, <1>13, SameEqual DEF Turns, Frees
  <2>2. DOMAIN d1.mons = DOMAIN d.mons /\ DOMAIN d2.mons = DOMAIN d.mons
        /\ DOMAIN d3.mons = DOMAIN d.mons
    BY <1>1, <1>7, <1>8 DEF Turns, Shows, Frees
  <2>3. Same(d, d2)
    BY <2>1, <2>2, SameTrans
  <2>4. Same(d, d3)
    BY <2>1, <2>2, <2>3, SameTrans
  <2> QED
    BY <2>1, <2>2, <2>4, SameTrans
<1> QED
  BY <1>9, <1>11, <1>13, <1>14 DEF Good

-----------------------------------------------------------------------------
(* Screens.                                                                *)

LEMMA HoldsJoined ==
  ASSUME NEW u \in Seq(Window), NEW v \in Seq(Window), NEW X, NEW Y,
         Holds(u, X), Holds(v, Y), X \cap Y = {}
  PROVE  /\ Reverse(u) \o v \in Seq(Window)
         /\ Holds(Reverse(u) \o v, X \cup Y)
<1>m. PICK m \in Nat : m = Len(u) /\ DOMAIN u = 1..m
  OBVIOUS
<1>n. PICK n \in Nat : n = Len(v) /\ DOMAIN v = 1..n
  OBVIOUS
<1>r. PICK r : r = Reverse(u)
  OBVIOUS
<1>t. PICK t : t = r \o v
  OBVIOUS
<1>1. r \in Seq(Window) /\ Len(r) = m /\ \A i \in 1..m : r[i] = u[(m - i) + 1]
  BY <1>m, <1>r, ReverseFact
<1>2. /\ t \in Seq(Window) /\ Len(t) = m + n
      /\ \A i \in 1..(m + n) : t[i] = IF i <= m THEN r[i] ELSE v[i - m]
  BY <1>1, <1>n, <1>t, ConcatFact
<1>3. DOMAIN t = 1..(m + n)
  BY <1>2
<1>4. \A i \in 1..m : i \in 1..(m + n) /\ i <= m /\ (m - i) + 1 \in 1..m
  OBVIOUS
<1>5. \A i \in 1..(m + n) : i \in 1..m \/ (~(i <= m) /\ i - m \in 1..n)
  OBVIOUS
<1>6. \A i \in 1..m : t[i] = u[(m - i) + 1]
  BY <1>1, <1>2, <1>4
<1>7. \A i \in 1..n : i + m \in 1..(m + n) /\ ~(i + m <= m) /\ (i + m) - m = i
  OBVIOUS
<1>8. \A i \in 1..n : t[i + m] = v[i]
  BY <1>2, <1>7
<1>9. \A i \in 1..(m + n) : ~(i <= m) => t[i] = v[i - m]
  BY <1>2
<1>10. \A i \in 1..m : t[i] \in X
  BY <1>4, <1>6, <1>m DEF Holds
<1>11. \A i \in 1..(m + n) : ~(i <= m) => t[i] \in Y
  BY <1>5, <1>9, <1>n DEF Holds
<1>12. ASSUME NEW i \in 1..(m + n), NEW j \in 1..(m + n), t[i] = t[j]
       PROVE  i = j
  <2>1. CASE i \in 1..m /\ j \in 1..m
    <3>1. u[(m - i) + 1] = u[(m - j) + 1]
      BY <1>6, <1>12, <2>1
    <3>2. (m - i) + 1 = (m - j) + 1
      BY <1>4, <1>m, <2>1, <3>1 DEF Holds
    <3> QED
      BY <2>1, <3>2
  <2>2. CASE i \notin 1..m /\ j \notin 1..m
    <3>1. v[i - m] = v[j - m] /\ i - m \in 1..n /\ j - m \in 1..n
      BY <1>5, <1>9, <1>12, <2>2
    <3>2. i - m = j - m
      BY <1>n, <3>1 DEF Holds
    <3> QED
      BY <3>2
  <2>3. CASE i \in 1..m /\ j \notin 1..m
    BY <1>5, <1>10, <1>11, <1>12, <2>3
  <2>4. CASE i \notin 1..m /\ j \in 1..m
    BY <1>5, <1>10, <1>11, <1>12, <2>4
  <2> QED
    BY <2>1, <2>2, <2>3, <2>4
<1>13. ASSUME NEW w PROVE w \in X \cup Y <=> \E i \in 1..(m + n) : t[i] = w
  <2>1. ASSUME w \in X PROVE \E i \in 1..(m + n) : t[i] = w
    <3>1. PICK k \in 1..m : u[k] = w
      BY <1>m, <2>1 DEF Holds
    <3>2. (m - k) + 1 \in 1..m /\ (m - ((m - k) + 1)) + 1 = k
      OBVIOUS
    <3>3. t[(m - k) + 1] = w
      BY <1>6, <3>1, <3>2
    <3> QED
      BY <1>4, <3>2, <3>3
  <2>2. ASSUME w \in Y PROVE \E i \in 1..(m + n) : t[i] = w
    <3>1. PICK k \in 1..n : v[k] = w
      BY <1>n, <2>2 DEF Holds
    <3> QED
      BY <1>7, <1>8, <3>1
  <2>3. ASSUME NEW i \in 1..(m + n), t[i] = w PROVE w \in X \cup Y
    BY <1>5, <1>10, <1>11, <2>3
  <2> QED
    BY <2>1, <2>2, <2>3
<1>14. Holds(t, X \cup Y)
  BY <1>3, <1>12, <1>13 DEF Holds
<1> QED
  BY <1>2, <1>14, <1>r, <1>t

\* A handler may change the number of screens.
Refits(d, e) == Good(e) /\ Keeps(d, e) /\ Same(d, e)

LEMMA RefitsTrans ==
  ASSUME NEW d, NEW e, NEW f, Refits(d, e), Refits(e, f),
         DOMAIN d.mons \cap DOMAIN f.mons \subseteq DOMAIN e.mons
  PROVE  Refits(d, f)
<1>1. Same(d, f)
  BY SameTrans DEF Refits
<1> QED
  BY <1>1 DEF Refits, Keeps

\* The first of the screens that stay, with the clients of the last one.
FrontIs(d, m, M) == M = [Front(d.mons) EXCEPT ![1] = m]

LEMMA FrontFact ==
  ASSUME NEW d \in State, NEW n \in Nat, n = Len(d.mons), n >= 2,
         NEW m \in Mon, NEW M, FrontIs(d, m, M)
  PROVE  /\ M \in Seq(Mon) /\ Len(M) = n - 1 /\ DOMAIN M = 1..(n - 1)
         /\ M[1] = m /\ \A j \in 2..(n - 1) : M[j] = d.mons[j]
<1>f. PICK f : f = SubSeq(d.mons, 1, n - 1)
  OBVIOUS
<1>1. d.mons \in Seq(Mon)
  BY DEF State
<1>2. f \in Seq(Mon) /\ Len(f) = n - 1 /\ \A j \in 1..(n - 1) : f[j] = d.mons[j]
  BY <1>1, <1>f
<1>3. DOMAIN f = 1..(n - 1) /\ 1 \in 1..(n - 1)
  BY <1>2
<1>4. M = [f EXCEPT ![1] = m]
  BY <1>f DEF Front, FrontIs
<1>5. M \in Seq(Mon)
  BY <1>2, <1>3, <1>4
<1>6. DOMAIN M = 1..(n - 1) /\ M[1] = m /\ \A j \in 1..(n - 1) : j # 1 => M[j] = f[j]
  BY <1>3, <1>4
<1>7. Len(M) = n - 1
  BY <1>5, <1>6
<1>8. \A j \in 2..(n - 1) : M[j] = d.mons[j]
  BY <1>2, <1>6
<1> QED
  BY <1>5, <1>6, <1>7, <1>8

LEMMA RemoveLastFact ==
  ASSUME NEW d, Good(d), NEW n \in Nat, n = Len(d.mons), n >= 2
  PROVE  /\ Refits(d, RemoveLast(d))
         /\ Len(RemoveLast(d).mons) = n - 1
         /\ \A j \in 2..(n - 1) : RemoveLast(d).mons[j] = d.mons[j]
         /\ d.mons[n].clients = << >> => RemoveLast(d).cl = d.cl
<1>e. PICK e : e = RemoveLast(d)
  OBVIOUS
<1>o. PICK o : o = d.mons[n].clients
  OBVIOUS
<1>m. PICK m : m = [d.mons[1] EXCEPT !.clients = Reverse(o) \o @, !.stack = Reverse(o) \o @]
  OBVIOUS
<1>M. PICK M : FrontIs(d, m, M)
  BY DEF FrontIs
<1>C. PICK C : C = [c \in Window |-> IF c \in Range(o) THEN [d.cl[c] EXCEPT !.mon = 1] ELSE d.cl[c]]
  OBVIOUS
<1>s. PICK s : s = IF d.selmon = n THEN 1 ELSE d.selmon
  OBVIOUS
<1>1. /\ d \in State /\ d.selmon \in 1..n /\ DOMAIN d.mons = 1..n
      /\ 1 \in DOMAIN d.mons /\ n \in DOMAIN d.mons
      /\ d.input \in d.viewable \cup {Root, PointerRoot}
  <2>1. d \in State /\ d.selmon \in DOMAIN d.mons /\ d.input \in d.viewable \cup {Root, PointerRoot}
    BY DEF Good, Partial, Typed
  <2> QED
    BY <2>1 DEF State
<1>2. e = [d EXCEPT !.mons = M, !.cl = C, !.selmon = s]
  BY <1>e, <1>o, <1>m, <1>M, <1>C, <1>s, <1>1 DEF RemoveLast, FrontIs, State
<1>3. /\ o \in Seq(Window) /\ Holds(o, On(d, n) \ {})
      /\ d.mons[1] \in Mon
      /\ d.mons[1].clients \in Seq(Window) /\ Holds(d.mons[1].clients, On(d, 1) \ {})
      /\ d.mons[1].stack \in Seq(Window) /\ Holds(d.mons[1].stack, On(d, 1) \ {})
      /\ d.mons[1].sel \in (On(d, 1) \ {}) \cup {None}
  BY <1>1, <1>o, MonFacts DEF Good
<1>4. /\ On(d, n) \ {} = On(d, n) /\ On(d, 1) \ {} = On(d, 1)
      /\ On(d, n) \cap On(d, 1) = {}
  BY DEF On
<1>5. /\ Reverse(o) \o d.mons[1].clients \in Seq(Window)
      /\ Holds(Reverse(o) \o d.mons[1].clients, On(d, n) \cup On(d, 1))
  BY <1>3, <1>4, HoldsJoined
<1>6. /\ Reverse(o) \o d.mons[1].stack \in Seq(Window)
      /\ Holds(Reverse(o) \o d.mons[1].stack, On(d, n) \cup On(d, 1))
  BY <1>3, <1>4, HoldsJoined
<1>7. /\ m \in Mon /\ m.clients = Reverse(o) \o d.mons[1].clients
      /\ m.stack = Reverse(o) \o d.mons[1].stack /\ m.sel = d.mons[1].sel
      /\ m.set = d.mons[1].set /\ m.per = d.mons[1].per /\ m.cur = d.mons[1].cur
  BY <1>3, <1>5, <1>6, <1>m DEF Mon
<1>8. /\ M \in Seq(Mon) /\ Len(M) = n - 1 /\ DOMAIN M = 1..(n - 1)
      /\ M[1] = m /\ \A j \in 2..(n - 1) : M[j] = d.mons[j]
  BY <1>1, <1>7, <1>M, FrontFact
<1>9. \A w : w \in Range(o) <=> w \in On(d, n)
  BY <1>3 DEF Holds, Range
<1>10. /\ C \in [Window -> Client \cup {None}]
       /\ \A w \in Window : /\ C[w] # None <=> d.cl[w] # None
                            /\ w \in On(d, n) => C[w].mon = 1 /\ C[w].tags = d.cl[w].tags
                            /\ w \notin On(d, n) => C[w] = d.cl[w]
  <2>1. ASSUME NEW w \in Window, w \in On(d, n)
        PROVE  /\ C[w] \in Client /\ d.cl[w] # None
               /\ C[w].mon = 1 /\ C[w].tags = d.cl[w].tags
    <3>1. d.cl[w] \in Client
      BY <2>1, ClientFacts DEF Good, On
    <3>2. C[w] = [d.cl[w] EXCEPT !.mon = 1]
      BY <1>9, <1>C, <2>1
    <3>3. d.cl[w] # None
      BY <2>1 DEF On, Managed
    <3> QED
      BY <3>1, <3>2, <3>3 DEF Client
  <2>2. ASSUME NEW w \in Window, w \notin On(d, n)
        PROVE  C[w] = d.cl[w] /\ C[w] \in Client \cup {None}
    BY <1>1, <1>9, <1>C, <2>2 DEF State
  <2>3. None \notin Client
    BY DwmAssumption
  <2>4. C = [w \in Window |-> C[w]]
    BY <1>C
  <2>5. \A w \in Window : C[w] \in Client \cup {None}
    BY <2>1, <2>2
  <2>6. C \in [Window -> Client \cup {None}]
    BY <2>4, <2>5
  <2> QED
    BY <2>1, <2>2, <2>3, <2>6
<1>11. s \in 1..(n - 1) /\ s \in Nat
  BY <1>1, <1>s
<1>12. /\ e \in State /\ e.mons = M /\ e.cl = C /\ e.selmon = s
       /\ e.viewable = d.viewable /\ e.input = d.input /\ e.run = d.run
  BY <1>1, <1>2, <1>8, <1>10, <1>11 DEF State
<1>13. Managed(e) = Managed(d)
  BY <1>10, <1>12 DEF Managed
<1>14. Typed(e)
  <2>1. ASSUME NEW w \in Managed(e) PROVE e.cl[w].mon \in 1..(n - 1) /\ e.cl[w].tags # {}
    <3>1. w \in Window /\ d.cl[w].mon \in 1..n /\ d.cl[w].tags # {} /\ w \in Managed(d)
      BY <1>1, <1>13, ClientFacts DEF Good
    <3>2. CASE w \in On(d, n)
      BY <1>10, <1>12, <3>1, <3>2
    <3>3. CASE w \notin On(d, n)
      <4>1. d.cl[w].mon # n
        BY <3>1, <3>3 DEF On
      <4> QED
        BY <1>10, <1>12, <3>1, <3>3, <4>1
    <3> QED
      BY <3>2, <3>3
  <2> QED
    BY <1>1, <1>8, <1>11, <1>12, <2>1 DEF Typed
<1>15. On(e, 1) = On(d, n) \cup On(d, 1) /\ \A j \in 2..(n - 1) : On(e, j) = On(d, j)
  <2>1. ASSUME NEW w \in Managed(d)
        PROVE  e.cl[w].mon = IF d.cl[w].mon = n THEN 1 ELSE d.cl[w].mon
    <3>1. w \in Window
      BY DEF Managed
    <3> QED
      BY <1>10, <1>12, <2>1, <3>1 DEF On
  <2>2. On(e, 1) = On(d, n) \cup On(d, 1)
    BY <1>13, <2>1 DEF On
  <2>3. ASSUME NEW j \in 2..(n - 1) PROVE On(e, j) = On(d, j)
    BY <1>13, <2>1 DEF On
  <2> QED
    BY <2>2, <2>3
<1>16. Linked(e, {}, {})
  <2>1. SUFFICES ASSUME NEW j \in 1..(n - 1)
                 PROVE  /\ Holds(e.mons[j].clients, On(e, j) \ {})
                        /\ Holds(e.mons[j].stack, On(e, j) \ {})
                        /\ e.mons[j].sel \in (On(e, j) \ {}) \cup {None}
    BY <1>8, <1>12 DEF Linked
  <2>2. On(e, j) \ {} = On(e, j)
    OBVIOUS
  <2>3. CASE j = 1
    BY <1>3, <1>5, <1>6, <1>7, <1>8, <1>12, <1>15, <2>2, <2>3
  <2>4. CASE j # 1
    <3>1. j \in 2..(n - 1) /\ j \in DOMAIN d.mons
      BY <1>1, <2>4
    <3>2. /\ Holds(d.mons[j].clients, On(d, j) \ {})
          /\ Holds(d.mons[j].stack, On(d, j) \ {})
          /\ d.mons[j].sel \in (On(d, j) \ {}) \cup {None}
      BY <3>1, MonFacts DEF Good
    <3>3. e.mons[j] = d.mons[j] /\ On(e, j) = On(d, j)
      BY <1>8, <1>12, <1>15, <3>1
    <3> QED
      BY <3>2, <3>3
  <2> QED
    BY <2>3, <2>4
<1>17. Tuned(d) => Tuned(e)
  <2>1. SUFFICES ASSUME Tuned(d), NEW j \in 1..(n - 1)
                 PROVE  e.mons[j].set = e.mons[j].per[e.mons[j].cur]
    BY <1>8, <1>12 DEF Tuned
  <2>2. CASE j = 1
    BY <1>1, <1>7, <1>8, <1>12, <2>1, <2>2 DEF Tuned
  <2>3. CASE j # 1
    <3>1. j \in 2..(n - 1) /\ j \in DOMAIN d.mons
      BY <1>1, <2>3
    <3> QED
      BY <1>8, <1>12, <2>1, <3>1 DEF Tuned
  <2> QED
    BY <2>2, <2>3
<1>18. Good(e)
  BY <1>14, <1>16 DEF Good, Partial
<1>19. Same(d, e)
  <2>1. SUFFICES ASSUME NEW j \in 1..(n - 1) PROVE e.mons[j].per = d.mons[j].per
    BY <1>8, <1>12 DEF Same
  <2>2. CASE j = 1
    BY <1>7, <1>8, <1>12, <2>2
  <2>3. CASE j # 1
    <3>1. j \in 2..(n - 1)
      BY <2>3
    <3> QED
      BY <1>8, <1>12, <3>1
  <2> QED
    BY <2>2, <2>3
<1>20. ASSUME o = << >> PROVE C = d.cl
  <2>1. \A w \in Window : w \notin On(d, n)
    BY <1>9, <1>20 DEF Range
  <2>2. d.cl \in [Window -> Client \cup {None}]
    BY <1>1 DEF State
  <2> QED
    BY <1>10, <2>1, <2>2
<1>21. (\A j \in 2..(n - 1) : e.mons[j] = d.mons[j]) /\ (o = << >> => e.cl = d.cl)
  BY <1>8, <1>12, <1>20
<1> QED
  BY <1>8, <1>12, <1>13, <1>17, <1>18, <1>19, <1>21, <1>e, <1>o DEF Refits, Keeps

\* The screens after the n-th have no clients.
Unused(d, n) == \A i \in (n + 1)..Len(d.mons) : d.mons[i].clients = << >>

LEMMA ShrunkFact ==
  ASSUME NEW d, Good(d), NEW n \in Nat, n < Len(d.mons)
  PROVE  /\ Refits(d, Shrunk(d, n)[n])
         /\ Len(Shrunk(d, n)[n].mons) = Len(d.mons) - n
         /\ Unused(d, Len(d.mons) - n) => Shrunk(d, n)[n].cl = d.cl
<1>l. PICK l : l = Len(d.mons)
  OBVIOUS
<1>0. l \in Nat /\ n < l
  <2>1. d.mons \in Seq(Mon)
    BY SelFact DEF State
  <2> QED
    BY <1>l, <2>1
<1> DEFINE P(f) == f = [j \in 0..n |-> IF j = 0 THEN d ELSE RemoveLast(f[j - 1])]
<1>1. Shrunk(d, n) = CHOOSE f : P(f)
  BY DEF Shrunk
<1>2. PICK f : Unfolds("plug", 0, 0, d, n, f)
  BY Unfolding
<1>3. P(f)
  BY <1>2 DEF Unfolds, Again
<1>4. P(Shrunk(d, n))
  BY <1>1, <1>3
<1>5. PICK g : g = Shrunk(d, n)
  OBVIOUS
<1>6. g = [j \in 0..n |-> IF j = 0 THEN d ELSE RemoveLast(g[j - 1])]
  BY <1>4, <1>5
<1>7. \A j \in 0..n : g[j] = IF j = 0 THEN d ELSE RemoveLast(g[j - 1])
  BY <1>6
<1>u. PICK unused : unused = Unused(d, l - n)
  OBVIOUS
<1> DEFINE Rest(j) == /\ \A i \in 2..(l - j) : g[j].mons[i] = d.mons[i]
                      /\ unused => g[j].cl = d.cl
           T == {j \in Nat : j <= n => Refits(d, g[j]) /\ Len(g[j].mons) = l - j /\ Rest(j)}
<1>8. 0 \in T
  <2>1. g[0] = d
    BY <1>7
  <2>2. Refits(d, d)
    BY SameEqual DEF Refits, Keeps
  <2> QED
    BY <1>0, <1>l, <2>1, <2>2
<1>9. ASSUME NEW j \in Nat, j \in T PROVE j + 1 \in T
  <2> SUFFICES ASSUME j + 1 <= n
               PROVE  Refits(d, g[j + 1]) /\ Len(g[j + 1].mons) = l - (j + 1) /\ Rest(j + 1)
    OBVIOUS
  <2>1. j <= n /\ j + 1 \in 0..n /\ j + 1 # 0 /\ (j + 1) - 1 = j
    OBVIOUS
  <2>2. Refits(d, g[j]) /\ Len(g[j].mons) = l - j /\ Rest(j)
    BY <1>9, <2>1
  <2>3. g[j + 1] = RemoveLast(g[j])
    BY <1>7, <2>1
  <2>4. l - j \in Nat /\ l - j >= 2 /\ (l - j) - 1 = l - (j + 1)
    BY <1>0
  <2>h. PICK h : h = g[j]
    OBVIOUS
  <2>k. PICK k \in Nat : k = l - j
    BY <2>4
  <2>5. Good(h) /\ k = Len(h.mons) /\ k >= 2
    BY <2>2, <2>4, <2>h, <2>k DEF Refits
  <2>6. /\ Refits(h, RemoveLast(h)) /\ Len(RemoveLast(h).mons) = k - 1
        /\ \A i \in 2..(k - 1) : RemoveLast(h).mons[i] = h.mons[i]
        /\ h.mons[k].clients = << >> => RemoveLast(h).cl = h.cl
    BY <2>5, RemoveLastFact
  <2>f. PICK e : e = RemoveLast(h)
    OBVIOUS
  <2>i. DOMAIN e.mons = 1..(k - 1) /\ DOMAIN h.mons = 1..k
    <3>1. Good(e) /\ Good(h) /\ Len(e.mons) = k - 1 /\ Len(h.mons) = k
      BY <2>5, <2>6, <2>f DEF Refits
    <3>2. e.mons \in Seq(Mon) /\ h.mons \in Seq(Mon)
      BY <3>1, SelFact DEF State
    <3> QED
      BY <3>1, <3>2
  <2>7. Refits(d, RemoveLast(h))
    <3>1. DOMAIN d.mons \cap DOMAIN e.mons \subseteq DOMAIN h.mons
      BY <2>i
    <3>2. Refits(d, h) /\ Refits(h, e)
      BY <2>2, <2>6, <2>h, <2>f
    <3> QED
      BY <2>f, <3>1, <3>2, RefitsTrans
  <2>8. ASSUME unused PROVE RemoveLast(h).cl = d.cl
    <3>1. k \in 2..(l - j) /\ k \in ((l - n) + 1)..l
      BY <1>0, <2>4, <2>k
    <3>2. h.mons[k] = d.mons[k] /\ h.cl = d.cl
      BY <2>2, <2>8, <2>h, <3>1
    <3>3. d.mons[k].clients = << >>
      BY <1>u, <1>l, <2>8, <3>1 DEF Unused
    <3> QED
      BY <2>6, <3>2, <3>3
  <2>9. ASSUME NEW i \in 2..(l - (j + 1)) PROVE RemoveLast(h).mons[i] = d.mons[i]
    <3>1. i \in 2..(l - j) /\ i \in 2..(k - 1)
      BY <1>0, <2>4, <2>k
    <3> QED
      BY <2>2, <2>6, <2>h, <3>1
  <2>10. Rest(j + 1)
    BY <2>3, <2>8, <2>9, <2>h
  <2> HIDE DEF Rest
  <2> QED
    BY <2>3, <2>4, <2>6, <2>7, <2>10, <2>h, <2>k
<1>10. n \in T
  <2> HIDE DEF T
  <2> QED
    BY <1>8, <1>9, Upward
<1> QED
  BY <1>5, <1>10, <1>l, <1>u

LEMMA createmonFact ==
  /\ createmon \in Mon /\ createmon.clients = << >> /\ createmon.stack = << >>
  /\ createmon.sel = None /\ createmon.set = createmon.per[createmon.cur]
<1>1. ASSUME NEW a \in Layouts, NEW b \in Layouts PROVE Settings(a, b) \in Setting
  BY <1>1 DEF Settings, Setting
<1>2. \A t \in Tags : TagLayout[t] \in Layouts
  BY DwmAssumption
<1>3. {"float", "gaplessgrid", "monocle"} \subseteq Layouts
  BY DEF Layouts
<1>4. \A t \in 0..TAGS : t # 0 => t \in Tags
  BY DwmAssumption DEF Tags
<1>5. 1 \in Tags /\ 1 \in 0..TAGS
  BY DwmAssumption DEF Tags
<1>6. Settings(TagLayout[1], "float") \in Setting
  BY <1>1, <1>2, <1>3, <1>5
<1>p. PICK per : per = [t \in 0..TAGS |-> IF t = 0 THEN Settings("gaplessgrid", "monocle")
                                           ELSE Settings(TagLayout[t], "float")]
  OBVIOUS
<1>7. per \in [0..TAGS -> Setting]
  <2>1. Settings("gaplessgrid", "monocle") \in Setting
    BY <1>1, <1>3
  <2>2. \A t \in 0..TAGS : t # 0 => Settings(TagLayout[t], "float") \in Setting
    BY <1>1, <1>2, <1>3, <1>4
  <2> QED
    BY <1>p, <2>1, <2>2
<1>8. per[1] = Settings(TagLayout[1], "float")
  BY <1>5, <1>p
<1>9. [i \in 0..1 |-> {1}] \in [0..1 -> Views]
  <2>1. {1} \in Views
    BY <1>5 DEF Views
  <2> QED
    BY <2>1
<1>10. << >> \in Seq(Window)
  OBVIOUS
<1>c. createmon = [seltags |-> 0, tagset |-> [i \in 0..1 |-> {1}], cur |-> 1, prev |-> 1,
                   set |-> Settings(TagLayout[1], "float"), per |-> per,
                   clients |-> << >>, stack |-> << >>, sel |-> None]
  BY <1>p DEF createmon
<1>11. createmon \in Mon
  BY <1>5, <1>6, <1>7, <1>9, <1>10, <1>c DEF Mon
<1> QED
  BY <1>8, <1>11, <1>c

\* n screens in all, and none is new if there were as many.
Added(d, e, n) ==
  /\ Refits(d, e) /\ Len(e.mons) = n
  /\ n = Len(d.mons) => e = d

LEMMA GrownFact ==
  ASSUME NEW d, Good(d), NEW n \in Nat, n >= Len(d.mons),
         NEW e, e = [d EXCEPT !.mons = @ \o [i \in 1..(n - Len(d.mons)) |-> createmon]]
  PROVE  Added(d, e, n)
<1>l. PICK l : l = Len(d.mons)
  OBVIOUS
<1>1. d \in State /\ d.mons \in Seq(Mon) /\ l \in Nat /\ DOMAIN d.mons = 1..l
  BY <1>l, SelFact DEF State
<1>k. PICK k : k = n - l
  OBVIOUS
<1>2. k \in Nat /\ l + k = n
  BY <1>1, <1>k, <1>l
<1>r. PICK r : r = [i \in 1..k |-> createmon]
  OBVIOUS
<1>M. PICK M : M = d.mons \o r
  OBVIOUS
<1>3. /\ M \in Seq(Mon) /\ Len(M) = l + k
      /\ \A i \in 1..l : M[i] = d.mons[i]
      /\ \A i \in 1..(l + k) : i \notin 1..l => M[i] = createmon
  <2>c. PICK c : c = createmon
    OBVIOUS
  <2>1. c \in Mon /\ Grows(d.mons, M, c, k)
    BY <1>r, <1>M, <2>c, createmonFact DEF Grows
  <2> QED
    BY <1>1, <1>2, <1>l, <2>1, <2>c, RepeatFact
<1>4. /\ M \in Seq(Mon) /\ Len(M) = n /\ DOMAIN M = 1..n
      /\ \A i \in 1..l : M[i] = d.mons[i]
      /\ \A i \in 1..n : i \notin 1..l => M[i] = createmon
  BY <1>2, <1>3
<1>5. e = [d EXCEPT !.mons = M]
  BY <1>1, <1>M, <1>k, <1>l, <1>r DEF State
<1>6. /\ e \in State /\ e.mons = M /\ e.cl = d.cl /\ e.selmon = d.selmon
      /\ e.viewable = d.viewable /\ e.input = d.input /\ e.run = d.run
  BY <1>1, <1>4, <1>5 DEF State
<1>7. 1..l \subseteq 1..n
  BY <1>1, <1>2
<1>8. Managed(e) = Managed(d) /\ \A i : On(e, i) = On(d, i)
  BY <1>6 DEF Managed, On
<1>9. Typed(e)
  <2>1. /\ d.selmon \in 1..l /\ d.input \in d.viewable \cup {Root, PointerRoot}
        /\ \A w \in Managed(d) : d.cl[w].mon \in 1..l /\ d.cl[w].tags # {}
    BY <1>1 DEF Good, Partial, Typed
  <2> QED
    BY <1>4, <1>6, <1>7, <1>8, <2>1 DEF Typed
<1>10. Linked(e, {}, {})
  <2>1. SUFFICES ASSUME NEW j \in 1..n
                 PROVE  /\ Holds(e.mons[j].clients, On(d, j) \ {})
                        /\ Holds(e.mons[j].stack, On(d, j) \ {})
                        /\ e.mons[j].sel \in (On(d, j) \ {}) \cup {None}
    BY <1>4, <1>6, <1>8 DEF Linked
  <2>2. CASE j \in 1..l
    BY <1>1, <1>4, <1>6, <2>2 DEF Good, Partial, Linked
  <2>3. CASE j \notin 1..l
    <3>1. On(d, j) \ {} = {}
      BY <1>1, <2>3 DEF Good, Partial, Typed, On
    <3>2. e.mons[j] = createmon
      BY <1>4, <1>6, <2>3
    <3>3. Holds(<< >>, {})
      BY DEF Holds
    <3> QED
      BY <3>1, <3>2, <3>3, createmonFact
  <2> QED
    BY <2>2, <2>3
<1>11. Tuned(d) => Tuned(e)
  <2>1. SUFFICES ASSUME Tuned(d), NEW j \in 1..n
                 PROVE  e.mons[j].set = e.mons[j].per[e.mons[j].cur]
    BY <1>4, <1>6 DEF Tuned
  <2>2. CASE j \in 1..l
    BY <1>1, <1>4, <1>6, <2>1, <2>2 DEF Tuned
  <2>3. CASE j \notin 1..l
    BY <1>4, <1>6, <2>3, createmonFact
  <2> QED
    BY <2>2, <2>3
<1>12. Same(d, e)
  BY <1>1, <1>4, <1>6 DEF Same
<1>13. ASSUME n = l PROVE e = d
  <2>1. Len(M) = Len(d.mons) /\ \A i \in 1..Len(M) : M[i] = d.mons[i]
    BY <1>1, <1>4, <1>l, <1>13
  <2>2. M = d.mons
    BY <1>1, <1>4, <2>1, SeqEqual
  <2> QED
    BY <1>1, <1>5, <2>2 DEF State
<1> QED
  BY <1>l, <1>13, <1>4, <1>6, <1>8, <1>9, <1>10, <1>11, <1>12 DEF Added, Refits, Keeps, Good, Partial

LEMMA updategeomFact ==
  ASSUME NEW d, Good(d), NEW n \in Nat \ {0}, NEW moved, NEW pointer \in 1..n
  PROVE  LET geom == updategeom(d, n, moved, pointer)
         IN  /\ Refits(d, geom.d)
             /\ ~geom.dirty => \/ geom.d = d
                               \/ Len(geom.d.mons) < Len(d.mons) /\ geom.d.cl = d.cl
<1>o. PICK old : old = Len(d.mons)
  OBVIOUS
<1>g. PICK grown : grown = [d EXCEPT !.mons = @ \o [i \in 1..(n - old) |-> createmon]]
  OBVIOUS
<1>i. PICK dirty : dirty = (\/ n > old
                            \/ n = old /\ moved
                            \/ \E i \in n + 1..old : d.mons[i].clients # << >>)
  OBVIOUS
<1>n. PICK new : new = IF n >= old THEN grown ELSE Shrunk(d, old - n)[old - n]
  OBVIOUS
<1>1. old \in Nat
  <2>1. d.mons \in Seq(Mon)
    BY SelFact DEF State
  <2> QED
    BY <1>o, <2>1
<1>2. /\ Refits(d, new) /\ Len(new.mons) = n
      /\ n = old => new = d
      /\ n < old /\ Unused(d, n) => new.cl = d.cl
  <2>1. CASE n >= old
    <3>1. grown = [d EXCEPT !.mons = @ \o [i \in 1..(n - Len(d.mons)) |-> createmon]]
      BY <1>o, <1>g
    <3>2. n >= Len(d.mons) /\ n \in Nat
      BY <1>o, <2>1
    <3>3. Added(d, grown, n)
      BY <3>1, <3>2, GrownFact
    <3> QED
      BY <1>1, <1>n, <1>o, <2>1, <3>3 DEF Added
  <2>2. CASE ~(n >= old)
    <3>k. PICK k : k = old - n
      OBVIOUS
    <3>1. k \in Nat /\ k < old /\ old - k = n
      BY <1>1, <2>2, <3>k
    <3>2. /\ Refits(d, Shrunk(d, k)[k]) /\ Len(Shrunk(d, k)[k].mons) = old - k
          /\ Unused(d, old - k) => Shrunk(d, k)[k].cl = d.cl
      BY <1>o, <3>1, ShrunkFact
    <3> QED
      BY <1>1, <1>n, <2>2, <3>k, <3>1, <3>2
  <2> QED
    BY <2>1, <2>2
<1>p. PICK e : e = [new EXCEPT !.selmon = pointer]
  OBVIOUS
<1>3. Refits(d, e)
  <2>1. Partial(new, {}, {}) /\ pointer \in DOMAIN new.mons
    <3>1. new.mons \in Seq(Mon)
      BY <1>2, SelFact DEF Refits, State
    <3> QED
      BY <1>2, <3>1 DEF Refits, Good
  <2>2. Partial(e, {}, {}) /\ Stays(new, e)
    BY <1>p, <2>1, SelmonFact
  <2>3. Refits(new, e) /\ DOMAIN e.mons = DOMAIN new.mons
    BY <2>2, LooksSame DEF Refits, Good, Stays
  <2> QED
    BY <1>2, <2>3, RefitsTrans
<1>4. updategeom(d, n, moved, pointer) = [dirty |-> dirty, d |-> IF dirty THEN e ELSE new]
  BY <1>o, <1>g, <1>i, <1>n, <1>p DEF updategeom
<1>5. ASSUME ~dirty PROVE new = d \/ (Len(new.mons) < Len(d.mons) /\ new.cl = d.cl)
  <2>1. CASE n = old
    BY <1>2, <2>1
  <2>2. CASE n < old
    <3>1. Unused(d, n)
      BY <1>5, <1>i, <1>o DEF Unused
    <3> QED
      BY <1>2, <1>o, <2>2, <3>1
  <2>3. n <= old
    BY <1>1, <1>5, <1>i
  <2> QED
    BY <1>1, <2>1, <2>2, <2>3
<1> QED
  BY <1>2, <1>3, <1>4, <1>5

\* Then everything is arranged anew.
LEMMA GeomFact ==
  ASSUME NEW d, NEW e, Refits(d, e)
  PROVE  Refits(d, arrange_all(focus(e, None)))
<1>1. Leads(e, focus(e, None))
  BY focusFact DEF Refits
<1>2. Leads(e, arrange_all(focus(e, None)))
  BY <1>1, arrangeLeads
<1>3. Turns(e, arrange_all(focus(e, None)))
  BY <1>2, LeadsTurns
<1>4. Same(d, arrange_all(focus(e, None)))
  BY <1>3, SameTrans DEF Refits, Turns
<1> QED
  BY <1>3, <1>4 DEF Refits, Turns, Keeps

LEMMA TurnsRefits ==
  ASSUME NEW d, NEW e, Turns(d, e)
  PROVE  Refits(d, e)
BY DEF Turns, Refits

-----------------------------------------------------------------------------
(* The events that wait.                                                   *)

Ev == [type : {"MapRequest", "UnmapNotify", "SentUnmapNotify", "DestroyNotify", "FocusIn"}, win : Window]

Waits(q, w, types) == \E i \in DOMAIN q : q[i].win = w /\ q[i].type \in types

Gone == {"UnmapNotify", "DestroyNotify"}

\* No client without a window that is mapped or an event that says it is not.
Ghostless(d, q) == \A w \in Managed(d) : w \in d.viewable \/ Waits(q, w, Gone)

LEMMA EventFact ==
  ASSUME NEW type \in {"MapRequest", "UnmapNotify", "SentUnmapNotify", "DestroyNotify", "FocusIn"},
         NEW w \in Window
  PROVE  /\ Event(type, w) \in Ev
         /\ Event(type, w).type = type /\ Event(type, w).win = w
BY DEF Event, Ev

LEMMA WaitsJoined ==
  ASSUME NEW q \in Seq(Ev), NEW r \in Seq(Ev), NEW w, NEW types
  PROVE  /\ q \o r \in Seq(Ev)
         /\ Waits(q, w, types) => Waits(q \o r, w, types)
         /\ Waits(r, w, types) => Waits(q \o r, w, types)
<1>m. PICK m \in Nat : m = Len(q) /\ DOMAIN q = 1..m
  OBVIOUS
<1>n. PICK n \in Nat : n = Len(r) /\ DOMAIN r = 1..n
  OBVIOUS
<1>t. PICK t : t = q \o r
  OBVIOUS
<1>1. /\ t \in Seq(Ev) /\ Len(t) = m + n
      /\ \A i \in 1..(m + n) : t[i] = IF i <= m THEN q[i] ELSE r[i - m]
  BY <1>m, <1>n, <1>t, ConcatFact
<1>2. DOMAIN t = 1..(m + n)
  BY <1>1
<1>3. \A i \in 1..m : i \in 1..(m + n) /\ t[i] = q[i]
  BY <1>1
<1>4. \A i \in 1..n : i + m \in 1..(m + n) /\ ~(i + m <= m) /\ (i + m) - m = i
  OBVIOUS
<1>5. \A i \in 1..n : t[i + m] = r[i]
  BY <1>1, <1>4
<1>6. Waits(q, w, types) => Waits(t, w, types)
  BY <1>2, <1>3, <1>m DEF Waits
<1>7. Waits(r, w, types) => Waits(t, w, types)
  BY <1>2, <1>4, <1>5, <1>n DEF Waits
<1> QED
  BY <1>1, <1>6, <1>7, <1>t

LEMMA WaitsOne ==
  ASSUME NEW e \in Ev
  PROVE  <<e>> \in Seq(Ev) /\ Waits(<<e>>, e.win, {e.type})
<1>1. <<e>> \in Seq(Ev) /\ DOMAIN <<e>> = {1} /\ <<e>>[1] = e
  OBVIOUS
<1> QED
  BY <1>1 DEF Waits

LEMMA WaitsAppend ==
  ASSUME NEW q \in Seq(Ev), NEW e \in Ev, NEW w, NEW types
  PROVE  /\ Append(q, e) \in Seq(Ev)
         /\ Waits(q, w, types) => Waits(Append(q, e), w, types)
         /\ e.win = w /\ e.type \in types => Waits(Append(q, e), w, types)
<1>n. PICK n \in Nat : n = Len(q) /\ DOMAIN q = 1..n
  OBVIOUS
<1>t. PICK t : t = Append(q, e)
  OBVIOUS
<1>1. t \in Seq(Ev) /\ DOMAIN t = 1..(n + 1) /\ t[n + 1] = e /\ \A i \in 1..n : t[i] = q[i]
  BY <1>n, <1>t
<1>2. n + 1 \in 1..(n + 1) /\ \A i \in 1..n : i \in 1..(n + 1)
  OBVIOUS
<1> QED
  BY <1>1, <1>2, <1>n, <1>t DEF Waits

LEMMA WaitsTail ==
  ASSUME NEW q \in Seq(Ev), q # << >>, NEW w, NEW types
  PROVE  /\ Head(q) \in Ev /\ Tail(q) \in Seq(Ev)
         /\ Waits(q, w, types) =>
              Waits(Tail(q), w, types) \/ (Head(q).win = w /\ Head(q).type \in types)
<1>n. PICK n \in Nat : n = Len(q) /\ DOMAIN q = 1..n
  OBVIOUS
<1>t. PICK t : t = Tail(q)
  OBVIOUS
<1>1. n >= 1 /\ Head(q) = q[1] /\ q[1] \in Ev
  BY <1>n
<1>2. t \in Seq(Ev) /\ DOMAIN t = 1..(n - 1) /\ \A i \in 1..(n - 1) : t[i] = q[i + 1]
  BY <1>1, <1>n, <1>t
<1>3. ASSUME NEW i \in 1..n, i # 1 PROVE i - 1 \in 1..(n - 1) /\ t[i - 1] = q[i]
  <2>1. i - 1 \in 1..(n - 1) /\ (i - 1) + 1 = i
    BY <1>3
  <2> QED
    BY <1>2, <2>1
<1>4. Waits(q, w, types) => Waits(t, w, types) \/ (q[1].win = w /\ q[1].type \in types)
  BY <1>2, <1>3, <1>n DEF Waits
<1> QED
  BY <1>1, <1>2, <1>4, <1>t

LEMMA WaitsRemoved ==
  ASSUME NEW q \in Seq(Ev), NEW k \in DOMAIN q, NEW w, NEW types, q[k].type \notin types
  PROVE  /\ RemoveAt(q, k) \in Seq(Ev)
         /\ Waits(q, w, types) => Waits(RemoveAt(q, k), w, types)
<1>n. PICK n \in Nat : n = Len(q) /\ DOMAIN q = 1..n
  OBVIOUS
<1>u. PICK u : u = SubSeq(q, 1, k - 1)
  OBVIOUS
<1>v. PICK v : v = SubSeq(q, k + 1, Len(q))
  OBVIOUS
<1>1. k \in 1..n
  BY <1>n
<1>2. /\ u \in Seq(Ev) /\ Len(u) = k - 1 /\ DOMAIN u = 1..(k - 1)
      /\ \A i \in 1..(k - 1) : u[i] = q[i]
  BY <1>1, <1>n, <1>u
<1>3. /\ v \in Seq(Ev) /\ Len(v) = n - k /\ DOMAIN v = 1..(n - k)
      /\ \A i \in 1..(n - k) : v[i] = q[i + k]
  BY <1>1, <1>n, <1>v
<1>4. RemoveAt(q, k) = u \o v
  BY <1>u, <1>v DEF RemoveAt
<1>5. Waits(q, w, types) => Waits(u, w, types) \/ Waits(v, w, types)
  <2>1. ASSUME NEW i \in 1..n, q[i].win = w, q[i].type \in types
        PROVE  Waits(u, w, types) \/ Waits(v, w, types)
    <3>1. i # k
      BY <2>1
    <3>2. CASE i \in 1..(k - 1)
      BY <1>2, <2>1, <3>2 DEF Waits
    <3>3. CASE i \notin 1..(k - 1)
      <4>1. i - k \in 1..(n - k) /\ (i - k) + k = i
        BY <1>1, <3>1, <3>3
      <4>2. v[i - k] = q[i]
        BY <1>3, <4>1
      <4> QED
        BY <1>3, <2>1, <4>1, <4>2 DEF Waits
    <3> QED
      BY <3>2, <3>3
  <2> QED
    BY <2>1, <1>n DEF Waits
<1>6. u \in Seq(Ev) /\ v \in Seq(Ev)
  BY <1>2, <1>3
<1>7. /\ u \o v \in Seq(Ev)
      /\ Waits(u, w, types) => Waits(u \o v, w, types)
      /\ Waits(v, w, types) => Waits(u \o v, w, types)
  BY <1>6, WaitsJoined
<1> QED
  BY <1>4, <1>5, <1>7

-----------------------------------------------------------------------------
(* The inductive invariant.                                                *)

\* Good says where every client is; the settings are checked until dwm ends,
\* whose last view has no layout; clients come with the first Scan; and a
\* drag has a client, because nothing lets a client go while it lasts.
Sound(d, t, q, g) ==
  /\ Good(d)
  /\ d.run \in {"starting", "running"} => Tuned(d)
  /\ d.run = "starting" => Managed(d) = {}
  /\ t \in SUBSET Window /\ d.viewable \subseteq t
  /\ q \in Seq(Ev)
  /\ g \in Managed(d) \cup {None}
  /\ Ghostless(d, q)

IInv == Sound(wm, there, queue, drag)

\* What a handler may do to the settings: no tag has got others, or only the
\* current one of the selected screen, with the same tags in view.
Settles(d, e) ==
  \A i \in DOMAIN d.mons \cap DOMAIN e.mons : \A t \in 0..TAGS :
    e.mons[i].per[t] # d.mons[i].per[t] =>
      /\ i = e.selmon
      /\ t = d.mons[i].cur /\ t = e.mons[i].cur
      /\ ViewOf(e.mons[i]) = ViewOf(d.mons[i])

LEMMA SameSettles ==
  ASSUME NEW d, NEW e, Same(d, e)
  PROVE  Settles(d, e)
BY DEF Same, Settles

LEMMA SetsSettles ==
  ASSUME NEW d, NEW e, Sets(d, e)
  PROVE  Settles(d, e)
BY DEF Sets, Settles

LEMMA KeepsSound ==
  ASSUME NEW d, NEW t, NEW q, NEW g, Sound(d, t, q, g), d.run = "running",
         NEW e, Good(e), Keeps(d, e), NEW h \in Managed(d) \cup {None}
  PROVE  Sound(e, t, q, h)
<1>1. /\ Good(e) /\ e.viewable = d.viewable /\ Managed(e) = Managed(d)
      /\ e.run \in {"running", "crashed"} /\ (Tuned(d) => Tuned(e))
  BY DEF Keeps
<1>2. e.run # "starting"
  BY <1>1
<1> QED
  BY <1>1, <1>2 DEF Sound, Ghostless

LEMMA LeadsSound ==
  ASSUME NEW d, NEW t, NEW q, NEW g, Sound(d, t, q, g), d.run = "running",
         NEW e, Leads(d, e), NEW h \in Managed(d) \cup {None}
  PROVE  Sound(e, t, q, h)
BY KeepsSound DEF Leads, Stays

LEMMA DoesSound ==
  ASSUME IInv, Idle, NEW e, Refits(wm, e), Does(e)
  PROVE  IInv' /\ Same(wm, wm')
<1>1. Sound(wm, there, queue, drag) /\ wm.run = "running" /\ drag \in Managed(wm) \cup {None}
  BY DEF IInv, Idle, Sound
<1>2. Sound(e, there, queue, drag)
  BY <1>1, KeepsSound DEF Refits
<1>3. wm' = e /\ there' = there /\ queue' = queue /\ drag' = drag
  BY DEF Does
<1> QED
  BY <1>2, <1>3 DEF IInv, Refits

-----------------------------------------------------------------------------
(* The actions.                                                            *)

LEMMA InitSound == Init => IInv
<1> SUFFICES ASSUME Init PROVE IInv
  OBVIOUS
<1>1. PICK n \in Heads : \E s \in 1..n : \E wins \in SUBSET there :
        wm = [mons |-> [i \in 1..n |-> createmon], selmon |-> s,
              cl |-> [w \in Window |-> None], input |-> Root,
              viewable |-> wins, run |-> "starting"]
  BY DEF Init
<1>w. PICK s \in 1..n, wins \in SUBSET there :
        wm = [mons |-> [i \in 1..n |-> createmon], selmon |-> s,
              cl |-> [w \in Window |-> None], input |-> Root,
              viewable |-> wins, run |-> "starting"]
  BY <1>1
<1>t. there \in SUBSET Window
  BY DEF Init
<1>2. n \in Nat /\ s \in 1..n
  BY DwmAssumption
<1>c. PICK c : c = createmon
  OBVIOUS
<1>3. /\ c \in Mon /\ c.clients = << >> /\ c.stack = << >>
      /\ c.sel = None /\ c.set = c.per[c.cur]
  BY <1>c, createmonFact
<1>M. PICK M : M = [i \in 1..n |-> c]
  OBVIOUS
<1>4. M \in Seq(Mon) /\ DOMAIN M = 1..n /\ \A i \in 1..n : M[i] = c
  BY <1>2, <1>3, <1>M
<1>5. /\ wm.mons = M /\ wm.selmon = s /\ wm.cl = [w \in Window |-> None] /\ wm.input = Root
      /\ wm.viewable = wins /\ wm.run = "starting"
  BY <1>w, <1>M, <1>c
<1>6. wm \in State
  BY <1>t, <1>w, <1>2, <1>4, <1>M, <1>c DEF State
<1>7. Managed(wm) = {}
  BY <1>5 DEF Managed
<1>8. Typed(wm)
  BY <1>2, <1>4, <1>5, <1>6, <1>7 DEF Typed
<1>9. Linked(wm, {}, {})
  <2>1. \A i : On(wm, i) = {}
    BY <1>7 DEF On
  <2>2. Holds(<< >>, {} \ {})
    BY DEF Holds
  <2> QED
    BY <1>3, <1>4, <1>5, <2>1, <2>2 DEF Linked
<1>10. Tuned(wm)
  BY <1>3, <1>4, <1>5 DEF Tuned
<1>11. queue \in Seq(Ev) /\ drag = None
  BY DEF Init
<1>12. there \in SUBSET Window /\ wm.viewable \subseteq there
  BY <1>t, <1>w, <1>5
<1>13. Ghostless(wm, queue)
  BY <1>7 DEF Ghostless
<1> QED
  BY <1>7, <1>8, <1>9, <1>10, <1>11, <1>12, <1>13 DEF IInv, Sound, Good, Partial

\* An order of a finite set is a list of its members.
LEMMA OrderFact ==
  ASSUME NEW V \in SUBSET Window, NEW wins \in SetToSeqs(V)
  PROVE  /\ wins \in Seq(Window) /\ Range(wins) \subseteq V
         /\ \A i, j \in DOMAIN wins : i # j => wins[i] # wins[j]
         /\ \A i \in DOMAIN wins : wins[i] \in V
<1>1. IsFiniteSet(V)
  BY DwmAssumption, FS_Subset
<1>2. PICK n \in Nat : n = Cardinality(V)
  BY <1>1, FS_CardinalityType
<1>3. wins \in [1..n -> V] /\ \A i, j \in 1..n : i # j => wins[i] # wins[j]
  BY <1>2 DEF SetToSeqs
<1>4. wins \in Seq(Window) /\ DOMAIN wins = 1..n
  BY <1>3
<1>5. \A i \in 1..n : wins[i] \in V
  BY <1>3
<1> QED
  BY <1>3, <1>4, <1>5 DEF Range

LEMMA ScanSound ==
  ASSUME IInv, Scan
  PROVE  IInv' /\ Same(wm, wm')
<1>1. /\ Sound(wm, there, queue, drag) /\ wm.run = "starting"
      /\ there' = there /\ queue' = queue /\ drag' = drag
  BY DEF IInv, Scan
<1>i. PICK icons \in SUBSET (there \ wm.viewable) :
        \E wins \in SetToSeqs(wm.viewable \cup icons), hints \in [wm.viewable \cup icons -> Hint] :
          wm' = scan([wm EXCEPT !.run = "running"], wins, hints)
  BY DEF Scan
<1>V. PICK V : V = wm.viewable \cup icons
  OBVIOUS
<1>2. PICK wins \in SetToSeqs(V), hints \in [V -> Hint] :
        wm' = scan([wm EXCEPT !.run = "running"], wins, hints)
  BY <1>i, <1>V
<1>d. PICK d : d = [wm EXCEPT !.run = "running"]
  OBVIOUS
<1>e. PICK e : e = wm'
  OBVIOUS
<1>0. V \in SUBSET Window /\ V \subseteq there /\ wm.viewable \subseteq V
  BY <1>1, <1>V DEF Sound
<1>3. /\ Partial(wm, {}, {}) /\ wm \in State /\ wm.selmon \in DOMAIN wm.mons
      /\ wm.input \in wm.viewable \cup {Root, PointerRoot}
      /\ Tuned(wm) /\ Managed(wm) = {} /\ wm.viewable \in SUBSET Window
  BY <1>1 DEF Sound, Good, Partial, Typed, State
<1>4. Plain(wm, d, wm.selmon, wm.input, "running")
  BY <1>3, <1>d DEF State, Plain
<1>5. /\ Good(d) /\ d.viewable = wm.viewable /\ d.run = "running"
      /\ Managed(d) = {} /\ Tuned(d) /\ d.mons = wm.mons
  BY <1>3, <1>4, PlainFact DEF Good
<1>6. /\ wins \in Seq(Window) /\ Range(wins) \subseteq V
      /\ \A i, j \in DOMAIN wins : i # j => wins[i] # wins[j]
      /\ \A i \in DOMAIN wins : wins[i] \in V
  BY <1>0, OrderFact
<1>7. \A i \in DOMAIN wins : wins[i] \notin Managed(d) /\ hints[wins[i]] \in Hint
  BY <1>5, <1>6
<1>8. Joins(d, scan(d, wins, hints), Range(wins))
  BY <1>5, <1>6, <1>7, scanFact
<1>9. Joins(d, e, Range(wins))
  BY <1>2, <1>8, <1>d, <1>e
<1>10. /\ Good(e) /\ Managed(e) = Range(wins) /\ e.viewable = wm.viewable \cup Range(wins)
       /\ e.run \in {"running", "crashed"} /\ Tuned(e)
  BY <1>5, <1>6, <1>9 DEF Joins
<1>11. Ghostless(e, queue)
  BY <1>10 DEF Ghostless
<1>12. drag = None
  BY <1>1, <1>3 DEF Sound
<1>13. Sound(e, there, queue, drag)
  <2>1. e.viewable \subseteq there
    BY <1>0, <1>6, <1>10
  <2> QED
    BY <1>1, <1>10, <1>11, <1>12, <2>1 DEF Sound
<1>14. Same(wm, e)
  BY <1>5, <1>9, SameEqual, SameTrans DEF Joins
<1> QED
  BY <1>1, <1>13, <1>14, <1>e DEF IInv

\* A window is unmapped, and loses the keyboard.
Hides(d, e, w) ==
  e = [d EXCEPT !.viewable = @ \ {w},
                !.input = IF d.input = w THEN PointerRoot ELSE d.input]

LEMMA HiddenFact ==
  ASSUME NEW d, Good(d), NEW w \in Window, NEW e, Hides(d, e, w)
  PROVE  /\ Good(e) /\ Managed(e) = Managed(d) /\ e.viewable = d.viewable \ {w}
         /\ e.run = d.run /\ (Tuned(d) => Tuned(e)) /\ Same(d, e)
<1>1. d \in State /\ d.viewable \in SUBSET Window /\ d.input \in d.viewable \cup {Root, PointerRoot}
  BY DEF Good, Partial, Typed, State
<1>2. /\ e \in State /\ e.viewable = d.viewable \ {w}
      /\ e.mons = d.mons /\ e.cl = d.cl /\ e.run = d.run
      /\ e.selmon = d.selmon /\ e.input = IF d.input = w THEN PointerRoot ELSE d.input
  BY <1>1 DEF State, Hides
<1>3. Managed(e) = Managed(d)
  BY <1>2 DEF Managed
<1>4. Typed(e)
  BY <1>1, <1>2, <1>3 DEF Good, Partial, Typed
<1>5. \A j : On(e, j) = On(d, j)
  BY <1>2, <1>3 DEF On
<1>6. Linked(e, {}, {})
  BY <1>2, <1>5 DEF Good, Partial, Linked
<1>7. Tuned(d) => Tuned(e)
  BY <1>2 DEF Tuned
<1>8. Same(d, e)
  BY <1>2, SameEqual
<1> QED
  BY <1>2, <1>3, <1>4, <1>6, <1>7, <1>8 DEF Good, Partial

LEMMA MapSound ==
  ASSUME IInv, NEW w \in Window, Map(w)
  PROVE  IInv' /\ Same(wm, wm')
<1>e. PICK e : e = Event("MapRequest", w)
  OBVIOUS
<1>1. e \in Ev
  BY <1>e, EventFact
<1>2. /\ wm' = wm /\ there' = there \cup {w} /\ queue' = Append(queue, e) /\ drag' = drag
  BY <1>e DEF Map
<1>3. Sound(wm, there, queue, drag)
  BY DEF IInv
<1>4. queue \in Seq(Ev)
  BY <1>3 DEF Sound
<1>5. Append(queue, e) \in Seq(Ev)
  BY <1>1, <1>4, WaitsAppend
<1>6. Ghostless(wm, Append(queue, e))
  BY <1>1, <1>3, <1>4, WaitsAppend DEF Sound, Ghostless
<1>7. Sound(wm, there \cup {w}, Append(queue, e), drag)
  BY <1>3, <1>5, <1>6 DEF Sound
<1> QED
  BY <1>2, <1>7, SameEqual DEF IInv

LEMMA WithdrawSound ==
  ASSUME IInv, NEW w \in Window, Withdraw(w)
  PROVE  IInv' /\ Same(wm, wm')
<1>e. PICK e : e = Event("SentUnmapNotify", w)
  OBVIOUS
<1>1. e \in Ev
  BY <1>e, EventFact
<1>2. /\ wm' = wm /\ there' = there /\ queue' = Append(queue, e) /\ drag' = drag
  BY <1>e DEF Withdraw
<1>3. Sound(wm, there, queue, drag)
  BY DEF IInv
<1>4. queue \in Seq(Ev)
  BY <1>3 DEF Sound
<1>5. Append(queue, e) \in Seq(Ev)
  BY <1>1, <1>4, WaitsAppend
<1>6. Ghostless(wm, Append(queue, e))
  BY <1>1, <1>3, <1>4, WaitsAppend DEF Sound, Ghostless
<1>7. Sound(wm, there, Append(queue, e), drag)
  BY <1>3, <1>5, <1>6 DEF Sound
<1> QED
  BY <1>2, <1>7, SameEqual DEF IInv

LEMMA UnmapSound ==
  ASSUME IInv, NEW w \in Window, Unmap(w)
  PROVE  IInv' /\ Same(wm, wm')
<1>e. PICK e : e = Event("UnmapNotify", w)
  OBVIOUS
<1>d. PICK d : Hides(wm, d, w)
  BY DEF Hides
<1>1. e \in Ev /\ e.win = w /\ e.type \in Gone
  BY <1>e, EventFact DEF Gone
<1>2. wm' = d /\ there' = there /\ queue' = Append(queue, e) /\ drag' = drag
  BY <1>d, <1>e DEF Unmap, Reverts, Hides
<1>3. Sound(wm, there, queue, drag)
  BY DEF IInv
<1>4. queue \in Seq(Ev) /\ Good(wm)
  BY <1>3 DEF Sound
<1>5. Append(queue, e) \in Seq(Ev)
  BY <1>1, <1>4, WaitsAppend
<1>6. /\ Good(d) /\ Managed(d) = Managed(wm) /\ d.viewable = wm.viewable \ {w}
      /\ d.run = wm.run /\ (Tuned(wm) => Tuned(d)) /\ Same(wm, d)
  BY <1>4, <1>d, HiddenFact
<1>7. Ghostless(d, Append(queue, e))
  <2>1. SUFFICES ASSUME NEW x \in Managed(wm), x \notin d.viewable
                 PROVE  Waits(Append(queue, e), x, Gone)
    BY <1>6 DEF Ghostless
  <2>2. x \in wm.viewable \/ Waits(queue, x, Gone)
    BY <1>3 DEF Sound, Ghostless
  <2>3. CASE x = w
    BY <1>1, <1>4, <2>3, WaitsAppend
  <2>4. CASE x # w
    BY <1>1, <1>4, <1>6, <2>1, <2>2, <2>4, WaitsAppend
  <2> QED
    BY <2>3, <2>4
<1>8. Sound(d, there, Append(queue, e), drag)
  BY <1>3, <1>5, <1>6, <1>7 DEF Sound
<1> QED
  BY <1>2, <1>6, <1>8 DEF IInv

LEMMA DestroySound ==
  ASSUME IInv, NEW w \in Window, Destroy(w)
  PROVE  IInv' /\ Same(wm, wm')
<1>e. PICK e : e = Event("DestroyNotify", w)
  OBVIOUS
<1>f. PICK f : f = IF w \in wm.viewable THEN <<Event("UnmapNotify", w)>> ELSE << >>
  OBVIOUS
<1>d. PICK d : Hides(wm, d, w)
  BY DEF Hides
<1>q. PICK q : q = queue \o f
  OBVIOUS
<1>1. e \in Ev /\ e.win = w /\ e.type \in Gone
  BY <1>e, EventFact DEF Gone
<1>2. wm' = d /\ there' = there \ {w} /\ queue' = q \o <<e>> /\ drag' = drag
  BY <1>d, <1>e, <1>f, <1>q DEF Destroy, Reverts, Hides
<1>3. Sound(wm, there, queue, drag)
  BY DEF IInv
<1>4. queue \in Seq(Ev) /\ Good(wm)
  BY <1>3 DEF Sound
<1>5. f \in Seq(Ev)
  <2>1. Event("UnmapNotify", w) \in Ev
    BY EventFact
  <2>2. <<Event("UnmapNotify", w)>> \in Seq(Ev)
    BY <2>1, WaitsOne
  <2> QED
    BY <1>f, <2>2
<1>6. q \in Seq(Ev) /\ \A x : Waits(queue, x, Gone) => Waits(q, x, Gone)
  BY <1>4, <1>5, <1>q, WaitsJoined
<1>7. <<e>> \in Seq(Ev)
  BY <1>1, WaitsOne
<1>8. /\ q \o <<e>> \in Seq(Ev)
      /\ \A x : Waits(q, x, Gone) => Waits(q \o <<e>>, x, Gone)
      /\ \A x : Waits(<<e>>, x, Gone) => Waits(q \o <<e>>, x, Gone)
  BY <1>6, <1>7, WaitsJoined
<1>9. Waits(<<e>>, w, Gone)
  BY <1>1, WaitsOne DEF Waits
<1>10. /\ Good(d) /\ Managed(d) = Managed(wm) /\ d.viewable = wm.viewable \ {w}
       /\ d.run = wm.run /\ (Tuned(wm) => Tuned(d)) /\ Same(wm, d)
  BY <1>4, <1>d, HiddenFact
<1>11. Ghostless(d, q \o <<e>>)
  <2>1. SUFFICES ASSUME NEW x \in Managed(wm), x \notin d.viewable
                 PROVE  Waits(q \o <<e>>, x, Gone)
    BY <1>10 DEF Ghostless
  <2>2. x \in wm.viewable \/ Waits(queue, x, Gone)
    BY <1>3 DEF Sound, Ghostless
  <2> QED
    BY <1>6, <1>8, <1>9, <1>10, <2>1, <2>2
<1>12. Sound(d, there \ {w}, q \o <<e>>, drag)
  BY <1>3, <1>8, <1>10, <1>11 DEF Sound
<1> QED
  BY <1>2, <1>10, <1>12 DEF IInv

LEMMA StealSound ==
  ASSUME IInv, NEW w \in Window, Steal(w)
  PROVE  IInv' /\ Same(wm, wm')
<1>e. PICK e : e = Event("FocusIn", w)
  OBVIOUS
<1>d. PICK d : d = [wm EXCEPT !.input = w]
  OBVIOUS
<1>1. e \in Ev
  BY <1>e, EventFact
<1>2. /\ wm' = d /\ there' = there /\ queue' = Append(queue, e) /\ drag' = drag
      /\ w \in wm.viewable
  BY <1>d, <1>e DEF Steal
<1>3. Sound(wm, there, queue, drag)
  BY DEF IInv
<1>4. queue \in Seq(Ev) /\ Partial(wm, {}, {})
  BY <1>3 DEF Sound, Good
<1>5. Append(queue, e) \in Seq(Ev)
  BY <1>1, <1>4, WaitsAppend
<1>6. Partial(d, {}, {}) /\ Stays(wm, d) /\ d.mons = wm.mons /\ d.viewable = wm.viewable
  <2>1. w \in wm.viewable \cup {Root, PointerRoot}
    BY <1>2
  <2> QED
    BY <1>4, <1>d, <2>1, InputFact
<1>7. d.run = wm.run
  BY <1>4, <1>d DEF Partial, Typed, State
<1>8. Good(d) /\ Managed(d) = Managed(wm) /\ (Tuned(wm) => Tuned(d))
  BY <1>6 DEF Good, Stays, Keeps
<1>9. Ghostless(d, Append(queue, e))
  BY <1>1, <1>3, <1>4, <1>6, <1>8, WaitsAppend DEF Sound, Ghostless
<1>10. Sound(d, there, Append(queue, e), drag)
  BY <1>3, <1>5, <1>6, <1>7, <1>8, <1>9 DEF Sound
<1> QED
  BY <1>2, <1>6, <1>10, SameEqual DEF IInv

\* From d to e windows of t may have become clients, and are mapped.
Asks(d, t, e) ==
  /\ Good(e)
  /\ Same(d, e)
  /\ Managed(d) \subseteq Managed(e) /\ Managed(e) \ Managed(d) \subseteq e.viewable
  /\ d.viewable \subseteq e.viewable /\ e.viewable \subseteq t
  /\ e.run \in {d.run, "crashed"}
  /\ Tuned(d) => Tuned(e)

LEMMA wintoclientFact ==
  ASSUME NEW d, NEW w \in Window
  PROVE  wintoclient(d, w) = None <=> w \notin Managed(d)
BY DwmAssumption DEF wintoclient, Managed

LEMMA maprequestFact ==
  ASSUME IInv, NEW w \in Window, maprequest(w)
  PROVE  Asks(wm, there, wm')
<1>1. Good(wm) /\ wm.viewable \subseteq there
  BY DEF IInv, Sound
<1>2. CASE wm' = wm
  BY <1>1, <1>2, SameEqual DEF Asks
<1>3. CASE w \in there /\ wintoclient(wm, w) = None /\ \E hint \in Hints[w] : wm' = manage(wm, w, hint)
  <2>1. PICK hint \in Hints[w] : wm' = manage(wm, w, hint)
    BY <1>3
  <2>2. hint \in Hint /\ w \notin Managed(wm)
    BY <1>3, DwmAssumption, wintoclientFact
  <2>3. Joins(wm, wm', {w})
    BY <1>1, <2>1, <2>2, manageFact
  <2> QED
    BY <1>1, <1>3, <2>3 DEF Joins, Asks
<1> QED
  BY <1>2, <1>3 DEF maprequest

LEMMA runSound ==
  ASSUME IInv, run
  PROVE  IInv' /\ Same(wm, wm')
<1>e. PICK e : e = Head(queue)
  OBVIOUS
<1>q. PICK q : q = Tail(queue)
  OBVIOUS
<1>1. /\ Sound(wm, there, queue, drag) /\ wm.run = "running" /\ drag = None /\ queue # << >>
      /\ there' = there /\ queue' = q /\ drag' = drag
  BY <1>q DEF IInv, run, Idle
<1>2. queue \in Seq(Ev) /\ Good(wm) /\ Tuned(wm) /\ Ghostless(wm, queue)
      /\ there \in SUBSET Window /\ wm.viewable \subseteq there
  BY <1>1 DEF Sound
<1>3. /\ e \in Ev /\ q \in Seq(Ev)
      /\ \A w : Waits(queue, w, Gone) => Waits(q, w, Gone) \/ (e.win = w /\ e.type \in Gone)
  BY <1>1, <1>2, <1>e, <1>q, WaitsTail
<1>4. e.win \in Window
  BY <1>3 DEF Ev
<1>5. CASE e.type \notin Gone /\ Asks(wm, there, wm')
  <2>1. Ghostless(wm', q)
    BY <1>2, <1>3, <1>5 DEF Asks, Ghostless
  <2>2. wm'.run \in {"running", "crashed"} /\ wm'.run # "starting"
    BY <1>1, <1>5 DEF Asks
  <2>3. Sound(wm', there, q, drag)
    BY <1>1, <1>2, <1>3, <1>5, <2>1, <2>2 DEF Asks, Sound
  <2> QED
    BY <1>1, <1>5, <2>3 DEF IInv, Asks
<1>6. CASE wm' = IF wintoclient(wm, e.win) = None THEN wm ELSE unmanage(wm, e.win)
  <2>1. /\ Good(wm') /\ Managed(wm') \subseteq Managed(wm) \ {e.win}
        /\ wm'.viewable = wm.viewable /\ wm'.run \in {"running", "crashed"} /\ Tuned(wm')
        /\ Same(wm, wm')
    <3>1. CASE e.win \notin Managed(wm)
      BY <1>1, <1>2, <1>4, <1>6, <3>1, wintoclientFact, SameEqual
    <3>2. CASE e.win \in Managed(wm)
      <4>1. wm' = unmanage(wm, e.win)
        BY <1>4, <1>6, <3>2, wintoclientFact
      <4>2. Leaves(wm, wm', e.win)
        BY <1>2, <3>2, <4>1, unmanageFact
      <4> QED
        BY <1>1, <1>2, <4>2 DEF Leaves
    <3> QED
      BY <3>1, <3>2
  <2>2. Ghostless(wm', q)
    BY <1>2, <1>3, <2>1 DEF Ghostless
  <2>3. wm'.run # "starting"
    BY <2>1
  <2>4. Sound(wm', there, q, drag)
    BY <1>1, <1>2, <1>3, <2>1, <2>2, <2>3 DEF Sound
  <2> QED
    BY <1>1, <2>1, <2>4 DEF IInv
<1>7. ASSUME e.type = "MapRequest", maprequest(e.win)
      PROVE  e.type \notin Gone /\ Asks(wm, there, wm')
  BY <1>4, <1>7, maprequestFact DEF Gone
<1>8. ASSUME e.type = "FocusIn", focusin(e.win)
      PROVE  e.type \notin Gone /\ Asks(wm, there, wm')
  <2>1. CASE wm' = wm
    BY <1>2, <1>8, <2>1, SameEqual DEF Asks, Gone
  <2>2. CASE Sel(wm) # None /\ wm' = setfocus(wm, Sel(wm))
    <3>1. Sel(wm) \in Managed(wm)
      BY <1>2, <2>2, SelFact
    <3>2. Partial(wm', {}, {}) /\ Stays(wm, wm')
      BY <1>2, <2>2, <3>1, setfocusFact DEF Good
    <3>3. Same(wm, wm')
      BY <3>2, LooksSame DEF Stays
    <3> QED
      BY <1>2, <1>8, <3>2, <3>3 DEF Asks, Gone, Good, Stays, Keeps
  <2> QED
    BY <1>8, <2>1, <2>2 DEF focusin
<1>9. ASSUME e.type = "SentUnmapNotify", unmapnotify(e.win, TRUE)
      PROVE  e.type \notin Gone /\ Asks(wm, there, wm')
  <2>1. wm' = wm
    BY <1>9 DEF unmapnotify
  <2> QED
    BY <1>2, <1>9, <2>1, SameEqual DEF Asks, Gone
<1>10. ASSUME e.type = "UnmapNotify", unmapnotify(e.win, FALSE)
       PROVE  wm' = IF wintoclient(wm, e.win) = None THEN wm ELSE unmanage(wm, e.win)
  BY <1>10 DEF unmapnotify
<1>11. \/ e.type = "MapRequest" /\ maprequest(e.win)
       \/ e.type = "UnmapNotify" /\ unmapnotify(e.win, FALSE)
       \/ e.type = "SentUnmapNotify" /\ unmapnotify(e.win, TRUE)
       \/ e.type = "DestroyNotify" /\ destroynotify(e.win)
       \/ e.type = "FocusIn" /\ focusin(e.win)
  BY <1>e DEF run
<1> QED
  BY <1>5, <1>6, <1>7, <1>8, <1>9, <1>10, <1>11 DEF destroynotify

LEMMA DragMapRequestSound ==
  ASSUME IInv, DragMapRequest
  PROVE  IInv' /\ Same(wm, wm')
<1>1. PICK i \in DOMAIN queue :
        /\ queue[i].type = "MapRequest"
        /\ maprequest(queue[i].win)
        /\ queue' = RemoveAt(queue, i)
  BY DEF DragMapRequest
<1>q. PICK q : q = RemoveAt(queue, i)
  OBVIOUS
<1>2. /\ Sound(wm, there, queue, drag) /\ wm.run = "running"
      /\ there' = there /\ queue' = q /\ drag' = drag
  BY <1>1, <1>q DEF IInv, DragMapRequest
<1>3. queue \in Seq(Ev) /\ Tuned(wm) /\ Ghostless(wm, queue)
      /\ there \in SUBSET Window /\ drag \in Managed(wm) \cup {None}
  BY <1>2 DEF Sound
<1>4. queue[i] \in Ev /\ queue[i].type \notin Gone
  BY <1>1, <1>3 DEF Gone
<1>5. Asks(wm, there, wm')
  BY <1>1, <1>4, maprequestFact DEF Ev
<1>6. q \in Seq(Ev) /\ \A w : Waits(queue, w, Gone) => Waits(q, w, Gone)
  BY <1>3, <1>4, <1>q, WaitsRemoved
<1>7. Ghostless(wm', q)
  BY <1>3, <1>5, <1>6 DEF Asks, Ghostless
<1>8. wm'.run \in {"running", "crashed"} /\ wm'.run # "starting"
  BY <1>2, <1>5 DEF Asks
<1>9. Sound(wm', there, q, drag)
  BY <1>3, <1>5, <1>6, <1>7, <1>8 DEF Asks, Sound
<1> QED
  BY <1>2, <1>5, <1>9 DEF IInv, Asks

LEMMA IdleFact ==
  ASSUME IInv, Idle
  PROVE  Good(wm) /\ wm.run = "running"
BY DEF IInv, Sound, Idle

LEMMA DoesTurns ==
  ASSUME IInv, Idle, NEW e, Turns(wm, e), Does(e)
  PROVE  IInv' /\ Same(wm, wm')
BY TurnsRefits, DoesSound

LEMMA DoesLeads ==
  ASSUME IInv, Idle, NEW e, Leads(wm, e), Does(e)
  PROVE  IInv' /\ Same(wm, wm')
BY LeadsTurns, DoesTurns

LEMMA PointerSound ==
  ASSUME IInv, EnterNotify \/ MotionNotify
  PROVE  IInv' /\ Same(wm, wm')
<1>1. Idle /\ Good(wm)
  BY IdleFact DEF EnterNotify, MotionNotify
<1>2. ASSUME NEW c \in Managed(wm), Does(enternotify(wm, c, wm.cl[c].mon)) PROVE IInv' /\ Same(wm, wm')
  <2>1. wm.cl[c].mon \in DOMAIN wm.mons
    BY <1>1, ClientFacts DEF Good
  <2>2. Leads(wm, enternotify(wm, c, wm.cl[c].mon))
    BY <1>1, <2>1, enternotifyFact
  <2> QED
    BY <1>1, <1>2, <2>2, DoesLeads
<1>3. ASSUME NEW i \in DOMAIN wm.mons, Does(enternotify(wm, None, i)) PROVE IInv' /\ Same(wm, wm')
  <2>1. Leads(wm, enternotify(wm, None, i))
    BY <1>1, enternotifyFact
  <2> QED
    BY <1>1, <1>3, <2>1, DoesLeads
<1>4. ASSUME NEW i \in DOMAIN wm.mons, Does(focus([wm EXCEPT !.selmon = i], None)) PROVE IInv' /\ Same(wm, wm')
  <2>1. Leads(wm, wm)
    BY <1>1, LeadsSelf
  <2>2. Leads(wm, focus([wm EXCEPT !.selmon = i], None))
    BY <2>1, MoveFact
  <2> QED
    BY <1>1, <1>4, <2>2, DoesLeads
<1> QED
  BY <1>2, <1>3, <1>4 DEF EnterNotify, MotionNotify

\* A client is clicked and has the focus.
LEMMA PressFact ==
  ASSUME NEW d, Good(d), NEW c \in Managed(d)
  PROVE  /\ Leads(d, focus(clicked(d, d.cl[c].mon), c))
         /\ Settled(focus(clicked(d, d.cl[c].mon), c))
<1>1. d.cl[c].mon \in DOMAIN d.mons
  BY ClientFacts DEF Good
<1>2. Leads(d, clicked(d, d.cl[c].mon))
  BY <1>1, clickedFact
<1> QED
  BY <1>2, focusLeads

LEMMA LabelsFact ==
  ASSUME NEW d, Good(d), NEW i \in DOMAIN d.mons
  PROVE  Labels(d, i) \subseteq Tags
<1>1. ViewOf(d.mons[i]) \in SUBSET Tags
  BY MonFacts, ViewOfFact DEF Good
<1>2. ASSUME NEW c \in Range(d.mons[i].clients) PROVE d.cl[c].tags \in SUBSET Tags
  <2>1. c \in Managed(d)
    BY MonFacts DEF Good, Holds, Range, On
  <2>2. d.cl[c] \in Client
    BY <2>1, ClientFacts DEF Good
  <2> QED
    BY <2>2 DEF Client
<1> QED
  BY <1>1, <1>2 DEF Labels

LEMMA ButtonPressSound ==
  ASSUME IInv, ButtonPress
  PROVE  IInv' /\ Same(wm, wm')
<1>1. Idle /\ Good(wm)
  BY IdleFact DEF ButtonPress
<1>2. \A i \in DOMAIN wm.mons : Leads(wm, clicked(wm, i))
  BY <1>1, clickedFact
<1>3. ASSUME NEW i \in DOMAIN wm.mons, NEW t \in Labels(clicked(wm, i), i)
      PROVE  /\ Turns(wm, view(clicked(wm, i), {t}))
             /\ \A u \in BOOLEAN : Turns(wm, toggleview(clicked(wm, i), {t}, u))
             /\ Leads(wm, tag(clicked(wm, i), {t}))
             /\ Leads(wm, toggletag(clicked(wm, i), {t}))
  <2>d. PICK d : d = clicked(wm, i)
    OBVIOUS
  <2>1. Leads(wm, d) /\ Good(d) /\ i \in DOMAIN d.mons
    BY <1>2, <2>d DEF Leads, Stays
  <2>2. {t} \in SUBSET Tags
    BY <2>1, <2>d, LabelsFact
  <2>3. Turns(d, view(d, {t})) /\ Leads(d, tag(d, {t})) /\ Leads(d, toggletag(d, {t}))
    BY <2>1, <2>2, viewFact, tagFact, toggletagFact
  <2>4. \A u \in BOOLEAN : Turns(d, toggleview(d, {t}, u))
    BY <2>1, <2>2, toggleviewFact
  <2>5. Turns(wm, d)
    BY <2>1, LeadsTurns
  <2> QED
    BY <2>1, <2>3, <2>4, <2>5, <2>d, LeadsTrans, TurnsTrans
<1>4. ASSUME NEW i \in DOMAIN wm.mons PROVE Leads(wm, zoom(clicked(wm, i)))
  <2>1. Leads(wm, clicked(wm, i)) /\ Good(clicked(wm, i))
    BY <1>2 DEF Leads
  <2>2. Leads(clicked(wm, i), zoom(clicked(wm, i)))
    BY <2>1, zoomFact
  <2> QED
    BY <2>1, <2>2, LeadsTrans
<1>5. ASSUME NEW c \in Managed(wm)
      PROVE  /\ Leads(wm, focus(clicked(wm, wm.cl[c].mon), c))
             /\ Leads(wm, togglefloating(focus(clicked(wm, wm.cl[c].mon), c)))
  <2>d. PICK d : d = focus(clicked(wm, wm.cl[c].mon), c)
    OBVIOUS
  <2>1. Leads(wm, d) /\ Good(d)
    BY <1>1, <2>d, PressFact DEF Leads
  <2>2. Leads(d, togglefloating(d))
    BY <2>1, togglefloatingFact
  <2> QED
    BY <2>1, <2>2, <2>d, LeadsTrans
<1>6. PICK e : Turns(wm, e) /\ Does(e)
  BY <1>2, <1>3, <1>4, <1>5, LeadsTurns DEF ButtonPress
<1> QED
  BY <1>1, <1>6, DoesTurns

LEMMA StartDragSound ==
  ASSUME IInv, StartDrag
  PROVE  IInv' /\ Same(wm, wm')
<1>1. Idle /\ Good(wm) /\ wm.run = "running"
  BY IdleFact DEF StartDrag
<1>2. PICK c \in Managed(wm) :
        LET d == focus(clicked(wm, wm.cl[c].mon), c)
        IN Sel(d) # None /\ wm' = restack(d) /\ drag' = Sel(d)
  BY DEF StartDrag
<1>d. PICK d : d = focus(clicked(wm, wm.cl[c].mon), c)
  OBVIOUS
<1>3. wm' = restack(d) /\ drag' = Sel(d) /\ there' = there /\ queue' = queue
  BY <1>2, <1>d DEF StartDrag
<1>4. Leads(wm, d)
  BY <1>1, <1>d, PressFact
<1>5. Sel(d) \in Managed(wm) \cup {None}
  BY <1>4, SelFact DEF Leads, Stays, Keeps
<1>6. Leads(wm, restack(d))
  BY <1>4, restackLeads
<1>7. Sound(wm, there, queue, drag)
  BY DEF IInv
<1>8. Sound(restack(d), there, queue, Sel(d))
  BY <1>1, <1>5, <1>6, <1>7, LeadsSound
<1> QED
  BY <1>3, <1>6, <1>8, LeadsTurns DEF IInv, Turns

LEMMA DragMotionSound ==
  ASSUME IInv, DragMotion
  PROVE  IInv' /\ Same(wm, wm')
<1>1. /\ Sound(wm, there, queue, drag) /\ wm.run = "running"
      /\ wm' = togglefloating(wm) /\ there' = there /\ queue' = queue /\ drag' = drag
  BY DEF IInv, DragMotion, Does
<1>2. Good(wm) /\ drag \in Managed(wm) \cup {None}
  BY <1>1 DEF Sound
<1>3. Leads(wm, togglefloating(wm))
  BY <1>2, togglefloatingFact
<1>4. Sound(togglefloating(wm), there, queue, drag)
  BY <1>1, <1>2, <1>3, LeadsSound
<1> QED
  BY <1>1, <1>3, <1>4, LeadsTurns DEF IInv, Turns

LEMMA DragReleaseSound ==
  ASSUME IInv, DragRelease
  PROVE  IInv' /\ Same(wm, wm')
<1>1. /\ Sound(wm, there, queue, drag) /\ wm.run = "running" /\ drag # None
      /\ drag' = None /\ there' = there /\ queue' = queue
  BY DEF IInv, DragRelease
<1>2. Good(wm) /\ drag \in Managed(wm)
  BY <1>1 DEF Sound
<1>3. PICK i \in DOMAIN wm.mons :
        wm' = IF i = wm.selmon THEN wm
              ELSE focus([sendmon(wm, drag, i) EXCEPT !.selmon = i], None)
  BY DEF DragRelease
<1>4. Leads(wm, sendmon(wm, drag, i))
  BY <1>2, sendmonFact
<1>5. Leads(wm, focus([sendmon(wm, drag, i) EXCEPT !.selmon = i], None))
  BY <1>4, MoveFact
<1>6. Leads(wm, wm')
  BY <1>2, <1>3, <1>5, LeadsSelf
<1>7. Sound(wm', there, queue, None)
  BY <1>1, <1>6, LeadsSound
<1> QED
  BY <1>1, <1>6, <1>7, LeadsTurns DEF IInv, Turns

LEMMA MessageSound ==
  ASSUME IInv, ClientMessage
  PROVE  IInv' /\ Same(wm, wm')
<1>1. Idle /\ Good(wm) /\ Partial(wm, {}, {})
  BY IdleFact DEF ClientMessage, Good
<1>2. ASSUME NEW c \in Managed(wm), NEW full \in BOOLEAN
      PROVE  Leads(wm, setfullscreen(wm, c, full))
  BY <1>1, setfullscreenFact, FlagLeads
<1>3. ASSUME NEW c \in Managed(wm) PROVE Turns(wm, activate(wm, c))
  BY <1>1, activateFact
<1>4. PICK e : Turns(wm, e) /\ Does(e)
  BY <1>2, <1>3, LeadsTurns DEF ClientMessage
<1> QED
  BY <1>1, <1>4, DoesTurns

LEMMA PropertySound ==
  ASSUME IInv, PropertyNotify
  PROVE  IInv' /\ Same(wm, wm')
<1>1. Idle /\ Good(wm) /\ Partial(wm, {}, {})
  BY IdleFact DEF PropertyNotify, Good
<1>2. ASSUME NEW c \in Managed(wm)
      PROVE  Leads(wm, arrange([wm EXCEPT !.cl[c].isfloating = TRUE], wm.cl[c].mon))
  <2>e. PICK e : e = [wm EXCEPT !.cl[c].isfloating = TRUE]
    OBVIOUS
  <2>1. Flagged(wm, e, {}, {}, c)
    BY <1>1, <2>e, FloatFact
  <2> QED
    BY <2>1, <2>e, FlagLeads, arrangeLeads
<1>3. ASSUME NEW c \in Managed(wm), NEW hint \in Hints[c]
      PROVE  Leads(wm, drawbars(updatewmhints(wm, c, hint)))
  <2>1. hint \in Hint
    BY DwmAssumption DEF Managed
  <2>2. Leads(wm, updatewmhints(wm, c, hint))
    BY <1>1, <2>1, updatewmhintsFact, FlagLeads
  <2> QED
    BY <2>2, arrangeLeads DEF arrange_all
<1>4. ASSUME NEW c \in Managed(wm)
      PROVE  Leads(wm, updatewindowtype(wm, c, wm.cl[c].isfullscreen))
  <2>1. wm.cl[c] \in Client
    BY <1>1, ClientFacts
  <2>2. wm.cl[c].isfullscreen \in BOOLEAN
    BY <2>1 DEF Client
  <2> QED
    BY <1>1, <2>2, updatewindowtypeFact, FlagLeads
<1>5. PICK e : Leads(wm, e) /\ Does(e)
  BY <1>2, <1>3, <1>4 DEF PropertyNotify
<1> QED
  BY <1>1, <1>5, DoesLeads

LEMMA SizeHintsSound ==
  ASSUME IInv, SizeHints
  PROVE  IInv' /\ Same(wm, wm')
<1>1. Idle /\ Good(wm) /\ Partial(wm, {}, {})
  BY IdleFact DEF SizeHints, Good
<1>2. ASSUME NEW c \in Managed(wm) PROVE Leads(wm, [wm EXCEPT !.cl[c].isfixed = ~@])
  BY <1>1, FixedFact, FlagLeads
<1>3. Leads(wm, wm')
  BY <1>2 DEF SizeHints
<1>4. Refits(wm, wm')
  BY <1>3, LeadsTurns, TurnsRefits
<1>5. /\ Sound(wm, there, queue, drag) /\ wm.run = "running" /\ drag \in Managed(wm) \cup {None}
      /\ there' = there /\ queue' = queue /\ drag' = drag
  BY <1>1 DEF IInv, Idle, Sound, SizeHints
<1>6. Sound(wm', there, queue, drag)
  BY <1>4, <1>5, KeepsSound DEF Refits
<1> QED
  BY <1>4, <1>5, <1>6 DEF IInv, Refits

LEMMA ExposeSound ==
  ASSUME IInv, Expose
  PROVE  IInv' /\ Same(wm, wm')
<1>1. Idle /\ Good(wm)
  BY IdleFact DEF Expose
<1>2. ASSUME NEW i PROVE Leads(wm, drawbar(wm, i))
  BY <1>1, LeadsSelf, arrangeLeads DEF arrange
<1>3. PICK e : Leads(wm, e) /\ Does(e)
  BY <1>2 DEF Expose
<1> QED
  BY <1>1, <1>3, DoesLeads

LEMMA ConfigureSound ==
  ASSUME IInv, ConfigureNotify
  PROVE  IInv' /\ Same(wm, wm')
<1>1. Idle /\ Good(wm)
  BY IdleFact DEF ConfigureNotify
<1>2. PICK n \in Heads, moved \in BOOLEAN, wider \in BOOLEAN :
        \E pointer \in 1..n :
          LET geom == updategeom(wm, n, moved, pointer)
          IN Does(IF geom.dirty \/ wider THEN arrange_all(focus(geom.d, None)) ELSE geom.d)
  BY DEF ConfigureNotify
<1>3. PICK pointer \in 1..n :
        LET geom == updategeom(wm, n, moved, pointer)
        IN Does(IF geom.dirty \/ wider THEN arrange_all(focus(geom.d, None)) ELSE geom.d)
  BY <1>2
<1>g. PICK geom : geom = updategeom(wm, n, moved, pointer)
  OBVIOUS
<1>4. n \in Nat \ {0}
  BY DwmAssumption
<1>5. Refits(wm, geom.d)
  BY <1>1, <1>4, <1>g, updategeomFact
<1>6. Refits(wm, arrange_all(focus(geom.d, None)))
  BY <1>5, GeomFact
<1>7. Does(arrange_all(focus(geom.d, None))) \/ Does(geom.d)
  BY <1>3, <1>g
<1> QED
  BY <1>1, <1>5, <1>6, <1>7, DoesSound

LEMMA KeySound ==
  ASSUME IInv, Key
  PROVE  IInv' /\ Same(wm, wm')
<1>1. Idle /\ Good(wm)
  BY IdleFact DEF Key
<1>2. ASSUME NEW arg \in {{t} : t \in Tags} \cup {Everything, {}}
      PROVE  Turns(wm, view(wm, arg))
  BY <1>1, viewFact
<1>3. ASSUME NEW t \in Tags, NEW u \in BOOLEAN PROVE Turns(wm, toggleview(wm, {t}, u))
  BY <1>1, toggleviewFact
<1>4. ASSUME NEW arg PROVE Leads(wm, tag(wm, arg)) /\ Leads(wm, toggletag(wm, arg))
  BY <1>1, tagFact, toggletagFact
<1>5. ASSUME NEW dir \in {1, -1}
      PROVE  /\ Leads(wm, tagmon(wm, dir)) /\ Leads(wm, focusmon(wm, dir))
             /\ Leads(wm, focusstack(wm, dir))
  BY <1>1, tagmonFact, focusmonFact, focusstackFact
<1>6. ASSUME NEW n PROVE Leads(wm, focusnstack(wm, n))
  BY <1>1, focusnstackFact
<1>7. /\ Leads(wm, zoom(wm)) /\ Turns(wm, winview(wm))
      /\ Leads(wm, togglefloating(wm)) /\ Leads(wm, togglefullscr(wm))
  BY <1>1, zoomFact, winviewFact, togglefloatingFact, togglefullscrFact
<1>8. PICK e : Turns(wm, e) /\ Does(e)
  BY <1>2, <1>3, <1>4, <1>5, <1>6, <1>7, LeadsTurns DEF Key
<1> QED
  BY <1>1, <1>8, DoesTurns

LEMMA SettingSound ==
  ASSUME IInv, SettingKey
  PROVE  IInv' /\ Settles(wm, wm')
<1>1. Idle /\ Good(wm) /\ wm.run = "running"
  BY IdleFact DEF SettingKey
<1>2. ASSUME NEW i \in DOMAIN wm.mons, NEW layout \in {None, "monocle"}
      PROVE  Changes(wm, setlayout(clicked(wm, i), layout))
  <2>1. Leads(wm, clicked(wm, i)) /\ Good(clicked(wm, i))
    BY <1>1, clickedFact DEF Leads
  <2>2. layout \in Layouts \cup {None}
    BY DEF Layouts
  <2>3. Changes(clicked(wm, i), setlayout(clicked(wm, i), layout))
    BY <2>1, <2>2, setlayoutFact
  <2> QED
    BY <2>1, <2>3, LeadsChanges
<1>3. ASSUME NEW layout \in KeyLayouts \cup {None} PROVE Changes(wm, setlayout(wm, layout))
  <2>1. layout \in Layouts \cup {None}
    BY DwmAssumption
  <2> QED
    BY <1>1, <2>1, setlayoutFact
<1>4. ASSUME NEW step \in MfactStep PROVE Changes(wm, setmfact(wm, step))
  <2>1. step \in Int
    BY DwmAssumption
  <2> QED
    BY <1>1, <2>1, setmfactFact
<1>5. ASSUME NEW n \in {1, -1} PROVE Changes(wm, incnmaster(wm, n))
  BY <1>1, incnmasterFact
<1>6. Changes(wm, togglebar(wm))
  BY <1>1, togglebarChanges
<1>7. Changes(wm, wm')
  BY <1>2, <1>3, <1>4, <1>5, <1>6 DEF SettingKey
<1>8. /\ Sound(wm, there, queue, drag) /\ drag \in Managed(wm) \cup {None}
      /\ there' = there /\ queue' = queue /\ drag' = drag
  BY DEF IInv, Sound, SettingKey
<1>9. Sound(wm', there, queue, drag)
  BY <1>1, <1>7, <1>8, KeepsSound DEF Changes
<1>10. Settles(wm, wm')
  BY <1>7, SetsSettles DEF Changes
<1> QED
  BY <1>8, <1>9, <1>10 DEF IInv

LEMMA killclientSound ==
  ASSUME IInv, killclient
  PROVE  IInv' /\ Same(wm, wm')
<1>1. Idle /\ Sel(wm) # None /\ Destroy(Sel(wm))
  BY DEF killclient
<1>2. Sel(wm) \in Window
  BY <1>1, IdleFact, SelFact DEF Managed
<1> QED
  BY <1>1, <1>2, DestroySound

LEMMA quitSound ==
  ASSUME IInv, quit
  PROVE  IInv' /\ Same(wm, wm')
<1>e. PICK e : e = cleanup(wm)
  OBVIOUS
<1>1. /\ Sound(wm, there, queue, drag) /\ drag = None
      /\ wm' = e /\ there' = there /\ queue' = queue /\ drag' = drag
  BY <1>e DEF IInv, quit, Idle, Does
<1>2. Good(wm)
  BY <1>1 DEF Sound
<1>3. /\ Good(e) /\ Managed(e) \subseteq Managed(wm) /\ e.viewable = wm.viewable
      /\ e.run \in {"quit", "crashed"} /\ Same(wm, e)
  BY <1>2, <1>e, cleanupFact
<1>4. e.run \notin {"starting", "running"} /\ e.run # "starting"
  BY <1>3
<1>5. Ghostless(e, queue)
  BY <1>1, <1>3 DEF Sound, Ghostless
<1>6. Sound(e, there, queue, drag)
  BY <1>1, <1>3, <1>4, <1>5 DEF Sound
<1> QED
  BY <1>1, <1>3, <1>6 DEF IInv

-----------------------------------------------------------------------------
(* The theorems.                                                           *)

LEMMA NextSound ==
  ASSUME IInv, [Next]_vars
  PROVE  IInv' /\ Settles(wm, wm')
<1>1. ASSUME Scan PROVE IInv' /\ Same(wm, wm')
  BY <1>1, ScanSound
<1>2. ASSUME run PROVE IInv' /\ Same(wm, wm')
  BY <1>2, runSound
<1>3. ASSUME NEW w \in Window, Map(w) PROVE IInv' /\ Same(wm, wm')
  BY <1>3, MapSound
<1>4. ASSUME NEW w \in Window, Unmap(w) PROVE IInv' /\ Same(wm, wm')
  BY <1>4, UnmapSound
<1>5. ASSUME NEW w \in Window, Destroy(w) PROVE IInv' /\ Same(wm, wm')
  BY <1>5, DestroySound
<1>6. ASSUME NEW w \in Window, Steal(w) PROVE IInv' /\ Same(wm, wm')
  BY <1>6, StealSound
<1>w. ASSUME NEW w \in Window, Withdraw(w) PROVE IInv' /\ Same(wm, wm')
  BY <1>w, WithdrawSound
<1>7. ASSUME EnterNotify \/ MotionNotify PROVE IInv' /\ Same(wm, wm')
  BY <1>7, PointerSound
<1>8. ASSUME ButtonPress PROVE IInv' /\ Same(wm, wm')
  BY <1>8, ButtonPressSound
<1>9. ASSUME ClientMessage PROVE IInv' /\ Same(wm, wm')
  BY <1>9, MessageSound
<1>10. ASSUME PropertyNotify PROVE IInv' /\ Same(wm, wm')
  BY <1>10, PropertySound
<1>s. ASSUME SizeHints PROVE IInv' /\ Same(wm, wm')
  BY <1>s, SizeHintsSound
<1>11. ASSUME Expose PROVE IInv' /\ Same(wm, wm')
  BY <1>11, ExposeSound
<1>12. ASSUME ConfigureNotify PROVE IInv' /\ Same(wm, wm')
  BY <1>12, ConfigureSound
<1>13. ASSUME Key PROVE IInv' /\ Same(wm, wm')
  BY <1>13, KeySound
<1>14. CASE SettingKey
  BY <1>14, SettingSound
<1>15. ASSUME killclient PROVE IInv' /\ Same(wm, wm')
  BY <1>15, killclientSound
<1>16. ASSUME quit PROVE IInv' /\ Same(wm, wm')
  BY <1>16, quitSound
<1>17. ASSUME StartDrag PROVE IInv' /\ Same(wm, wm')
  BY <1>17, StartDragSound
<1>18. ASSUME DragMapRequest PROVE IInv' /\ Same(wm, wm')
  BY <1>18, DragMapRequestSound
<1>19. ASSUME DragMotion PROVE IInv' /\ Same(wm, wm')
  BY <1>19, DragMotionSound
<1>20. ASSUME DragRelease PROVE IInv' /\ Same(wm, wm')
  BY <1>20, DragReleaseSound
<1>21. ASSUME UNCHANGED vars PROVE IInv' /\ Same(wm, wm')
  BY <1>21, SameEqual DEF IInv, vars
<1>22. CASE IInv' /\ Same(wm, wm')
  BY <1>22, SameSettles
<1> QED
  BY <1>1, <1>2, <1>3, <1>4, <1>5, <1>6, <1>w, <1>7, <1>8, <1>9, <1>10, <1>s, <1>11, <1>12, <1>13,
     <1>14, <1>15, <1>16, <1>17, <1>18, <1>19, <1>20, <1>21, <1>22 DEF Next

\* In every behaviour, between two handlers, the lists hold every client once,
\* screens and clients are what dwm takes them for, and every unmapped client
\* has an event that takes it out of the lists.
THEOREM Invariant == Spec => []IInv
<1>1. Init => IInv
  BY InitSound
<1>2. IInv /\ [Next]_vars => IInv'
  BY NextSound
<1> QED
  BY <1>1, <1>2, PTL DEF Spec

\* What is sound has its types.
LEMMA TypeImplied == IInv => TypeOK
<1> SUFFICES ASSUME IInv PROVE TypeOK
  OBVIOUS
<1>1. /\ Good(wm) /\ there \in SUBSET Window /\ wm.viewable \subseteq there
      /\ wm.run = "running" => Tuned(wm)
  BY DEF IInv, Sound
<1>2. /\ wm \in State /\ wm.selmon \in DOMAIN wm.mons
      /\ wm.input \in wm.viewable \cup {Root, PointerRoot}
  BY <1>1 DEF Good, Partial, Typed
<1>3. wm.mons # << >>
  BY <1>2
<1>4. ASSUME NEW i \in DOMAIN wm.mons
      PROVE  LET m == wm.mons[i]
             IN /\ m.seltags \in 0..1 /\ m.cur \in 0..TAGS /\ m.prev \in 0..TAGS
                /\ \A s \in 0..1 : m.tagset[s] # {} /\ m.tagset[s] \subseteq Tags
                /\ wm.run = "running" => m.set = m.per[m.cur]
  <2>1. wm.mons[i] \in Mon
    BY <1>1, MonFacts DEF Good
  <2>2. /\ wm.mons[i].seltags \in 0..1 /\ wm.mons[i].cur \in 0..TAGS
        /\ wm.mons[i].prev \in 0..TAGS /\ wm.mons[i].tagset \in [0..1 -> Views]
    BY <2>1, MonParts
  <2>3. ASSUME NEW s \in 0..1
        PROVE  wm.mons[i].tagset[s] # {} /\ wm.mons[i].tagset[s] \subseteq Tags
    BY <2>2 DEF Views
  <2>4. wm.run = "running" => wm.mons[i].set = wm.mons[i].per[wm.mons[i].cur]
    BY <1>1 DEF Tuned
  <2> QED
    BY <2>2, <2>3, <2>4
<1>5. ASSUME NEW w \in Managed(wm)
      PROVE  /\ wm.cl[w].mon \in DOMAIN wm.mons
             /\ wm.cl[w].tags # {} /\ wm.cl[w].tags \subseteq Tags
  BY <1>1, ClientFacts DEF Good, Client
<1> QED
  BY <1>1, <1>2, <1>3, <1>4, <1>5 DEF TypeOK

\* Types of all that dwm keeps.  A client always has a tag and a screen always
\* shows one, so that no window is out of reach; and a screen shows the
\* settings of its current tag.
THEOREM TypeCorrect == Spec => []TypeOK
BY Invariant, TypeImplied, PTL

\* A list that holds the clients of a finite set is as long as there are.
LEMMA HoldsCount ==
  ASSUME NEW s \in Seq(Window), NEW X, Holds(s, X)
  PROVE  Range(s) = X /\ Len(s) = Cardinality(X)
<1>n. PICK n \in Nat : n = Len(s) /\ DOMAIN s = 1..n
  OBVIOUS
<1>1. s \in [1..n -> X]
  <2>1. \A i \in 1..n : s[i] \in X
    BY <1>n DEF Holds
  <2>2. s = [i \in 1..n |-> s[i]]
    BY <1>n
  <2> QED
    BY <2>1, <2>2
<1>2. \A i, j \in 1..n : s[i] = s[j] => i = j
  BY <1>n DEF Holds
<1>3. \A w \in X : \E i \in 1..n : s[i] = w
  BY <1>n DEF Holds
<1>4. s \in Injection(1..n, X)
  BY <1>1, <1>2 DEF Injection, IsInjective
<1>5. s \in Surjection(1..n, X)
  BY <1>1, <1>3 DEF Surjection
<1>6. ExistsBijection(1..n, X)
  BY <1>4, <1>5 DEF ExistsBijection, Bijection
<1>7. Cardinality(X) = n
  BY <1>6, FS_CountingElements
<1>8. Range(s) = X
  BY <1>n DEF Holds, Range
<1> QED
  BY <1>n, <1>7, <1>8

\* What is sound is listed.
LEMMA ListedImplied == IInv => Listed
<1> SUFFICES ASSUME IInv, NEW i \in DOMAIN wm.mons
             PROVE  LET m == wm.mons[i]
                        own == {w \in Managed(wm) : wm.cl[w].mon = i}
                    IN /\ Range(m.clients) = own /\ Len(m.clients) = Cardinality(own)
                       /\ Range(m.stack) = own /\ Len(m.stack) = Cardinality(own)
                       /\ m.sel \in own \cup {None}
  BY DEF Listed
<1>1. Good(wm)
  BY DEF IInv, Sound
<1>o. PICK own : own = On(wm, i)
  OBVIOUS
<1>2. /\ wm.mons[i].clients \in Seq(Window) /\ wm.mons[i].stack \in Seq(Window)
      /\ Holds(wm.mons[i].clients, own \ {})
      /\ Holds(wm.mons[i].stack, own \ {})
      /\ wm.mons[i].sel \in (own \ {}) \cup {None}
  BY <1>1, <1>o, MonFacts DEF Good
<1>3. own \ {} = own
  OBVIOUS
<1>4. /\ Holds(wm.mons[i].clients, own) /\ Holds(wm.mons[i].stack, own)
      /\ wm.mons[i].sel \in own \cup {None}
  BY <1>2, <1>3
<1>5. /\ Range(wm.mons[i].clients) = own /\ Len(wm.mons[i].clients) = Cardinality(own)
      /\ Range(wm.mons[i].stack) = own /\ Len(wm.mons[i].stack) = Cardinality(own)
  BY <1>2, <1>4, HoldsCount
<1>6. own = {w \in Managed(wm) : wm.cl[w].mon = i}
  BY <1>o DEF On
<1> QED
  BY <1>4, <1>5, <1>6

\* Every client is once in the list and once in the focus history of its own
\* screen and in no other, through every order of handlers, and what a screen
\* has selected is one of its own clients.
THEOREM ClientsListed == Spec => []Listed
BY Invariant, ListedImplied, PTL

\* What is sound has no ghosts.
LEMMA GhostsImplied == IInv => NoGhosts
BY DEF IInv, Sound, Ghostless, NoGhosts, Waits, Pending, Gone

\* Whatever the order in which windows come and go and their events are read,
\* also by a drag, a client whose window is no longer mapped has an event on
\* its way that takes it out of the lists.
THEOREM NoGhostsKept == Spec => []NoGhosts
BY Invariant, GhostsImplied, PTL

\* No change of the view, and nothing else that happens, touches the settings
\* of any tag, though a view toggles the bar by the function that sets it; a
\* key for settings changes those of the current tag of the selected screen
\* and leaves the tags in view.
THEOREM SettingsStay == Spec => SettingsKept
<1>1. IInv /\ [Next]_vars =>
        [\A i \in DOMAIN wm.mons \cap DOMAIN wm'.mons : \A t \in 0..TAGS :
           wm'.mons[i].per[t] # wm.mons[i].per[t] =>
             /\ i = wm'.selmon
             /\ t = wm.mons[i].cur /\ t = wm'.mons[i].cur
             /\ ViewOf(wm'.mons[i]) = ViewOf(wm.mons[i])]_vars
  BY NextSound DEF Settles
<1> QED
  BY <1>1, Invariant, PTL DEF Spec, SettingsKept
=============================================================================
