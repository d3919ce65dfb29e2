------------------------- MODULE WindowManagerProofs -------------------------
(***************************************************************************)
(* Proofs about wmgr's window table, for any number of windows: who has a  *)
(* slot, that there is a login window, and when the chain holds; and about *)
(* its picture, for any windows on a screen of any size: every pixel shows *)
(* what is in front there.                                                 *)
(*                                                                         *)
(* The picture is followed from the rectangles up.  What RectAreasOutside  *)
(* cuts a rectangle into covers what lies outside the other, so by         *)
(* induction along the chain Paint's strokes leave each pixel to the       *)
(* window in front there.  AllFine says what then is right between two     *)
(* rounds of the main loop, DragFine what is while a window is dragged;    *)
(* both speak of who is in front and not of the order of the strokes.      *)
(***************************************************************************)
EXTENDS WindowManager, Painting, NumberLemmas, FiniteSetTheorems, SequenceTheorems, TLAPS

-----------------------------------------------------------------------------
\* The inductive invariant

\* Where the guarantees are made: on the 4404, as long as no death was handled
\* while a window was being made.
Orderly == build = "4404" /\ ~raced

TypeInv ==
    /\ build \in Builds
    /\ allwindows \in [Slot -> Window]
    /\ numwindows \in Nat
    /\ wintopmost \in Slot \cup {Null}
    /\ process \in [Id -> {"none", "running", "closed", "zombie", "reaped"}]
    /\ killed \subseteq Id
    /\ created \in 2 .. MaxCreated
    /\ sigdead \in BOOLEAN /\ middle \in BOOLEAN /\ raced \in BOOLEAN
    /\ handler \in [pc : {"rest", "wait", "destroy"}, wid : Slot, id : {0}]
    /\ main \in [pc : {"rest", "wait", "destroy", "create"}, wid : Slot, id : Id \cup {0}]
    /\ up \in {"up", "exited", "crashed"}

\* Windows are counted, and one that is being made is not in the count yet.
CountInv ==
    /\ numwindows <= created
    /\ main.pc = "create" => numwindows < created /\ main.id \in Id
    /\ \A i \in Id : i > created => process[i] = "none"

\* A slot that is in use, or was when the next was picked, holds a window.
FilledInv ==
    /\ main.pc = "create" => numwindows <= main.wid
    /\ \A s \in Slot : s < numwindows \/ (main.pc = "create" /\ s < main.wid) => allwindows[s].id \in Id

\* On the 4404 the main loop destroys nothing, and waits for the handler.
PhaseInv ==
    Orderly =>
        /\ main.pc \in {"rest", "create"} /\ (main.pc = "rest" => main = Rest)
        /\ handler.pc = "rest" => handler = Rest
        /\ handler.pc # "rest" => main = Rest
        /\ main.pc = "create" => main.wid = numwindows

\* The slots in use but the one that is being given up, and the children but
\* the one whose window is being made, are one to one.
Kept == Used(numwindows) \ (IF handler.pc = "destroy" THEN {handler.wid} ELSE {})
Placed == Children \ (IF main.pc = "create" THEN {main.id} ELSE {})

OneToOne(tab, S, C) ==
    /\ \A s \in S : tab[s].id \in C
    /\ \A i \in C : \E s \in S : tab[s].id = i
    /\ \A s, t \in S : tab[s].id = tab[t].id => s = t

SlotsInv ==
    Orderly /\ up = "up" =>
        /\ OneToOne(allwindows, Kept, Placed)
        /\ handler.pc = "destroy" =>
              /\ handler.wid \in Used(numwindows) /\ allwindows[handler.wid].id \in Id
              /\ process[allwindows[handler.wid].id] = "reaped"
        /\ main.pc = "create" => main.id \in Children

\* There is one login window.
OneLoginIn(w) == \E s \in Used(w.n) : \A t \in Used(w.n) : w.tab[t].type = WINLOGIN <=> t = s

LoginInv == Orderly /\ created < MaxCreated => OneLoginIn(Windows)

\* p lists the slots in use, each once.
IsOrder(p, n) ==
    /\ p \in [Used(n) -> Used(n)]
    /\ \A j, k \in Used(n) : p[j] = p[k] => j = k
    /\ \A s \in Used(n) : \E k \in Used(n) : p[k] = s

\* What is behind the k-th.
Succ(p, n, k) == IF k + 1 = n THEN Null ELSE p[k + 1]

\* The chain goes from the front along p, but past the window in `gone'.
Follows(w, p, gone) ==
    /\ IsOrder(p, w.n)
    /\ w.top = IF w.n = 0 THEN Null ELSE p[0]
    /\ \A k \in Used(w.n) :
          w.tab[p[k]].next = IF k + 1 # w.n /\ p[k + 1] = gone THEN Succ(p, w.n, k + 1)
                             ELSE Succ(p, w.n, k)

InChain(w, gone) == \E p \in [Used(w.n) -> Used(w.n)] : Follows(w, p, gone)

\* The chain holds every window, or every one but the one that is going.
ChainInv ==
    Orderly /\ ~middle =>
        InChain(Windows, IF handler.pc = "destroy" THEN handler.wid ELSE Null)

IInv == TypeInv /\ CountInv /\ FilledInv /\ PhaseInv /\ SlotsInv /\ LoginInv /\ ChainInv

-----------------------------------------------------------------------------
\* What the steps of WindowDestroy, WindowCreate and WindowTop do to a table

Tables == [tab : [Slot -> Window], n : Nat, top : Slot \cup {Null}]

\* The same windows, whatever their order.
SameWindows(u, w) ==
    /\ u.n = w.n
    /\ \A s \in Slot : u.tab[s].id = w.tab[s].id /\ u.tab[s].type = w.tab[s].type

\* Slots are numbers, and Null is none of them.
LEMMA Slots ==
    /\ Slot \subseteq Nat /\ 0 \in Slot /\ Null \notin Slot /\ MaxCreated \in Nat
    /\ \A n \in 0 .. MaxCreated : Used(n) \subseteq Slot
BY CreatedAssumption, NullAssumption DEF Slot, Used

\* A window with another next.
LEMMA Relinked ==
    ASSUME NEW v \in Window, NEW x \in Slot \cup {Null}
    PROVE  LET u == [v EXCEPT !.next = x]
           IN  u \in Window /\ u.next = x /\ u.id = v.id /\ u.type = v.type
BY DEF Window

\* Unlinking changes nothing but the next of the one before.
LEMMA UnlinkIs ==
    ASSUME NEW w \in Tables, NEW wid \in Slot
    PROVE  LET u == Unlink(w, wid)
           IN  /\ u \in Tables /\ SameWindows(u, w) /\ u.top = w.top
               /\ \A s \in Slot : u.tab[s].next = IF s \in Before(w, wid) THEN w.tab[wid].next ELSE w.tab[s].next
<1>1. PICK x : x = w.tab[wid].next
  OBVIOUS
<1>2. PICK B : B = Before(w, wid)
  OBVIOUS
<1>3. x \in Slot \cup {Null} /\ \A s \in Slot : w.tab[s] \in Window
  BY <1>1 DEF Tables, Window
<1>4. PICK tab : tab = [s \in Slot |-> IF s \in B THEN [w.tab[s] EXCEPT !.next = x] ELSE w.tab[s]]
  OBVIOUS
<1>5. PICK u : u = [tab |-> tab, n |-> w.n, top |-> w.top]
  OBVIOUS
<1>6. u = Unlink(w, wid)
  BY <1>1, <1>2, <1>4, <1>5, Zenon DEF Unlink
<1>7. ASSUME NEW s \in Slot
      PROVE  /\ tab[s] \in Window /\ tab[s].id = w.tab[s].id /\ tab[s].type = w.tab[s].type
             /\ tab[s].next = IF s \in B THEN x ELSE w.tab[s].next
  <2>1. CASE s \in B
    <3>1. tab[s] = [w.tab[s] EXCEPT !.next = x]
      BY <1>4, <2>1
    <3>2. QED
      BY <1>3, <2>1, <3>1, Relinked
  <2>2. CASE s \notin B
    BY <1>3, <1>4, <2>2
  <2>3. QED
    BY <2>1, <2>2
<1>8. tab \in [Slot -> Window]
  <2>1. tab = [s \in Slot |-> tab[s]]
    BY <1>4
  <2>2. QED
    BY <1>7, <2>1
<1>9. u \in Tables /\ u.tab = tab /\ u.n = w.n /\ u.top = w.top
  BY <1>5, <1>8 DEF Tables
<1>10. QED
  BY <1>1, <1>2, <1>6, <1>7, <1>9 DEF SameWindows

\* Who is in slot s after the last window was moved to wid.
From(w, wid, s) == IF s = wid THEN w.n - 1 ELSE s

\* u is w without the window in wid.
OneLess(u, w, wid) ==
    /\ u \in Tables /\ u.n = w.n - 1 /\ u.top = NewTop(w, wid)
    /\ \A s \in Slot : From(w, wid, s) \in Slot
    /\ \A s \in Slot : /\ u.tab[s].id = w.tab[From(w, wid, s)].id
                       /\ u.tab[s].type = w.tab[From(w, wid, s)].type
    /\ \A s \in Used(w.n) : u.tab[s].next = Renamed(w.tab[From(w, wid, s)].next, w.n - 1, wid)

\* Reclaiming the slot wid moves the last window there.
LEMMA ReclaimIs ==
    ASSUME NEW w \in Tables, w.n # 0, w.n <= MaxCreated, NEW wid \in Slot
    PROVE  OneLess(Reclaim(w, wid), w, wid)
<1>1. w.n - 1 \in Slot /\ w.n \in Nat /\ w.top \in Slot \cup {Null} /\ w.tab \in [Slot -> Window]
  BY Slots DEF Slot, Tables
<1>2. PICK m : m = [w.tab EXCEPT ![wid] = w.tab[w.n - 1]]
  OBVIOUS
<1>3. m = Moved(w, wid)
  BY <1>2 DEF Moved
<1>4. /\ \A s \in Slot : From(w, wid, s) \in Slot
      /\ m \in [Slot -> Window] /\ \A s \in Slot : m[s] = w.tab[From(w, wid, s)]
  BY <1>1, <1>2 DEF From
<1> DEFINE R(x) == Renamed(x, w.n - 1, wid)
<1>5. \A x \in Slot \cup {Null} : R(x) \in Slot \cup {Null}
  BY Slots DEF Renamed
<1> HIDE DEF R
<1>6. PICK tab : tab = [s \in Slot |-> IF s \in Used(w.n) THEN [m[s] EXCEPT !.next = R(@)] ELSE m[s]]
  OBVIOUS
<1>7. ASSUME NEW s \in Slot
      PROVE  /\ tab[s] \in Window /\ tab[s].id = m[s].id /\ tab[s].type = m[s].type
             /\ s \in Used(w.n) => tab[s].next = R(m[s].next)
  <2>1. m[s] \in Window /\ m[s].next \in Slot \cup {Null}
    BY <1>4 DEF Window
  <2>2. CASE s \in Used(w.n)
    <3>1. tab[s] = [m[s] EXCEPT !.next = R(m[s].next)]
      BY <1>6, <2>2
    <3>2. QED
      BY <1>5, <2>1, <3>1, Relinked
  <2>3. CASE s \notin Used(w.n)
    BY <1>6, <2>1, <2>3
  <2>4. QED
    BY <2>2, <2>3
<1>8. tab \in [Slot -> Window]
  <2>1. tab = [s \in Slot |-> tab[s]]
    BY <1>6
  <2>2. QED
    BY <1>7, <2>1
<1>9. NewTop(w, wid) \in Slot \cup {Null}
  <2>1. w.tab[wid].next \in Slot \cup {Null}
    BY <1>1 DEF Window
  <2>2. QED
    BY <1>1, <2>1 DEF NewTop
<1>10. PICK u : u = [tab |-> tab, n |-> w.n - 1, top |-> NewTop(w, wid)]
  OBVIOUS
<1>11. u = Reclaim(w, wid)
  BY <1>3, <1>6, <1>10, Zenon DEF Reclaim, R
<1>12. u \in Tables /\ u.tab = tab /\ u.n = w.n - 1 /\ u.top = NewTop(w, wid)
  BY <1>1, <1>8, <1>9, <1>10 DEF Tables
<1>13. \A s \in Slot : /\ u.tab[s].id = w.tab[From(w, wid, s)].id
                       /\ u.tab[s].type = w.tab[From(w, wid, s)].type
  BY <1>4, <1>7, <1>12
<1>14. \A s \in Used(w.n) : u.tab[s].next = Renamed(w.tab[From(w, wid, s)].next, w.n - 1, wid)
  <2>1. \A s \in Used(w.n) : s \in Slot
    BY <1>1, Slots DEF Used
  <2>2. QED
    BY <1>4, <1>7, <1>12, <2>1 DEF R
<1>15. QED
  BY <1>4, <1>11, <1>12, <1>13, <1>14, Zenon DEF OneLess

\* u has one window more than w, in slot s and in front.
OneMore(u, w, s, id, type) ==
    /\ u \in Tables /\ u.n = w.n + 1 /\ u.top = s
    /\ u.tab[s].id = id /\ u.tab[s].type = type /\ u.tab[s].next = w.top
    /\ \A t \in Slot : t # s => u.tab[t] = w.tab[t]

\* A new window is in front of the others, which stay as they are.
LEMMA LinkedIs ==
    ASSUME NEW w \in Tables, NEW s \in Slot, NEW id \in Id \cup {0}, NEW type \in {WINSHELL, WINCONSOLE, WINLOGIN}
    PROVE  OneMore(Linked(w, s, id, type), w, s, id, type)
<1>1. PICK v : v = [id |-> id, type |-> type, next |-> w.top]
  OBVIOUS
<1>2. v \in Window /\ v.id = id /\ v.type = type /\ v.next = w.top
  BY <1>1 DEF Tables, Window
<1>3. PICK tab : tab = [w.tab EXCEPT ![s] = v]
  OBVIOUS
<1>4. tab \in [Slot -> Window] /\ tab[s] = v /\ \A t \in Slot : t # s => tab[t] = w.tab[t]
  BY <1>2, <1>3 DEF Tables
<1>5. PICK u : u = [tab |-> tab, n |-> w.n + 1, top |-> s]
  OBVIOUS
<1>6. u = Linked(w, s, id, type)
  BY <1>1, <1>3, <1>5, Zenon DEF Linked
<1>7. u \in Tables /\ u.tab = tab /\ u.n = w.n + 1 /\ u.top = s
  BY <1>4, <1>5 DEF Tables
<1>8. QED
  BY <1>2, <1>4, <1>6, <1>7 DEF OneMore

\* A window brought to the front changes places in the chain and nothing else.
LEMMA ToppedIs ==
    ASSUME NEW w \in Tables, NEW s \in Slot
    PROVE  LET u == Topped(w, s)
           IN  /\ u \in Tables /\ SameWindows(u, w) /\ u.top = s
               /\ s = w.top => u = w
               /\ s # w.top => \A t \in Slot : u.tab[t].next =
                     IF t = s THEN w.top
                     ELSE IF t \in Before(w, s) THEN w.tab[s].next ELSE w.tab[t].next
<1>1. CASE s = w.top
  <2>1. Topped(w, s) = w
    BY <1>1 DEF Topped
  <2>2. QED
    BY <1>1, <2>1 DEF SameWindows
<1>2. CASE s # w.top
  <2>1. PICK v : v = Unlink(w, s)
    OBVIOUS
  <2>2. /\ v \in Tables /\ SameWindows(v, w)
        /\ \A t \in Slot : v.tab[t].next = IF t \in Before(w, s) THEN w.tab[s].next ELSE w.tab[t].next
    BY <2>1, UnlinkIs
  <2>3. PICK x : x = [v.tab[s] EXCEPT !.next = w.top]
    OBVIOUS
  <2>4. v.tab[s] \in Window /\ w.top \in Slot \cup {Null}
    BY <2>2 DEF Tables
  <2>5. x \in Window /\ x.next = w.top /\ x.id = v.tab[s].id /\ x.type = v.tab[s].type
    BY <2>3, <2>4, Relinked
  <2>6. PICK tab : tab = [v.tab EXCEPT ![s] = x]
    OBVIOUS
  <2>7. tab \in [Slot -> Window] /\ tab[s] = x /\ \A t \in Slot : t # s => tab[t] = v.tab[t]
    BY <2>2, <2>5, <2>6 DEF Tables
  <2>8. PICK u : u = [tab |-> tab, n |-> w.n, top |-> s]
    OBVIOUS
  <2>9. u = Topped(w, s)
    <3>1. [Unlink(w, s).tab EXCEPT ![s] = [@ EXCEPT !.next = w.top]] = tab
      BY <2>1, <2>2, <2>3, <2>6 DEF Tables
    <3>2. QED
      BY <1>2, <2>8, <3>1, Zenon DEF Topped
  <2>10. u \in Tables /\ u.tab = tab /\ u.n = w.n /\ u.top = s
    BY <2>7, <2>8 DEF Tables
  <2>11. SameWindows(u, w)
    BY <2>2, <2>5, <2>7, <2>10 DEF SameWindows
  <2>12. \A t \in Slot : u.tab[t].next = IF t = s THEN w.top
                     ELSE IF t \in Before(w, s) THEN w.tab[s].next ELSE w.tab[t].next
    BY <2>2, <2>5, <2>7, <2>10
  <2>13. QED
    BY <1>2, <2>9, <2>10, <2>11, <2>12
<1>3. QED
  BY <1>1, <1>2

-----------------------------------------------------------------------------
\* What they do to the chain

\* Walking along a chain in order meets the windows in that order, then Null.
LEMMA ChainIs ==
    ASSUME NEW w \in Tables, w.n <= MaxCreated, NEW p, Follows(w, p, Null)
    PROVE  (\A k \in Used(w.n) : Chain(w)[k] = p[k]) /\ Chain(w)[w.n] = Null
<1> DEFINE M == MaxCreated
           V == Slot \cup {Null}
           Go(v) == IF v = Null THEN Null ELSE w.tab[v].next
           step == [k \in 1 .. M |-> [v \in V |-> Go(v)]]
           Body(f) == [k \in 0 .. M |-> IF k = 0 THEN w.top
                         ELSE IF f[k - 1] = Null THEN Null ELSE w.tab[f[k - 1]].next]
           at == CHOOSE f : f = Body(f)
<1>1. M \in Nat /\ w.top \in V /\ \A v \in V : Go(v) \in V
  BY Slots DEF Tables, Window
<1> HIDE DEF M, V
<1>2. [v \in V |-> Go(v)] \in [V -> V] /\ \A v \in V : [x \in V |-> Go(x)][v] = Go(v)
  BY <1>1
<1>3. step \in [1 .. M -> [V -> V]] /\ \A k \in 1 .. M : step[k] = [v \in V |-> Go(v)]
  BY <1>2, Zenon
<1> HIDE DEF step
<1>4. PICK f \in [0 .. M -> V] : f[0] = w.top /\ \A k \in 1 .. M : f[k] = step[k][f[k - 1]]
  <2>1. Recursive(M, V)
    BY <1>1, RecursionIs
  <2>2. QED
    BY <1>1, <1>3, <2>1, Zenon DEF Recursive
<1>5. \A k \in 1 .. M : k # 0 /\ k - 1 \in 0 .. M
  BY <1>1
<1>6. \A k \in 1 .. M : f[k] = Go(f[k - 1])
  BY <1>2, <1>3, <1>4, <1>5
<1>7. f = Body(f)
  <2>1. \A k \in 0 .. M : k # 0 => k \in 1 .. M
    BY <1>1
  <2>2. \A k \in 0 .. M : f[k] = IF k = 0 THEN w.top
                         ELSE IF f[k - 1] = Null THEN Null ELSE w.tab[f[k - 1]].next
    BY <1>4, <1>6, <2>1
  <2>3. QED
    BY <1>4, <2>2
<1>8. at = Body(at)
  <2>1. \E h : h = Body(h)
    BY <1>7, Zenon
  <2> HIDE DEF Body
  <2>2. QED
    BY <2>1, Zenon
<1>9. Chain(w) = at
  BY Zenon DEF Chain, M
<1> HIDE DEF at
<1>10. PICK c : c = at
  OBVIOUS
<1>11. \A k \in 0 .. M : c[k] = IF k = 0 THEN w.top
                         ELSE IF c[k - 1] = Null THEN Null ELSE w.tab[c[k - 1]].next
  <2>1. c = Body(c)
    BY <1>8, <1>10, Zenon
  <2>2. QED
    BY <2>1
<1>12. w.n \in Nat /\ w.n <= M
  BY DEF Tables, M
<1> DEFINE On(k) == IF k = w.n THEN Null ELSE p[k]
           S == {k \in 0 .. w.n : c[k] = On(k)}
<1>13. /\ w.top = On(0)
       /\ \A k \in Used(w.n) : p[k] # Null /\ w.tab[p[k]].next = On(k + 1)
  <2>1. w.top = On(0)
    BY <1>12 DEF Follows
  <2>2. \A k \in Used(w.n) : p[k] \in Slot /\ p[k] # Null
    <3>1. Used(w.n) \subseteq Slot
      BY <1>12, Slots DEF M
    <3>2. \A k \in Used(w.n) : p[k] \in Used(w.n)
      BY DEF Follows, IsOrder
    <3>3. QED
      BY <3>1, <3>2, Slots
  <2>3. \A k \in Used(w.n) : k + 1 # w.n => k + 1 \in Used(w.n)
    BY <1>12 DEF Used
  <2>4. \A k \in Used(w.n) : w.tab[p[k]].next = On(k + 1)
    BY <2>2, <2>3 DEF Follows, Succ
  <2>5. QED
    BY <2>1, <2>2, <2>4
<1>14. 0 \in S
  BY <1>1, <1>11, <1>12, <1>13
<1>15. ASSUME NEW k \in 1 .. w.n, k - 1 \in S PROVE k \in S
  <2>1. k - 1 \in Used(w.n) /\ k - 1 # w.n /\ (k - 1) + 1 = k /\ k \in 0 .. M /\ k # 0
    BY <1>1, <1>12 DEF Used
  <2>2. c[k - 1] = p[k - 1]
    BY <1>15, <2>1
  <2>3. c[k] = On(k)
    BY <1>11, <1>13, <2>1, <2>2
  <2>4. QED
    BY <2>3
<1>16. \A k \in 0 .. w.n : c[k] = On(k)
  <2> HIDE DEF S
  <2>1. \A k \in 0 .. w.n : k \in S
    BY <1>12, <1>14, <1>15, CountUp, Zenon
  <2>2. QED
    BY <2>1 DEF S
<1>17. \A k \in Used(w.n) : k \in 0 .. w.n /\ k # w.n
  BY <1>12 DEF Used
<1>18. w.n \in 0 .. w.n
  BY <1>12
<1>19. QED
  BY <1>9, <1>10, <1>16, <1>17, <1>18

\* Such a chain is well formed, and before a window is the one that leads to it.
LEMMA WellFormedIs ==
    ASSUME NEW w \in Tables, w.n <= MaxCreated, NEW p, Follows(w, p, Null)
    PROVE  /\ WellFormed(w) /\ ~Broken(w)
           /\ \A j \in Used(w.n) : Before(w, p[j]) = IF j = 0 THEN {} ELSE {p[j - 1]}
<1>1. w.n \in Nat /\ Used(w.n) \subseteq Slot
  BY Slots DEF Tables
<1>2. PICK c : c = Chain(w)
  OBVIOUS
<1>3. (\A k \in Used(w.n) : c[k] = p[k]) /\ c[w.n] = Null
  BY <1>2, ChainIs
<1>4. IsOrder(p, w.n)
  BY DEF Follows
<1>5. WellFormed(w)
  <2>1. {c[k] : k \in Used(w.n)} = Used(w.n)
    BY <1>3, <1>4 DEF IsOrder
  <2>2. QED
    BY <1>2, <1>3, <2>1 DEF WellFormed
<1>6. ~Broken(w)
  BY <1>1, <1>2, <1>3, <1>4, Slots DEF Broken, IsOrder
<1>7. ASSUME NEW j \in Used(w.n)
      PROVE  Before(w, p[j]) = IF j = 0 THEN {} ELSE {p[j - 1]}
  <2>1. \A k \in 1 .. w.n - 1 : k \in Used(w.n) /\ k - 1 \in Used(w.n)
    BY <1>1 DEF Used
  <2>2. \A k \in 1 .. w.n - 1 : c[k] = p[j] <=> k = j
    BY <1>3, <1>4, <2>1 DEF IsOrder
  <2>3. Before(w, p[j]) = {c[k - 1] : k \in {i \in 1 .. w.n - 1 : c[i] = p[j]}}
    BY <1>2 DEF Before
  <2>4. CASE j = 0
    <3>1. {i \in 1 .. w.n - 1 : c[i] = p[j]} = {}
      BY <2>2, <2>4
    <3>2. QED
      BY <2>3, <2>4, <3>1
  <2>5. CASE j # 0
    <3>1. j \in 1 .. w.n - 1
      BY <1>1, <2>5 DEF Used
    <3>2. {i \in 1 .. w.n - 1 : c[i] = p[j]} = {j}
      BY <2>2, <3>1
    <3>3. c[j - 1] = p[j - 1]
      BY <1>3, <2>1, <3>1
    <3>4. QED
      BY <2>3, <2>5, <3>2, <3>3
  <2>6. QED
    BY <2>4, <2>5
<1>8. QED
  BY <1>5, <1>6, <1>7

\* Unlinking leads the chain past the window and leaves the others in it.
LEMMA UnlinkChain ==
    ASSUME NEW w \in Tables, w.n <= MaxCreated, InChain(w, Null), NEW wid \in Used(w.n)
    PROVE  InChain(Unlink(w, wid), wid)
<1>1. PICK p : Follows(w, p, Null)
  BY DEF InChain
<1>2. PICK n : n = w.n
  OBVIOUS
<1>3. n \in Nat /\ Used(n) \subseteq Slot /\ wid \in Slot /\ Null \notin Slot
  BY <1>2, Slots DEF Tables
<1>4. IsOrder(p, n) /\ w.top = (IF n = 0 THEN Null ELSE p[0])
  BY <1>1, <1>2 DEF Follows
<1>5. PICK j \in Used(n) : p[j] = wid
  BY <1>2, <1>4 DEF IsOrder
<1>6. Before(w, wid) = IF j = 0 THEN {} ELSE {p[j - 1]}
  BY <1>1, <1>2, <1>5, WellFormedIs
<1>7. \A k \in Used(n) : k + 1 # n => k + 1 \in Used(n)
  BY <1>3 DEF Used
<1>8. \A k \in Used(n) : p[k] \in Slot /\ p[k] # Null
  BY <1>3, <1>4 DEF IsOrder
<1>9. \A k \in Used(n) : w.tab[p[k]].next = Succ(p, n, k)
  BY <1>1, <1>2, <1>7, <1>8 DEF Follows
<1>10. PICK u : u = Unlink(w, wid)
  OBVIOUS
<1>11. /\ u.n = n /\ u.top = w.top
       /\ \A s \in Slot : u.tab[s].next = IF s \in Before(w, wid) THEN w.tab[wid].next ELSE w.tab[s].next
  BY <1>2, <1>3, <1>10, UnlinkIs DEF SameWindows
<1>12. ASSUME NEW k \in Used(n)
       PROVE  u.tab[p[k]].next = IF k + 1 # n /\ p[k + 1] = wid THEN Succ(p, n, k + 1) ELSE Succ(p, n, k)
  <2>1. CASE k + 1 # n /\ p[k + 1] = wid
    <3>1. k + 1 \in Used(n) /\ k + 1 = j /\ j # 0 /\ j - 1 = k
      BY <1>3, <1>4, <1>5, <1>7, <2>1 DEF IsOrder, Used
    <3>2. u.tab[p[k]].next = w.tab[wid].next
      BY <1>6, <1>8, <1>11, <3>1
    <3>3. QED
      BY <1>5, <1>9, <2>1, <3>1, <3>2
  <2>2. CASE ~(k + 1 # n /\ p[k + 1] = wid)
    <3>1. p[k] \notin Before(w, wid)
      <4> SUFFICES ASSUME j # 0, p[k] = p[j - 1] PROVE FALSE
        BY <1>6
      <4>1. j - 1 \in Used(n) /\ (j - 1) + 1 = j /\ j # n
        BY <1>3 DEF Used
      <4>2. k = j - 1
        BY <1>4, <4>1 DEF IsOrder
      <4>3. QED
        BY <1>5, <2>2, <4>1, <4>2
    <3>2. QED
      BY <1>8, <1>9, <1>11, <2>2, <3>1
  <2>3. QED
    BY <2>1, <2>2
<1>13. Follows(u, p, wid)
  BY <1>4, <1>11, <1>12 DEF Follows
<1>14. p \in [Used(n) -> Used(n)]
  BY <1>4 DEF IsOrder
<1>15. QED
  BY <1>10, <1>11, <1>13, <1>14 DEF InChain

\* A window linked in front is in the chain, before all others.
LEMMA LinkedChain ==
    ASSUME NEW w \in Tables, w.n < MaxCreated, InChain(w, Null),
           NEW id \in Id \cup {0}, NEW type \in {WINSHELL, WINCONSOLE, WINLOGIN}
    PROVE  InChain(Linked(w, w.n, id, type), Null)
<1>1. PICK p : Follows(w, p, Null)
  BY DEF InChain
<1>2. PICK n : n = w.n
  OBVIOUS
<1>3. n \in Nat /\ n \in Slot /\ n + 1 \in Nat /\ Used(n) \subseteq Slot /\ Used(n + 1) \subseteq Slot /\ Null \notin Slot
  BY <1>2, Slots DEF Tables, Slot, Used
<1>4. IsOrder(p, n) /\ w.top = (IF n = 0 THEN Null ELSE p[0])
  BY <1>1, <1>2 DEF Follows
<1>5. \A k \in Used(n) : k + 1 # n => k + 1 \in Used(n)
  BY <1>3 DEF Used
<1>6. \A k \in Used(n) : p[k] \in Used(n) /\ p[k] \in Slot /\ p[k] # Null /\ p[k] # n
  <2>1. \A k \in Used(n) : p[k] \in Used(n)
    BY <1>4 DEF IsOrder
  <2>2. \A s \in Used(n) : s \in Slot /\ s # Null
    BY <1>3
  <2>3. n \notin Used(n)
    BY <1>3 DEF Used
  <2>4. QED
    BY <2>1, <2>2, <2>3
<1>7. \A k \in Used(n) : w.tab[p[k]].next = Succ(p, n, k)
  BY <1>1, <1>2, <1>5, <1>6 DEF Follows
<1>8. PICK u : u = Linked(w, n, id, type)
  OBVIOUS
<1>9. /\ u.n = n + 1 /\ u.top = n /\ u.tab[n].next = w.top
      /\ \A t \in Slot : t # n => u.tab[t] = w.tab[t]
  <2>1. OneMore(u, w, n, id, type)
    BY <1>3, <1>8, LinkedIs
  <2>2. QED
    BY <1>2, <2>1 DEF OneMore
<1>10. PICK q : q = [k \in Used(n + 1) |-> IF k = 0 THEN n ELSE p[k - 1]]
  OBVIOUS
<1>11. \A k \in Used(n + 1) : k # 0 => k - 1 \in Used(n)
  BY <1>3 DEF Used
<1>12. 0 \in Used(n + 1) /\ n \in Used(n + 1) /\ Used(n) \subseteq Used(n + 1)
       /\ \A k \in Used(n) : k + 1 \in Used(n + 1) /\ k + 1 # 0 /\ (k + 1) - 1 = k
  BY <1>3 DEF Used
<1>13. /\ q[0] = n /\ \A k \in Used(n + 1) : k # 0 => q[k] = p[k - 1]
       /\ \A k \in Used(n) : q[k + 1] = p[k]
  BY <1>10, <1>12
<1>14. IsOrder(q, n + 1)
  <2>1. q \in [Used(n + 1) -> Used(n + 1)]
    BY <1>6, <1>10, <1>11, <1>12
  <2>2. ASSUME NEW i \in Used(n + 1), NEW k \in Used(n + 1), q[i] = q[k] PROVE i = k
    <3>1. CASE i = 0 \/ k = 0
      BY <1>6, <1>11, <1>13, <2>2, <3>1
    <3>2. CASE i # 0 /\ k # 0
      <4>1. i - 1 = k - 1
        BY <1>4, <1>11, <1>13, <2>2, <3>2 DEF IsOrder
      <4>2. QED
        BY <1>3, <4>1 DEF Used
    <3>3. QED
      BY <3>1, <3>2
  <2>3. ASSUME NEW s \in Used(n + 1) PROVE \E k \in Used(n + 1) : q[k] = s
    <3>1. CASE s = n
      BY <1>12, <1>13, <3>1
    <3>2. CASE s # n
      <4>1. s \in Used(n)
        BY <1>3, <3>2 DEF Used
      <4>2. PICK k \in Used(n) : p[k] = s
        BY <1>4, <4>1 DEF IsOrder
      <4>3. QED
        BY <1>12, <1>13, <4>2
    <3>3. QED
      BY <3>1, <3>2
  <2>4. QED
    BY <2>1, <2>2, <2>3 DEF IsOrder
<1>15. u.top = IF n + 1 = 0 THEN Null ELSE q[0]
  BY <1>3, <1>9, <1>13
<1>16. ASSUME NEW k \in Used(n + 1)
       PROVE  u.tab[q[k]].next = Succ(q, n + 1, k)
  <2>1. CASE k = 0
    <3>1. u.tab[q[k]].next = w.top
      BY <1>9, <1>13, <2>1
    <3>2. CASE n = 0
      BY <1>4, <2>1, <3>1, <3>2 DEF Succ
    <3>3. CASE n # 0
      <4>1. 0 \in Used(n) /\ 0 + 1 = 1 /\ n + 1 # 1
        BY <1>3, <3>3 DEF Used
      <4>2. q[1] = p[0]
        BY <1>13, <4>1
      <4>3. QED
        BY <1>4, <2>1, <3>1, <3>3, <4>1, <4>2 DEF Succ
    <3>4. QED
      BY <3>2, <3>3
  <2>2. CASE k # 0
    <3>1. k - 1 \in Used(n) /\ q[k] = p[k - 1] /\ k \in Nat
      BY <1>3, <1>11, <1>13, <2>2 DEF Used
    <3>2. u.tab[q[k]].next = Succ(p, n, k - 1)
      BY <1>6, <1>7, <1>9, <3>1
    <3>3. CASE k = n
      BY <1>3, <3>1, <3>2, <3>3 DEF Succ
    <3>4. CASE k # n
      <4>1. k \in Used(n) /\ (k - 1) + 1 = k /\ k + 1 # n + 1
        BY <1>3, <3>1, <3>4 DEF Used
      <4>2. q[k + 1] = p[k]
        BY <1>13, <4>1
      <4>3. QED
        BY <3>2, <3>4, <4>1, <4>2 DEF Succ
    <3>5. QED
      BY <3>3, <3>4
  <2>3. QED
    BY <2>1, <2>2
<1>17. \A k \in Used(n + 1) : k + 1 # n + 1 => q[k + 1] # Null
  <2>1. \A k \in Used(n + 1) : k + 1 # n + 1 => k \in Used(n)
    BY <1>3 DEF Used
  <2>2. QED
    BY <1>6, <1>13, <2>1
<1>18. Follows(u, q, Null)
  BY <1>9, <1>14, <1>15, <1>16, <1>17 DEF Follows
<1>19. q \in [Used(n + 1) -> Used(n + 1)]
  BY <1>14 DEF IsOrder
<1>20. QED
  BY <1>2, <1>8, <1>9, <1>18, <1>19 DEF InChain

\* A window brought to the front is taken out of the chain and put before it.
LEMMA ToppedChain ==
    ASSUME NEW w \in Tables, w.n <= MaxCreated, InChain(w, Null), NEW s \in Used(w.n)
    PROVE  InChain(Topped(w, s), Null)
<1>1. PICK p : Follows(w, p, Null)
  BY DEF InChain
<1>2. PICK n : n = w.n
  OBVIOUS
<1>3. n \in Nat /\ Used(n) \subseteq Slot /\ s \in Slot /\ Null \notin Slot /\ s \in Used(n) /\ n # 0
  BY <1>2, Slots DEF Tables, Used
<1>4. IsOrder(p, n) /\ w.top = p[0]
  BY <1>1, <1>2, <1>3 DEF Follows
<1>5. PICK j \in Used(n) : p[j] = s
  BY <1>3, <1>4 DEF IsOrder
<1>6. \A k \in Used(n) : k \in Nat /\ k + 1 # 0 /\ (k # 0 => k - 1 \in Used(n)) /\ (k + 1 # n => k + 1 \in Used(n))
  BY <1>3 DEF Used
<1>7. \A k \in Used(n) : p[k] \in Used(n) /\ p[k] \in Slot /\ p[k] # Null
  BY <1>3, <1>4 DEF IsOrder
<1>8. \A k \in Used(n) : w.tab[p[k]].next = Succ(p, n, k)
  BY <1>1, <1>2, <1>6, <1>7 DEF Follows
<1>9. CASE j = 0
  <2>1. Topped(w, s) = w
    BY <1>4, <1>5, <1>9, <1>3, ToppedIs
  <2>2. QED
    BY <2>1
<1>10. CASE j # 0
  <2>1. s # w.top
    BY <1>3, <1>4, <1>5, <1>6, <1>10 DEF IsOrder, Used
  <2>2. Before(w, s) = {p[j - 1]}
    <3>1. Before(w, p[j]) = IF j = 0 THEN {} ELSE {p[j - 1]}
      BY <1>1, <1>2, WellFormedIs
    <3>2. QED
      BY <1>5, <1>10, <3>1
  <2>3. PICK u : u = Topped(w, s)
    OBVIOUS
  <2>4. u.n = n /\ u.top = s
    BY <1>2, <1>3, <2>3, ToppedIs DEF SameWindows
  <2>5. \A t \in Slot : u.tab[t].next = IF t = s THEN p[0]
                        ELSE IF t = p[j - 1] THEN w.tab[s].next ELSE w.tab[t].next
    BY <1>3, <1>4, <2>1, <2>2, <2>3, ToppedIs
  <2>6. PICK q : q = [k \in Used(n) |-> IF k = 0 THEN s ELSE IF k <= j THEN p[k - 1] ELSE p[k]]
    OBVIOUS
  <2>7. 0 \in Used(n) /\ j \in Nat /\ j - 1 \in Used(n)
    BY <1>3, <1>6, <1>10 DEF Used
  <2>8. /\ q[0] = s
        /\ \A k \in Used(n) : k # 0 /\ k <= j => q[k] = p[k - 1]
        /\ \A k \in Used(n) : k > j => q[k] = p[k]
    BY <1>6, <2>6, <2>7
  <2> DEFINE place(k) == IF k = 0 THEN j ELSE IF k <= j THEN k - 1 ELSE k
  <2>9. \A k \in Used(n) : place(k) \in Used(n) /\ q[k] = p[place(k)]
    BY <1>5, <1>6, <2>7, <2>8
  <2>10. \A i, k \in Used(n) : place(i) = place(k) => i = k
    BY <1>6, <2>7
  <2>11. \A k \in Used(n) : \E i \in Used(n) : place(i) = k
    <3> SUFFICES ASSUME NEW k \in Used(n) PROVE \E i \in Used(n) : place(i) = k
      OBVIOUS
    <3>1. CASE k = j
      BY <2>7, <3>1
    <3>2. CASE k < j
      <4>1. k + 1 \in Used(n) /\ place(k + 1) = k
        BY <1>3, <1>6, <2>7, <3>2 DEF Used
      <4>2. QED
        BY <4>1
    <3>3. CASE k > j
      BY <1>6, <2>7, <3>3
    <3>4. QED
      BY <1>6, <2>7, <3>1, <3>2, <3>3
  <2>12. IsOrder(q, n)
    <3> HIDE DEF place
    <3>1. q \in [Used(n) -> Used(n)]
      <4>1. \A k \in Used(n) : q[k] \in Used(n)
        BY <1>7, <2>9
      <4>2. q = [k \in Used(n) |-> q[k]]
        BY <2>6
      <4>3. QED
        BY <4>1, <4>2
    <3>2. \A i, k \in Used(n) : q[i] = q[k] => i = k
      BY <1>4, <2>9, <2>10 DEF IsOrder
    <3>3. \A t \in Used(n) : \E k \in Used(n) : q[k] = t
      <4> SUFFICES ASSUME NEW t \in Used(n) PROVE \E k \in Used(n) : q[k] = t
        OBVIOUS
      <4>1. PICK k \in Used(n) : p[k] = t
        BY <1>4 DEF IsOrder
      <4>2. PICK i \in Used(n) : place(i) = k
        BY <2>11
      <4>3. QED
        BY <2>9, <4>1, <4>2
    <3>4. QED
      BY <3>1, <3>2, <3>3 DEF IsOrder
  <2>13. ASSUME NEW k \in Used(n)
         PROVE  u.tab[q[k]].next = Succ(q, n, k)
    <3>1. \A a, b \in Used(n) : p[a] = p[b] => a = b
      BY <1>4 DEF IsOrder
    <3>2. CASE k = 0
      <4>1. u.tab[q[k]].next = p[0]
        BY <1>3, <2>5, <2>8, <3>2
      <4>2. 1 \in Used(n) /\ 1 # n /\ 1 <= j
        BY <1>3, <1>6, <1>10, <2>7 DEF Used
      <4>3. q[1] = p[0]
        BY <2>8, <4>2
      <4>4. QED
        BY <3>2, <4>1, <4>2, <4>3 DEF Succ
    <3>3. CASE k # 0 /\ k < j
      <4>1. k - 1 \in Used(n) /\ q[k] = p[k - 1] /\ k - 1 # j /\ k - 1 # j - 1
        BY <1>6, <2>7, <2>8, <3>3
      <4>2. q[k] # s /\ q[k] # p[j - 1] /\ q[k] \in Slot
        BY <1>5, <1>7, <2>7, <3>1, <4>1
      <4>3. u.tab[q[k]].next = Succ(p, n, k - 1)
        BY <1>8, <2>5, <4>1, <4>2
      <4>4. k + 1 \in Used(n) /\ k + 1 # n /\ k + 1 <= j /\ k + 1 # 0 /\ (k - 1) + 1 = k /\ k # n /\ (k + 1) - 1 = k
        BY <1>3, <1>6, <2>7, <3>3 DEF Used
      <4>5. q[k + 1] = p[k]
        BY <2>8, <4>4
      <4>6. QED
        BY <4>3, <4>4, <4>5 DEF Succ
    <3>4. CASE k # 0 /\ k = j
      <4>1. q[k] = p[j - 1] /\ p[j - 1] # s /\ p[j - 1] \in Slot
        BY <1>5, <1>6, <1>7, <2>7, <2>8, <3>1, <3>4
      <4>2. u.tab[q[k]].next = Succ(p, n, j)
        BY <1>5, <1>8, <2>5, <4>1
      <4>3. k + 1 # n => k + 1 \in Used(n) /\ k + 1 > j
        BY <1>6, <3>4
      <4>4. k + 1 # n => q[k + 1] = p[k + 1]
        BY <2>8, <4>3
      <4>5. QED
        BY <3>4, <4>2, <4>4 DEF Succ
    <3>5. CASE k > j
      <4>1. q[k] = p[k] /\ k # j /\ k # j - 1
        BY <1>6, <2>7, <2>8, <3>5
      <4>2. q[k] # s /\ q[k] # p[j - 1] /\ q[k] \in Slot
        BY <1>5, <1>7, <2>7, <3>1, <4>1
      <4>3. u.tab[q[k]].next = Succ(p, n, k)
        BY <1>8, <2>5, <4>1, <4>2
      <4>4. k + 1 # n => k + 1 \in Used(n) /\ k + 1 > j
        BY <1>6, <2>7, <3>5
      <4>5. k + 1 # n => q[k + 1] = p[k + 1]
        BY <2>8, <4>4
      <4>6. QED
        BY <4>3, <4>5 DEF Succ
    <3>6. QED
      <4>1. k = 0 \/ (k # 0 /\ k < j) \/ (k # 0 /\ k = j) \/ k > j
        BY <1>6, <2>7
      <4>2. QED
        BY <3>2, <3>3, <3>4, <3>5, <4>1
  <2>14. \A k \in Used(n) : k + 1 # n => q[k + 1] # Null
    BY <1>3, <1>6, <2>12 DEF IsOrder
  <2>15. u.top = IF n = 0 THEN Null ELSE q[0]
    BY <1>3, <2>4, <2>8
  <2>16. Follows(u, q, Null)
    BY <2>4, <2>12, <2>13, <2>14, <2>15 DEF Follows
  <2>17. q \in [Used(n) -> Used(n)]
    BY <2>12 DEF IsOrder
  <2>18. QED
    BY <2>3, <2>4, <2>16, <2>17 DEF InChain
<1>11. QED
  BY <1>9, <1>10

\* The window that was unlinked goes, and the last takes its slot: the others
\* stay in the chain, in their order, if nothing has to lead to a slot in the
\* middle.
LEMMA ReclaimChain ==
    ASSUME NEW w \in Tables, w.n <= MaxCreated, NEW wid \in Used(w.n), InChain(w, wid),
           wid = 0 \/ wid = w.n - 1 \/ w.top = w.n - 1
    PROVE  InChain(Reclaim(w, wid), Null)
<1>1. PICK p : Follows(w, p, wid)
  BY DEF InChain
<1>2. PICK n : n = w.n
  OBVIOUS
<1> DEFINE m == n - 1
<1>3. /\ n \in Nat /\ n # 0 /\ m \in Nat /\ Used(n) \subseteq Slot /\ wid \in Slot /\ wid \in Used(n)
      /\ Null \notin Slot /\ m \in Used(n) /\ m \in Slot /\ 0 \in Used(n)
      /\ Used(m) \subseteq Used(n) /\ m \notin Used(m) /\ m + 1 = n
      /\ \A s \in Used(n) : s # m => s \in Used(m)
  <2>1. n \in Nat /\ n # 0 /\ Used(n) \subseteq Slot
    BY <1>2, Slots DEF Tables, Used
  <2>2. m \in Used(n) /\ m \in Nat /\ Used(m) \subseteq Used(n) /\ m \notin Used(m) /\ 0 \in Used(n) /\ m + 1 = n
        /\ \A s \in Used(n) : s # m => s \in Used(m)
    BY <2>1 DEF Used
  <2>3. QED
    BY <1>2, <2>1, <2>2, Slots
<1>4. IsOrder(p, n) /\ w.top = p[0]
  BY <1>1, <1>2, <1>3 DEF Follows
<1>5. PICK j \in Used(n) : p[j] = wid
  BY <1>3, <1>4 DEF IsOrder
<1>6. \A a, b \in Used(n) : p[a] = p[b] => a = b
  BY <1>4 DEF IsOrder
<1>7. \A k \in Used(n) : p[k] \in Used(n) /\ p[k] \in Slot /\ p[k] # Null
  BY <1>3, <1>4 DEF IsOrder
<1>8. \A k \in Used(n) : k \in Nat /\ (k + 1 # n => k + 1 \in Used(n))
  BY <1>3 DEF Used
<1>9. \A k \in Used(m) : k \in Nat /\ k \in Used(n) /\ k + 1 \in Used(n) /\ k + 1 # n /\ (k + 1 # m => k + 1 \in Used(m))
  BY <1>3 DEF Used
<1> HIDE DEF m
<1>10. PICK r : r = [k \in Used(m) |-> IF k < j THEN p[k] ELSE p[k + 1]]
  OBVIOUS
<1>11. \A k \in Used(m) : r[k] = IF k < j THEN p[k] ELSE p[k + 1]
  BY <1>10
\* r is p without wid.
<1>12. /\ \A k \in Used(m) : r[k] \in Used(n) /\ r[k] \in Slot /\ r[k] # Null /\ r[k] # wid
       /\ \A a, b \in Used(m) : r[a] = r[b] => a = b
       /\ \A s \in Used(n) : s # wid => \E k \in Used(m) : r[k] = s
  <2> DEFINE place(k) == IF k < j THEN k ELSE k + 1
  <2>1. \A k \in Used(m) : place(k) \in Used(n) /\ r[k] = p[place(k)]
    BY <1>9, <1>11
  <2>2. j \in Nat
    BY <1>8
  <2>3. \A k \in Used(m) : place(k) # j
    BY <1>9, <2>2
  <2>4. \A a, b \in Used(m) : place(a) = place(b) => a = b
    BY <1>9, <2>2
  <2>5. \A i \in Used(n) : i # j => \E k \in Used(m) : place(k) = i
    <3> SUFFICES ASSUME NEW i \in Used(n), i # j PROVE \E k \in Used(m) : place(k) = i
      OBVIOUS
    <3>1. CASE i < j
      <4>1. i \in Used(m)
        BY <1>3, <1>8, <2>2, <3>1 DEF Used, m
      <4>2. QED
        BY <3>1, <4>1
    <3>2. CASE i > j
      <4>1. i - 1 \in Used(m) /\ ~(i - 1 < j) /\ (i - 1) + 1 = i
        BY <1>3, <1>8, <2>2, <3>2 DEF Used, m
      <4>2. QED
        BY <4>1
    <3>3. QED
      BY <1>8, <2>2, <3>1, <3>2
  <2> HIDE DEF place
  <2>6. \A k \in Used(m) : r[k] \in Used(n) /\ r[k] \in Slot /\ r[k] # Null /\ r[k] # wid
    BY <1>5, <1>6, <1>7, <2>1, <2>3
  <2>7. \A a, b \in Used(m) : r[a] = r[b] => a = b
    BY <1>6, <2>1, <2>4
  <2>8. ASSUME NEW s \in Used(n), s # wid PROVE \E k \in Used(m) : r[k] = s
    <3>1. PICK i \in Used(n) : p[i] = s
      BY <1>4 DEF IsOrder
    <3>2. PICK k \in Used(m) : place(k) = i
      BY <1>5, <2>5, <2>8, <3>1
    <3>3. QED
      BY <2>1, <3>1, <3>2
  <2>9. QED
    BY <2>6, <2>7, <2>8
\* And the chain goes along r.
<1>13. \A k \in Used(m) : w.tab[r[k]].next = Succ(r, m, k)
  <2> SUFFICES ASSUME NEW k \in Used(m) PROVE w.tab[r[k]].next = Succ(r, m, k)
    OBVIOUS
  <2>1. \A i \in Used(n) : w.tab[p[i]].next = IF i + 1 # n /\ p[i + 1] = wid THEN Succ(p, n, i + 1) ELSE Succ(p, n, i)
    BY <1>1, <1>2 DEF Follows
  <2>2. j \in Nat /\ k \in Nat /\ k \in Used(n) /\ k + 1 \in Used(n) /\ k + 1 # n /\ (k + 1 # m => k + 1 \in Used(m))
    BY <1>8, <1>9
  <2>3. k + 1 = m <=> (k + 1) + 1 = n
    BY <1>3, <2>2 DEF m
  <2>4. CASE k < j /\ k + 1 # j
    <3>1. w.tab[r[k]].next = p[k + 1]
      BY <1>5, <1>6, <1>11, <2>1, <2>2, <2>4 DEF Succ
    <3>2. k + 1 # m
      BY <1>3, <2>2, <2>4 DEF Used, m
    <3>3. r[k + 1] = p[k + 1]
      BY <1>11, <2>2, <2>4, <3>2
    <3>4. QED
      BY <3>1, <3>2, <3>3 DEF Succ
  <2>5. CASE k + 1 = j
    <3>1. w.tab[r[k]].next = Succ(p, n, k + 1)
      BY <1>5, <1>11, <2>1, <2>2, <2>5
    <3>2. k + 1 # m => r[k + 1] = p[(k + 1) + 1]
      BY <1>11, <2>2, <2>5
    <3>3. QED
      BY <2>3, <3>1, <3>2 DEF Succ
  <2>6. CASE ~(k < j)
    <3>1. (k + 1) + 1 # n => (k + 1) + 1 \in Used(n) /\ (k + 1) + 1 # j
      BY <1>8, <2>2, <2>6
    <3>2. w.tab[p[k + 1]].next = Succ(p, n, k + 1)
      BY <1>5, <1>6, <2>1, <2>2, <3>1
    <3>3. r[k] = p[k + 1] /\ (k + 1 # m => r[k + 1] = p[(k + 1) + 1])
      BY <1>11, <2>2, <2>6
    <3>4. QED
      BY <2>3, <3>2, <3>3 DEF Succ
  <2>7. QED
    BY <2>2, <2>4, <2>5, <2>6
\* The slots are renamed.
<1> DEFINE ren(s) == IF s = m THEN wid ELSE s
<1>14. \A s \in Used(n) : s # wid => ren(s) \in Used(m) /\ From(w, wid, ren(s)) = s
  BY <1>2, <1>3 DEF From, m
<1>15. \A s, t \in Used(n) : s # wid /\ t # wid /\ ren(s) = ren(t) => s = t
  OBVIOUS
<1>16. PICK q : q = [k \in Used(m) |-> ren(r[k])]
  OBVIOUS
<1>17. \A k \in Used(m) : q[k] = ren(r[k])
  BY <1>16
<1>18. PICK u : u = Reclaim(w, wid)
  OBVIOUS
<1>19. /\ u.n = m /\ u.top = NewTop(w, wid)
       /\ \A s \in Used(n) : u.tab[s].next = Renamed(w.tab[From(w, wid, s)].next, m, wid)
  <2>1. OneLess(u, w, wid)
    BY <1>2, <1>3, <1>18, ReclaimIs
  <2>2. QED
    BY <1>2, <1>3, <2>1 DEF OneLess, m
<1>20. IsOrder(q, m)
  <2>1. \A k \in Used(m) : q[k] \in Used(m)
    BY <1>12, <1>14, <1>17
  <2>2. q \in [Used(m) -> Used(m)]
    <3>1. q = [k \in Used(m) |-> q[k]]
      BY <1>16
    <3>2. QED
      BY <2>1, <3>1
  <2>3. \A a, b \in Used(m) : q[a] = q[b] => a = b
    BY <1>12, <1>15, <1>17
  <2>4. ASSUME NEW s \in Used(m) PROVE \E k \in Used(m) : q[k] = s
    <3>1. PICK t \in Used(n) : t # wid /\ ren(t) = s
      <4>1. CASE s = wid
        BY <1>3, <4>1
      <4>2. CASE s # wid
        BY <1>3, <4>2
      <4>3. QED
        BY <4>1, <4>2
    <3>2. PICK k \in Used(m) : r[k] = t
      BY <1>12, <3>1
    <3>3. QED
      BY <1>17, <3>1, <3>2
  <2>5. QED
    BY <2>2, <2>3, <2>4 DEF IsOrder
<1>21. u.top = IF m = 0 THEN Null ELSE q[0]
  <2>1. 0 \in Used(n) /\ j \in Nat
    BY <1>3, <1>8
  <2>2. m # 0 => 0 \in Used(m) /\ 1 \in Used(n) /\ 1 # n /\ 0 + 1 = 1
    BY <1>3 DEF Used, m
  <2>3. m = 0 => n = 1
    BY <1>3 DEF m
  <2>4. w.tab[p[0]].next = IF 0 + 1 # n /\ p[0 + 1] = wid THEN Succ(p, n, 0 + 1) ELSE Succ(p, n, 0)
    BY <1>1, <1>2, <2>1 DEF Follows
  <2>5. CASE m = 0
    <3>1. j = 0
      BY <1>8, <2>3, <2>5 DEF Used
    <3>2. w.tab[wid].next = Null
      <4>1. n = 1 /\ 0 + 1 = 1
        BY <2>3, <2>5
      <4>2. w.tab[p[0]].next = Succ(p, n, 0)
        BY <2>4, <4>1
      <4>3. QED
        BY <1>5, <3>1, <4>1, <4>2 DEF Succ
    <3>3. Null # w.n - 1 /\ w.top = wid
      BY <1>2, <1>3, <1>4, <1>5, <3>1 DEF m
    <3>4. QED
      BY <1>19, <2>5, <3>2, <3>3 DEF NewTop
  <2>6. CASE m # 0 /\ j = 0
    <3>1. p[1] # wid
      BY <1>5, <1>6, <2>1, <2>2, <2>6
    <3>2. w.tab[wid].next = p[1]
      BY <1>5, <2>2, <2>4, <2>6, <3>1 DEF Succ
    <3>3. r[0] = p[1]
      BY <1>11, <2>2, <2>6
    <3>4. NewTop(w, wid) = ren(p[1])
      BY <1>2, <1>4, <1>5, <2>6, <3>2 DEF NewTop, m
    <3>5. QED
      BY <1>17, <1>19, <2>2, <2>6, <3>3, <3>4
  <2>7. CASE m # 0 /\ j # 0
    <3>1. p[0] # wid
      BY <1>5, <1>6, <2>1, <2>7
    <3>2. r[0] = p[0]
      BY <1>11, <2>1, <2>2, <2>7
    <3>3. NewTop(w, wid) = ren(p[0])
      BY <1>2, <1>4, <3>1 DEF NewTop, m
    <3>4. QED
      BY <1>17, <1>19, <2>2, <2>7, <3>2, <3>3
  <2>8. QED
    BY <2>5, <2>6, <2>7
<1>22. ASSUME NEW k \in Used(m)
       PROVE  u.tab[q[k]].next = Succ(q, m, k)
  <2>1. r[k] \in Used(n) /\ r[k] # wid /\ q[k] = ren(r[k]) /\ q[k] \in Used(n)
    BY <1>3, <1>12, <1>14, <1>17
  <2>2. u.tab[q[k]].next = Renamed(Succ(r, m, k), m, wid)
    BY <1>13, <1>14, <1>19, <2>1
  <2>3. CASE k + 1 = m
    <3>1. Null # m
      BY <1>3
    <3>2. QED
      BY <2>2, <2>3, <3>1 DEF Succ, Renamed
  <2>4. CASE k + 1 # m
    <3>1. k + 1 \in Used(m) /\ k \in Nat
      BY <1>9, <2>4
    <3>2. u.tab[q[k]].next = Renamed(r[k + 1], m, wid) /\ Succ(q, m, k) = ren(r[k + 1])
      BY <1>17, <2>2, <2>4, <3>1 DEF Succ
    <3>3. r[k + 1] = m => wid = 0
      <4> SUFFICES ASSUME r[k + 1] = m, wid # 0 PROVE FALSE
        OBVIOUS
      <4>1. r[k + 1] # wid
        BY <1>12, <3>1
      <4>2. w.top = m
        BY <1>2, <4>1 DEF m
      <4>3. PICK i \in Used(n) : i # 0 /\ r[k + 1] = p[i]
        <5>1. k + 1 # 0 /\ (k + 1) + 1 # 0 /\ k + 1 \in Used(n) /\ (k + 1) + 1 \in Used(n)
          BY <1>9, <3>1
        <5>2. QED
          BY <1>11, <3>1, <5>1
      <4>4. QED
        BY <1>3, <1>4, <1>6, <4>2, <4>3
    <3>4. QED
      BY <3>2, <3>3 DEF Renamed
  <2>5. QED
    BY <2>3, <2>4
<1>23. \A k \in Used(m) : k + 1 # m => q[k + 1] # Null
  BY <1>3, <1>9, <1>20 DEF IsOrder
<1>24. Follows(u, q, Null)
  BY <1>19, <1>20, <1>21, <1>22, <1>23 DEF Follows
<1>25. q \in [Used(m) -> Used(m)]
  BY <1>20 DEF IsOrder
<1>26. QED
  BY <1>18, <1>19, <1>24, <1>25 DEF InChain

-----------------------------------------------------------------------------
\* What they do to the windows

\* The last window in the place of the one that goes.
LEMMA ReclaimWindows ==
    ASSUME NEW w \in Tables, w.n <= MaxCreated, NEW wid \in Used(w.n)
    PROVE  /\ \A C : OneToOne(w.tab, Used(w.n) \ {wid}, C) => OneToOne(Reclaim(w, wid).tab, Used(w.n - 1), C)
           /\ OneLoginIn(w) /\ w.tab[wid].type # WINLOGIN => OneLoginIn(Reclaim(w, wid))
           /\ OneLoginIn(w) /\ w.tab[wid].type = WINLOGIN =>
                 \A t \in Used(w.n - 1) : Reclaim(w, wid).tab[t].type # WINLOGIN
<1>1. PICK n : n = w.n
  OBVIOUS
<1>2. PICK u : u = Reclaim(w, wid)
  OBVIOUS
<1>3. n \in Nat /\ n # 0 /\ wid \in Used(n) /\ Used(n) \subseteq Slot /\ Used(n - 1) \subseteq Slot
  BY <1>1, Slots DEF Tables, Used
<1>4. OneLess(u, w, wid)
  BY <1>1, <1>2, <1>3, ReclaimIs
<1>5. PICK f : f = [s \in Used(n - 1) |-> From(w, wid, s)]
  OBVIOUS
<1>6. \A s \in Used(n - 1) : f[s] = IF s = wid THEN n - 1 ELSE s
  BY <1>1, <1>5 DEF From
<1>7. /\ u.n = n - 1
      /\ \A s \in Used(n - 1) : u.tab[s].id = w.tab[f[s]].id /\ u.tab[s].type = w.tab[f[s]].type
  BY <1>1, <1>3, <1>4, <1>5 DEF OneLess
<1>8. /\ \A s \in Used(n - 1) : f[s] \in Used(n) /\ f[s] # wid
      /\ \A s, t \in Used(n - 1) : f[s] = f[t] => s = t
      /\ \A t \in Used(n) : t # wid => \E s \in Used(n - 1) : f[s] = t
  <2>1. \A s \in Used(n - 1) : s \in Used(n) /\ s # n - 1 /\ n - 1 \in Used(n)
    BY <1>3 DEF Used
  <2>2. \A t \in Used(n) : t # n - 1 => t \in Used(n - 1)
    BY <1>3 DEF Used
  <2>3. ASSUME NEW t \in Used(n), t # wid PROVE \E s \in Used(n - 1) : f[s] = t
    <3>1. CASE t = n - 1
      <4>1. wid \in Used(n - 1)
        BY <1>3, <2>2, <2>3, <3>1
      <4>2. QED
        BY <1>6, <3>1, <4>1
    <3>2. CASE t # n - 1
      BY <1>6, <2>2, <2>3, <3>2
    <3>3. QED
      BY <3>1, <3>2
  <2>4. QED
    BY <1>6, <2>1, <2>3
<1>9. ASSUME NEW C, OneToOne(w.tab, Used(n) \ {wid}, C)
      PROVE  OneToOne(u.tab, Used(n - 1), C)
  <2>1. \A s \in Used(n - 1) : u.tab[s].id \in C
    BY <1>7, <1>8, <1>9 DEF OneToOne
  <2>2. ASSUME NEW i \in C PROVE \E s \in Used(n - 1) : u.tab[s].id = i
    <3>1. PICK t \in Used(n) \ {wid} : w.tab[t].id = i
      BY <1>9 DEF OneToOne
    <3>2. PICK s \in Used(n - 1) : f[s] = t
      BY <1>8, <3>1
    <3>3. QED
      BY <1>7, <3>1, <3>2
  <2>3. ASSUME NEW s \in Used(n - 1), NEW t \in Used(n - 1), u.tab[s].id = u.tab[t].id
        PROVE  s = t
    <3>1. f[s] \in Used(n) \ {wid} /\ f[t] \in Used(n) \ {wid} /\ w.tab[f[s]].id = w.tab[f[t]].id
      BY <1>7, <1>8, <2>3
    <3>2. f[s] = f[t]
      BY <1>9, <3>1 DEF OneToOne
    <3>3. QED
      BY <1>8, <3>2
  <2>4. QED
    BY <2>1, <2>2, <2>3 DEF OneToOne
<1>10. ASSUME OneLoginIn(w), w.tab[wid].type # WINLOGIN
       PROVE  OneLoginIn(u)
  <2>1. PICK s \in Used(n) : \A t \in Used(n) : w.tab[t].type = WINLOGIN <=> t = s
    BY <1>1, <1>10 DEF OneLoginIn
  <2>2. PICK v \in Used(n - 1) : f[v] = s
    BY <1>3, <1>8, <1>10, <2>1
  <2>3. \A t \in Used(n - 1) : u.tab[t].type = WINLOGIN <=> t = v
    BY <1>7, <1>8, <2>1, <2>2
  <2>4. QED
    BY <1>7, <2>2, <2>3 DEF OneLoginIn
<1>11. ASSUME OneLoginIn(w), w.tab[wid].type = WINLOGIN
       PROVE  \A t \in Used(n - 1) : u.tab[t].type # WINLOGIN
  BY <1>1, <1>3, <1>7, <1>8, <1>11 DEF OneLoginIn
<1>12. QED
  BY <1>1, <1>2, <1>9, <1>10, <1>11

\* A window more, whose child had none.
LEMMA LinkedWindows ==
    ASSUME NEW w \in Tables, w.n < MaxCreated, NEW id \in Id \cup {0},
           NEW type \in {WINSHELL, WINCONSOLE, WINLOGIN}
    PROVE  /\ \A C : OneToOne(w.tab, Used(w.n), C) /\ id \notin C =>
                 OneToOne(Linked(w, w.n, id, type).tab, Used(w.n + 1), C \cup {id})
           /\ type = WINLOGIN /\ (\A t \in Used(w.n) : w.tab[t].type # WINLOGIN) =>
                 OneLoginIn(Linked(w, w.n, id, type))
           /\ type # WINLOGIN /\ OneLoginIn(w) => OneLoginIn(Linked(w, w.n, id, type))
<1>1. PICK n : n = w.n
  OBVIOUS
<1>2. PICK u : u = Linked(w, n, id, type)
  OBVIOUS
<1>3. n \in Nat /\ n \in Slot /\ Used(n) \subseteq Slot
  BY <1>1, Slots DEF Tables, Used, Slot
<1>4. OneMore(u, w, n, id, type)
  BY <1>2, <1>3, LinkedIs
<1>5. n \in Used(n + 1) /\ \A s \in Used(n + 1) : s = n \/ (s # n /\ s \in Used(n))
  BY <1>3 DEF Used
<1>6. \A s \in Used(n) : s # n /\ s \in Used(n + 1) /\ s \in Slot
  BY <1>3 DEF Used
<1>7. /\ u.n = n + 1 /\ u.tab[n].id = id /\ u.tab[n].type = type
      /\ \A s \in Used(n) : u.tab[s] = w.tab[s]
  BY <1>1, <1>4, <1>6 DEF OneMore
<1>8. ASSUME NEW C, OneToOne(w.tab, Used(n), C), id \notin C
      PROVE  OneToOne(u.tab, Used(n + 1), C \cup {id})
  <2>1. \A s \in Used(n + 1) : u.tab[s].id \in C \cup {id}
    BY <1>5, <1>7, <1>8 DEF OneToOne
  <2>2. ASSUME NEW i \in C \cup {id} PROVE \E s \in Used(n + 1) : u.tab[s].id = i
    <3>1. CASE i = id
      BY <1>5, <1>7, <3>1
    <3>2. CASE i \in C
      <4>1. PICK s \in Used(n) : w.tab[s].id = i
        BY <1>8, <3>2 DEF OneToOne
      <4>2. QED
        BY <1>6, <1>7, <4>1
    <3>3. QED
      BY <3>1, <3>2
  <2>3. ASSUME NEW s \in Used(n + 1), NEW t \in Used(n + 1), u.tab[s].id = u.tab[t].id
        PROVE  s = t
    <3>1. \A x \in Used(n) : u.tab[x].id \in C /\ u.tab[x].id # id
      BY <1>7, <1>8 DEF OneToOne
    <3>2. CASE s = n \/ t = n
      BY <1>5, <1>7, <2>3, <3>1, <3>2
    <3>3. CASE s \in Used(n) /\ t \in Used(n)
      BY <1>7, <1>8, <2>3, <3>3 DEF OneToOne
    <3>4. QED
      BY <1>5, <3>2, <3>3
  <2>4. QED
    BY <2>1, <2>2, <2>3 DEF OneToOne
<1>9. ASSUME type = WINLOGIN, \A t \in Used(n) : w.tab[t].type # WINLOGIN
      PROVE  OneLoginIn(u)
  <2>1. \A t \in Used(n + 1) : u.tab[t].type = WINLOGIN <=> t = n
    BY <1>5, <1>7, <1>9
  <2>2. QED
    BY <1>5, <1>7, <2>1 DEF OneLoginIn
<1>10. ASSUME type # WINLOGIN, OneLoginIn(w)
       PROVE  OneLoginIn(u)
  <2>1. PICK s \in Used(n) : \A t \in Used(n) : w.tab[t].type = WINLOGIN <=> t = s
    BY <1>1, <1>10 DEF OneLoginIn
  <2>2. \A t \in Used(n + 1) : u.tab[t].type = WINLOGIN <=> t = s
    BY <1>5, <1>6, <1>7, <1>10, <2>1
  <2>3. QED
    BY <1>6, <1>7, <2>1, <2>2 DEF OneLoginIn
<1>11. QED
  BY <1>1, <1>2, <1>8, <1>9, <1>10

\* What only moves in the chain is still the same.
LEMMA SameAre ==
    ASSUME NEW w \in Tables, NEW u \in Tables, SameWindows(u, w), w.n <= MaxCreated
    PROVE  /\ \A S, C : S \subseteq Used(w.n) /\ OneToOne(w.tab, S, C) => OneToOne(u.tab, S, C)
           /\ OneLoginIn(w) => OneLoginIn(u)
<1>1. u.n = w.n /\ w.n \in Nat /\ Used(w.n) \subseteq Slot
  BY Slots DEF Tables, SameWindows
<1>2. \A s \in Used(w.n) : u.tab[s].id = w.tab[s].id /\ u.tab[s].type = w.tab[s].type
  BY <1>1 DEF SameWindows
<1>3. ASSUME NEW S, NEW C, S \subseteq Used(w.n), OneToOne(w.tab, S, C)
      PROVE  OneToOne(u.tab, S, C)
  <2>1. \A s \in S : u.tab[s].id = w.tab[s].id
    BY <1>2, <1>3
  <2>2. QED
    BY <1>3, <2>1 DEF OneToOne
<1>4. OneLoginIn(w) => OneLoginIn(u)
  BY <1>1, <1>2 DEF OneLoginIn
<1>5. QED
  BY <1>3, <1>4

-----------------------------------------------------------------------------
\* Every step keeps the invariant

\* The table as the program has it.
LEMMA TableIs ==
    ASSUME TypeInv, CountInv
    PROVE  /\ Windows \in Tables /\ Windows.tab = allwindows /\ Windows.n = numwindows /\ Windows.top = wintopmost
           /\ numwindows \in Nat /\ created \in Nat /\ numwindows <= created /\ created <= MaxCreated /\ MaxCreated \in Nat
           /\ Used(numwindows) \subseteq Slot
           /\ \A s \in Slot : allwindows[s].id \in Id \cup {0}
<1>1. allwindows \in [Slot -> Window] /\ numwindows \in Nat /\ wintopmost \in Slot \cup {Null}
      /\ created \in 2 .. MaxCreated /\ numwindows <= created
  BY DEF TypeInv, CountInv
<1>2. Windows \in Tables /\ Windows.tab = allwindows /\ Windows.n = numwindows /\ Windows.top = wintopmost
  BY <1>1 DEF Windows, Tables
<1>3. MaxCreated \in Nat /\ created \in Nat /\ created <= MaxCreated
  BY <1>1, Slots
<1>4. Used(numwindows) \subseteq Slot
  BY <1>1, <1>3, Slots
<1>5. \A s \in Slot : allwindows[s] \in Window
  BY <1>1
<1>6. \A s \in Slot : allwindows[s].id \in Id \cup {0}
  BY <1>5 DEF Window
<1>7. QED
  BY <1>1, <1>2, <1>3, <1>4, <1>6

\* And as it sets it.
LEMMA SetIs ==
    ASSUME NEW u \in Tables, SetWindows(u)
    PROVE  Windows' = u /\ allwindows' = u.tab /\ numwindows' = u.n /\ wintopmost' = u.top
BY DEF SetWindows, Windows, Tables

\* A step that leaves the windows and the program where they are, and lets
\* children die but not appear or go.
LEMMA QuietInv ==
    ASSUME IInv, UNCHANGED <<build, table, created, handler, main, middle, raced>>,
           process' \in [Id -> {"none", "running", "closed", "zombie", "reaped"}],
           \A i \in Id : /\ process'[i] = "none" <=> process[i] = "none"
                         /\ process'[i] = "reaped" <=> process[i] = "reaped",
           killed' \subseteq Id, sigdead' \in BOOLEAN, up' \in {"up", "exited", "crashed"},
           up' = "up" => up = "up"
    PROVE  IInv'
<1>1. TypeInv'
  BY DEF IInv, TypeInv, table
<1>2. CountInv'
  BY DEF IInv, CountInv, table
<1>10. FilledInv'
  BY DEF IInv, FilledInv, table
<1>3. PhaseInv' /\ (Orderly' <=> Orderly)
  BY DEF IInv, PhaseInv, table, Orderly
<1>4. Children' = Children
  <2>1. process \in [Id -> {"none", "running", "closed", "zombie", "reaped"}]
    BY DEF IInv, TypeInv
  <2>2. \A i \in Id : process[i] \in {"running", "closed", "zombie"} <=> process[i] # "none" /\ process[i] # "reaped"
    BY <2>1
  <2>3. \A i \in Id : process'[i] \in {"running", "closed", "zombie"} <=> process'[i] # "none" /\ process'[i] # "reaped"
    OBVIOUS
  <2>4. QED
    BY <2>2, <2>3 DEF Children
<1>5. Kept' = Kept /\ Placed' = Placed
  BY <1>4 DEF Kept, Placed, table
<1>6. SlotsInv'
  <2> SUFFICES ASSUME Orderly', up' = "up"
               PROVE  /\ OneToOne(allwindows', Kept', Placed')
                      /\ handler'.pc = "destroy" =>
                            /\ handler'.wid \in Used(numwindows') /\ allwindows'[handler'.wid].id \in Id
                            /\ process'[allwindows'[handler'.wid].id] = "reaped"
                      /\ main'.pc = "create" => main'.id \in Children'
    BY DEF SlotsInv
  <2>1. SlotsInv /\ Orderly /\ up = "up"
    BY <1>3 DEF IInv
  <2>2. OneToOne(allwindows', Kept', Placed') /\ (main'.pc = "create" => main'.id \in Children')
    BY <1>4, <1>5, <2>1 DEF SlotsInv, table
  <2>3. ASSUME handler.pc = "destroy"
        PROVE  /\ handler'.wid \in Used(numwindows') /\ allwindows'[handler'.wid].id \in Id
               /\ process'[allwindows'[handler'.wid].id] = "reaped"
    <3>1. PICK i : i = allwindows[handler.wid].id
      OBVIOUS
    <3>2. handler.wid \in Used(numwindows) /\ i \in Id /\ process[i] = "reaped"
      BY <2>1, <2>3, <3>1 DEF SlotsInv
    <3>3. process'[i] = "reaped"
      BY <3>2
    <3>4. QED
      BY <3>1, <3>2, <3>3 DEF table
  <2>4. QED
    BY <2>2, <2>3
<1>7. Windows' = Windows
  BY DEF Windows, table
<1>8. LoginInv' /\ ChainInv'
  BY <1>3, <1>7 DEF IInv, LoginInv, ChainInv, table
<1>9. QED
  BY <1>1, <1>2, <1>3, <1>6, <1>8, <1>10 DEF IInv

\* Where no guarantee is made, types and counts are all there is to keep.
LEMMA LooseInv ==
    ASSUME TypeInv', CountInv', FilledInv', ~Orderly'
    PROVE  IInv'
BY DEF IInv, PhaseInv, SlotsInv, LoginInv, ChainInv

\* SIGDEAD arrives: between two turns of the main loop, or the order is lost.
LEMMA InterruptInv ==
    ASSUME IInv, Interrupt
    PROVE  IInv'
<1>1. TypeInv'
  <2>1. handler' \in [pc : {"rest", "wait", "destroy"}, wid : Slot, id : {0}]
    BY Slots DEF Interrupt, At
  <2>2. QED
    BY <2>1 DEF IInv, TypeInv, Interrupt, table
<1>2. CountInv'
  BY DEF IInv, CountInv, Interrupt, table
<1>6. FilledInv'
  BY DEF IInv, FilledInv, Interrupt, table
<1>3. CASE ~Orderly'
  BY <1>1, <1>2, <1>3, <1>6, LooseInv
<1>4. CASE Orderly'
  <2>1. Orderly /\ main.pc # "create"
    BY <1>4, Zenon DEF IInv, TypeInv, Interrupt, Orderly
  <2>2. main = Rest /\ handler = Rest /\ handler'.pc = "wait" /\ main' = main /\ handler.pc = "rest" /\ up' = up
    BY <2>1 DEF IInv, PhaseInv, Interrupt, At, Rest
  <2>3. PhaseInv'
    BY <2>2 DEF PhaseInv, Rest
  <2>4. Kept' = Kept /\ Placed' = Placed /\ Children' = Children /\ allwindows' = allwindows
    BY <2>2 DEF Kept, Placed, Children, Interrupt, table, Rest
  <2>5. SlotsInv'
    BY <2>1, <2>2, <2>4 DEF IInv, SlotsInv, Rest
  <2>6. Windows' = Windows
    BY DEF Windows, table, Interrupt
  <2>7. LoginInv'
    BY <2>1, <2>6 DEF IInv, LoginInv, Interrupt
  <2>8. ChainInv'
    BY <2>1, <2>2, <2>6 DEF IInv, ChainInv, Interrupt, Rest
  <2>9. QED
    BY <1>1, <1>2, <1>6, <2>3, <2>5, <2>7, <2>8 DEF IInv
<1>5. QED
  BY <1>3, <1>4

\* wait() takes a zombie away, or there are no children.
LEMMA ReapIs ==
    ASSUME TypeInv, NEW i \in Id \cup {0}, Reap(i)
    PROVE  /\ process' \in [Id -> {"none", "running", "closed", "zombie", "reaped"}]
           /\ \A j \in Id : process[j] = "none" => process'[j] = "none"
           /\ i \in Id => i \in Children /\ process'[i] = "reaped" /\ Children' = Children \ {i}
           /\ i \notin Id => Children = {} /\ Children' = {}
<1>1. process \in [Id -> {"none", "running", "closed", "zombie", "reaped"}] /\ 0 \notin Id
  BY DEF TypeInv, Id
<1>2. CASE Zombies # {}
  <2>1. i \in Id /\ process[i] = "zombie" /\ process' = [process EXCEPT ![i] = "reaped"]
    BY <1>2 DEF Reap, Zombies
  <2>2. QED
    BY <1>1, <2>1 DEF Children
<1>3. CASE Zombies = {}
  BY <1>1, <1>3 DEF Reap, Children
<1>4. QED
  BY <1>2, <1>3

\* The handler takes the window of a child that died out of the chain.
LEMMA HandlerReapInv ==
    ASSUME IInv, HandlerReap
    PROVE  IInv'
<1> USE TableIs DEF IInv
<1>1. PICK i \in Id \cup {0} :
        LET mine == {s \in Used(numwindows) : allwindows[s].id = i}
            wid == CHOOSE s \in mine : \A t \in mine : s <= t
        IN  /\ Reap(i)
            /\ IF mine = {} THEN handler' = Rest /\ UNCHANGED <<table, up>>
               ELSE IF Broken(Windows) THEN up' = "crashed" /\ UNCHANGED <<table, handler>>
               ELSE /\ SetWindows(Unlink(Windows, wid))
                    /\ handler' = At("destroy", wid)
                    /\ UNCHANGED up
  BY Zenon DEF HandlerReap
<1>2. PICK mine : mine = {s \in Used(numwindows) : allwindows[s].id = i}
  OBVIOUS
<1>3. PICK wid : wid = CHOOSE s \in mine : \A t \in mine : s <= t
  OBVIOUS
<1>4. /\ Reap(i)
      /\ \/ mine = {} /\ handler' = Rest /\ UNCHANGED <<table, up>>
         \/ mine # {} /\ up' = "crashed" /\ UNCHANGED <<table, handler>>
         \/ mine # {} /\ SetWindows(Unlink(Windows, wid)) /\ handler' = At("destroy", wid) /\ up' = up
  BY <1>1, <1>2, <1>3, Zenon
<1>5. /\ up = "up" /\ handler.pc = "wait"
      /\ UNCHANGED <<build, killed, created, sigdead, main, middle, raced>>
  BY DEF HandlerReap
<1>6. /\ process' \in [Id -> {"none", "running", "closed", "zombie", "reaped"}]
      /\ \A j \in Id : process[j] = "none" => process'[j] = "none"
      /\ i \in Id => i \in Children /\ process'[i] = "reaped" /\ Children' = Children \ {i}
      /\ i \notin Id => Children = {} /\ Children' = {}
  BY <1>4, ReapIs
<1>7. mine \subseteq Used(numwindows) /\ mine \subseteq Nat
  BY <1>2, Slots
<1>8. mine # {} => wid \in mine
  BY <1>3, <1>7, LeastNatural
<1>9. PICK u : u = Unlink(Windows, wid)
  OBVIOUS
<1>10. mine # {} => /\ wid \in Slot /\ wid \in Used(numwindows) /\ allwindows[wid].id = i
                    /\ u \in Tables /\ SameWindows(u, Windows)
  <2> SUFFICES ASSUME mine # {}
               PROVE  /\ wid \in Slot /\ wid \in Used(numwindows) /\ allwindows[wid].id = i
                      /\ u \in Tables /\ SameWindows(u, Windows)
    OBVIOUS
  <2>1. wid \in Slot /\ wid \in Used(numwindows) /\ allwindows[wid].id = i
    BY <1>2, <1>7, <1>8
  <2>2. QED
    BY <1>9, <2>1, UnlinkIs
<1>11. TypeInv' /\ CountInv' /\ FilledInv'
  <2>1. created' = created /\ main' = main /\ \A j \in Id : j > created => process'[j] = "none"
    BY <1>5, <1>6 DEF CountInv
  <2>2. CASE UNCHANGED table /\ handler' \in {handler, Rest} /\ up' \in {up, "crashed"}
    <3>1. handler' \in [pc : {"rest", "wait", "destroy"}, wid : Slot, id : {0}]
      BY <2>2, Slots DEF TypeInv, Rest
    <3>2. TypeInv'
      BY <1>5, <1>6, <2>2, <3>1 DEF TypeInv, table
    <3>3. QED
      BY <2>1, <2>2, <3>2 DEF CountInv, FilledInv, table
  <2>3. CASE mine # {} /\ SetWindows(Unlink(Windows, wid)) /\ handler' = At("destroy", wid) /\ up' = up
    <3>1. allwindows' = u.tab /\ numwindows' = u.n /\ wintopmost' = u.top /\ u.n = numwindows
      BY <1>9, <1>10, <2>3, SetIs DEF SameWindows
    <3>2. handler' \in [pc : {"rest", "wait", "destroy"}, wid : Slot, id : {0}]
      BY <1>10, <2>3 DEF At
    <3>3. allwindows' \in [Slot -> Window] /\ numwindows' \in Nat /\ wintopmost' \in Slot \cup {Null}
      BY <1>10, <2>3, <3>1 DEF Tables
    <3>4. TypeInv'
      BY <1>5, <1>6, <2>3, <3>2, <3>3 DEF TypeInv
    <3>5. CountInv'
      BY <2>1, <3>1 DEF CountInv
    <3>6. \A s \in Slot : allwindows'[s].id = allwindows[s].id
      BY <1>10, <2>3, <3>1 DEF SameWindows
    <3>7. FilledInv'
      BY <2>1, <3>1, <3>6 DEF FilledInv
    <3>8. QED
      BY <3>4, <3>5, <3>7
  <2>4. QED
    BY <1>4, <2>2, <2>3
<1>12. CASE ~Orderly'
  BY <1>11, <1>12, LooseInv
<1>13. CASE Orderly'
  <2>1. Orderly
    BY <1>5, <1>13 DEF Orderly
  <2>2. main = Rest /\ main.pc = "rest" /\ main' = main
    BY <1>5, <2>1 DEF PhaseInv, Rest
  <2>3. Kept = Used(numwindows) /\ Placed = Children /\ Placed' = Children' /\ OneToOne(allwindows, Used(numwindows), Children)
    BY <1>5, <2>1, <2>2 DEF SlotsInv, Kept, Placed
  <2>4. CASE mine = {} /\ handler' = Rest /\ UNCHANGED <<table, up>>
    <3>1. Children' = Children /\ Children = {}
      BY <1>2, <1>6, <2>3, <2>4 DEF OneToOne
    <3>2. Kept' = Used(numwindows)
      BY <2>4 DEF Kept, Rest, table
    <3>3. SlotsInv'
      BY <2>2, <2>3, <2>4, <3>1, <3>2 DEF SlotsInv, Rest, table
    <3>4. PhaseInv'
      BY <2>2, <2>4 DEF PhaseInv, Rest
    <3>5. Windows' = Windows
      BY <2>4 DEF Windows, table
    <3>6. LoginInv' /\ ChainInv'
      BY <1>5, <2>1, <2>4, <3>5 DEF LoginInv, ChainInv, Rest
    <3>7. QED
      BY <1>11, <3>3, <3>4, <3>6
  <2>5. CASE mine # {} /\ up' = "crashed" /\ UNCHANGED <<table, handler>>
    <3>1. SlotsInv'
      BY <2>5 DEF SlotsInv
    <3>2. PhaseInv'
      BY <1>5, <2>1, <2>2, <2>5 DEF PhaseInv, Rest, table
    <3>3. Windows' = Windows
      BY <2>5 DEF Windows, table
    <3>4. LoginInv' /\ ChainInv'
      BY <1>5, <2>1, <2>5, <3>3 DEF LoginInv, ChainInv
    <3>5. QED
      BY <1>11, <3>1, <3>2, <3>4
  <2>6. CASE mine # {} /\ SetWindows(Unlink(Windows, wid)) /\ handler' = At("destroy", wid) /\ up' = up
    <3>1. Windows' = u /\ allwindows' = u.tab /\ numwindows' = numwindows
      BY <1>9, <1>10, <2>6, SetIs DEF SameWindows
    <3>2. handler'.pc = "destroy" /\ handler'.wid = wid
      BY <2>6 DEF At
    <3>3. i \in Id /\ i \in Children /\ Children' = Children \ {i} /\ process'[i] = "reaped"
      <4>1. i \in Children
        BY <1>10, <2>3, <2>6 DEF OneToOne
      <4>2. QED
        BY <1>6, <4>1
    <3>4. OneToOne(allwindows, Used(numwindows) \ {wid}, Children \ {i})
      BY <1>10, <2>3, <2>6, <3>3 DEF OneToOne
    <3>5. OneToOne(u.tab, Used(numwindows) \ {wid}, Children \ {i})
      BY <1>10, <2>6, <3>4, SameAre
    <3>6. u.tab[wid].id = i
      BY <1>10, <2>6 DEF SameWindows
    <3>7. SlotsInv'
      <4>1. Kept' = Used(numwindows) \ {wid} /\ Placed' = Children \ {i}
        BY <2>2, <2>3, <3>1, <3>2, <3>3 DEF Kept
      <4>2. QED
        BY <1>10, <2>2, <2>6, <3>1, <3>2, <3>3, <3>5, <3>6, <4>1 DEF SlotsInv
    <3>8. PhaseInv'
      BY <2>2, <3>2 DEF PhaseInv, Rest
    <3>9. LoginInv'
      BY <1>5, <1>10, <2>1, <2>6, <3>1, SameAre DEF LoginInv
    <3>10. ChainInv'
      <4>1. ~middle => InChain(Windows, Null)
        BY <1>5, <2>1 DEF ChainInv
      <4>2. ~middle => InChain(u, wid)
        BY <1>9, <1>10, <2>6, <4>1, UnlinkChain
      <4>3. QED
        BY <1>5, <3>1, <3>2, <4>2 DEF ChainInv
    <3>11. QED
      BY <1>11, <3>7, <3>8, <3>9, <3>10
  <2>7. QED
    BY <1>4, <2>4, <2>5, <2>6
<1>14. QED
  BY <1>12, <1>13

\* The main loop's own waiting is for the other builds only.
LEMMA MainWaitsInv ==
    ASSUME IInv, MainReap \/ \E s \in Slot : ReadEof(s)
    PROVE  IInv'
<1> USE TableIs DEF IInv
<1>1. CASE \E s \in Slot : ReadEof(s)
  <2>1. PICK s \in Slot : ReadEof(s)
    BY <1>1
  <2>2. TypeInv'
    BY <2>1 DEF ReadEof, TypeInv, table, At
  <2>3. CountInv'
    BY <2>1 DEF ReadEof, CountInv, table, At
  <2>4. ~Orderly'
    BY <2>1 DEF ReadEof, Orderly
  <2>5. FilledInv'
    BY <2>1 DEF ReadEof, FilledInv, table, At
  <2>6. QED
    BY <2>2, <2>3, <2>4, <2>5, LooseInv
<1>2. CASE MainReap
  <2>1. PICK i \in Id \cup {0} : Reap(i)
    BY <1>2 DEF MainReap
  <2>2. /\ process' \in [Id -> {"none", "running", "closed", "zombie", "reaped"}]
        /\ \A j \in Id : process[j] = "none" => process'[j] = "none"
    BY <2>1, ReapIs
  <2>3. /\ UNCHANGED <<build, killed, created, sigdead, handler, middle, raced>> /\ main.pc = "wait"
        /\ \/ up' = "crashed" /\ UNCHANGED <<table, main>>
           \/ SetWindows(Unlink(Windows, main.wid)) /\ main' = At("destroy", main.wid) /\ up' = up
    BY <1>2, Zenon DEF MainReap
  <2>4. ~Orderly'
    BY <2>3 DEF PhaseInv, Orderly
  <2>5. PICK u : u = Unlink(Windows, main.wid)
    OBVIOUS
  <2>6. main.wid \in Slot
    BY DEF TypeInv
  <2>7. u \in Tables /\ u.n = numwindows /\ \A s \in Slot : u.tab[s].id = allwindows[s].id
    <3>1. u \in Tables /\ SameWindows(u, Windows)
      BY <2>5, <2>6, UnlinkIs
    <3>2. QED
      BY <3>1 DEF SameWindows
  <2>8. CASE up' = "crashed" /\ UNCHANGED <<table, main>>
    <3>1. TypeInv'
      BY <2>2, <2>3, <2>8 DEF TypeInv, table
    <3>2. CountInv'
      BY <2>2, <2>3, <2>8 DEF CountInv, table
    <3>3. FilledInv'
      BY <2>3, <2>8 DEF FilledInv, table
    <3>4. QED
      BY <2>4, <3>1, <3>2, <3>3, LooseInv
  <2>9. CASE SetWindows(Unlink(Windows, main.wid)) /\ main' = At("destroy", main.wid) /\ up' = up
    <3>1. allwindows' = u.tab /\ numwindows' = u.n /\ wintopmost' = u.top
      BY <2>5, <2>7, <2>9, SetIs
    <3>2. allwindows' \in [Slot -> Window] /\ numwindows' \in Nat /\ wintopmost' \in Slot \cup {Null}
      BY <2>7, <3>1 DEF Tables
    <3>3. main' \in [pc : {"rest", "wait", "destroy", "create"}, wid : Slot, id : Id \cup {0}]
      BY <2>6, <2>9 DEF At
    <3>4. TypeInv'
      BY <2>2, <2>3, <2>9, <3>2, <3>3 DEF TypeInv
    <3>5. CountInv'
      BY <2>2, <2>3, <2>7, <2>9, <3>1 DEF CountInv, At
    <3>6. FilledInv'
      BY <2>7, <2>9, <3>1 DEF FilledInv, At
    <3>7. QED
      BY <2>4, <3>4, <3>5, <3>6, LooseInv
  <2>10. QED
    BY <2>3, <2>8, <2>9
<1>3. QED
  BY <1>1, <1>2

\* Children that end, shells that are killed and the watchdog leave the
\* windows alone.
LEMMA QuietSteps ==
    ASSUME IInv, \/ \E i \in Id : CloseTerminal(i) \/ Die(i)
                 \/ Watchdog \/ UNCHANGED vars
                 \/ \E wid \in Slot : KillShells(wid)
    PROVE  IInv'
<1>1. /\ process \in [Id -> {"none", "running", "closed", "zombie", "reaped"}]
      /\ killed \subseteq Id /\ sigdead \in BOOLEAN /\ up \in {"up", "exited", "crashed"}
  BY DEF IInv, TypeInv
<1>2. CASE \E i \in Id : CloseTerminal(i)
  <2>1. PICK i \in Id : CloseTerminal(i)
    BY <1>2
  <2>2. /\ process' \in [Id -> {"none", "running", "closed", "zombie", "reaped"}]
        /\ \A j \in Id : /\ process'[j] = "none" <=> process[j] = "none"
                         /\ process'[j] = "reaped" <=> process[j] = "reaped"
    BY <1>1, <2>1 DEF CloseTerminal
  <2>3. UNCHANGED <<build, table, created, handler, main, middle, raced, killed, sigdead, up>>
    BY <2>1 DEF CloseTerminal
  <2>4. QED
    BY <1>1, <2>2, <2>3, QuietInv
<1>3. CASE \E i \in Id : Die(i)
  <2>1. PICK i \in Id : Die(i)
    BY <1>3
  <2>2. /\ process' \in [Id -> {"none", "running", "closed", "zombie", "reaped"}]
        /\ \A j \in Id : /\ process'[j] = "none" <=> process[j] = "none"
                         /\ process'[j] = "reaped" <=> process[j] = "reaped"
    BY <1>1, <2>1 DEF Die
  <2>3. UNCHANGED <<build, table, created, handler, main, middle, raced, killed, up>>
    BY <2>1 DEF Die
  <2>4. sigdead' \in BOOLEAN
    BY <2>1, Zenon DEF Die
  <2>5. QED
    BY <1>1, <2>2, <2>3, <2>4, QuietInv
<1>4. CASE Watchdog
  <2>1. UNCHANGED <<build, table, process, killed, created, sigdead, handler, main, middle, raced>> /\ up' = "exited"
    BY <1>4 DEF Watchdog
  <2>2. QED
    BY <1>1, <2>1, QuietInv
<1>5. CASE UNCHANGED vars
  <2>1. UNCHANGED <<build, table, process, killed, created, sigdead, handler, main, middle, raced, up>>
    BY <1>5 DEF vars
  <2>2. QED
    BY <1>1, <2>1, QuietInv
<1>6. CASE \E wid \in Slot : KillShells(wid)
  <2>1. UNCHANGED <<build, table, process, created, sigdead, handler, main, up, middle, raced>>
        /\ killed' = killed \cup {allwindows[s].id : s \in Shells}
    BY <1>6 DEF KillShells
  <2>2. \A s \in Shells : allwindows[s].id \in Id
    <3>1. numwindows \in Nat /\ Used(numwindows) \subseteq Slot
      BY TableIs DEF IInv
    <3>2. \A s \in Used(numwindows) : s < numwindows
      BY <3>1 DEF Used
    <3>3. QED
      BY <3>1, <3>2 DEF IInv, FilledInv, Shells
  <2>3. killed' \subseteq Id
    BY <1>1, <2>1, <2>2
  <2>4. QED
    BY <1>1, <2>1, <2>3, QuietInv
<1>7. QED
  BY <1>2, <1>3, <1>4, <1>5, <1>6

\* The windows after the rest of WindowDestroy.
Remaining(wid) == Reclaim(Windows, wid)
Again(wid) == Respawns(allwindows[wid].type) /\ created < MaxCreated
After(wid) == IF Again(wid) THEN Linked(Remaining(wid), numwindows - 1, created + 1, WINLOGIN) ELSE Remaining(wid)

\* What the rest of WindowDestroy does, step by step.
Finished(wid, w, u) ==
    /\ numwindows - 1 \in Nat /\ numwindows - 1 \in Slot /\ numwindows - 1 < MaxCreated
    /\ OneLess(w, Windows, wid) /\ w.n = numwindows - 1
    /\ u \in Tables
    /\ \/ /\ Again(wid) /\ created + 1 \in Id
          /\ OneMore(u, w, numwindows - 1, created + 1, WINLOGIN)
          /\ u.n = numwindows /\ created' = created + 1
          /\ process' = [process EXCEPT ![created + 1] = "running"]
       \/ ~Again(wid) /\ u = w /\ created' = created /\ process' = process
    /\ allwindows' = u.tab /\ numwindows' = u.n /\ wintopmost' = u.top /\ Windows' = u

\* The steps follow one from the other.
LEMMA FinishedIs ==
    ASSUME TypeInv, CountInv, NEW wid \in Slot, FinishDestroy(wid)
    PROVE  Finished(wid, Remaining(wid), After(wid))
<1> USE TableIs
<1>1. PICK w : w = Remaining(wid)
  OBVIOUS
<1>2. PICK u : u = After(wid)
  OBVIOUS
<1>3. numwindows # 0 /\ numwindows - 1 \in Nat /\ numwindows - 1 \in Slot /\ numwindows - 1 < MaxCreated
  BY DEF FinishDestroy, Slot
<1>4. OneLess(w, Windows, wid) /\ w.n = numwindows - 1
  <2>1. OneLess(w, Windows, wid)
    BY <1>1, <1>3, ReclaimIs DEF Remaining
  <2>2. QED
    BY <2>1 DEF OneLess
<1>5. w \in Tables
  BY <1>4 DEF OneLess
<1>6. /\ SetWindows(IF Again(wid) THEN Linked(w, w.n, created + 1, WINLOGIN) ELSE w)
      /\ created' = IF Again(wid) THEN created + 1 ELSE created
      /\ process' = IF Again(wid) THEN [process EXCEPT ![created + 1] = "running"] ELSE process
  BY <1>1, Zenon DEF FinishDestroy, Again, Remaining, Created
<1>7. u = IF Again(wid) THEN Linked(w, w.n, created + 1, WINLOGIN) ELSE w
  BY <1>1, <1>2, <1>4, Zenon DEF After
<1>8. CASE Again(wid)
  <2>1. created + 1 \in Id
    BY <1>8 DEF Again, Id
  <2>2. OneMore(Linked(w, numwindows - 1, created + 1, WINLOGIN), w, numwindows - 1, created + 1, WINLOGIN)
    BY <1>3, <1>5, <2>1, LinkedIs
  <2>3. OneMore(u, w, numwindows - 1, created + 1, WINLOGIN)
    BY <1>4, <1>7, <1>8, <2>2
  <2>4. u \in Tables /\ u.n = numwindows
    BY <1>4, <2>3 DEF OneMore
  <2>5. allwindows' = u.tab /\ numwindows' = u.n /\ wintopmost' = u.top /\ Windows' = u
    BY <1>6, <1>7, <1>8, <2>4, SetIs
  <2>6. QED
    BY <1>1, <1>2, <1>3, <1>4, <1>6, <1>8, <2>1, <2>3, <2>4, <2>5, Zenon DEF Finished
<1>9. CASE ~Again(wid)
  <2>1. u = w /\ SetWindows(u) /\ created' = created /\ process' = process
    BY <1>6, <1>7, <1>9
  <2>2. allwindows' = u.tab /\ numwindows' = u.n /\ wintopmost' = u.top /\ Windows' = u
    BY <1>5, <2>1, SetIs
  <2>3. QED
    BY <1>1, <1>2, <1>3, <1>4, <1>5, <1>9, <2>1, <2>2, Zenon DEF Finished
<1>10. QED
  BY <1>8, <1>9

\* Whoever destroys it, types, counts and windows are kept.
LEMMA DestroyTypes ==
    ASSUME TypeInv, CountInv, FilledInv, NEW wid \in Slot, FinishDestroy(wid),
           \/ handler' = Rest /\ main' = main
           \/ main.pc = "destroy" /\ main' = Rest /\ handler' = handler
    PROVE  TypeInv' /\ CountInv' /\ FilledInv'
<1> USE TableIs
<1>1. PICK w, u : Finished(wid, w, u)
  BY FinishedIs
<1>2. /\ numwindows - 1 \in Nat /\ numwindows - 1 \in Slot /\ OneLess(w, Windows, wid) /\ w.n = numwindows - 1
      /\ u \in Tables /\ allwindows' = u.tab /\ numwindows' = u.n /\ wintopmost' = u.top
  BY <1>1 DEF Finished
<1>3. UNCHANGED <<build, killed, sigdead, up, raced>> /\ middle' \in BOOLEAN
  BY Zenon DEF FinishDestroy, TypeInv
<1>4. /\ created' \in 2 .. MaxCreated /\ created' \in Nat /\ numwindows' <= created'
      /\ numwindows' <= numwindows /\ created <= created'
      /\ process' \in [Id -> {"none", "running", "closed", "zombie", "reaped"}]
      /\ \A i \in Id : i > created' => process'[i] = "none"
  <2>1. created \in 2 .. MaxCreated /\ process \in [Id -> {"none", "running", "closed", "zombie", "reaped"}]
        /\ \A i \in Id : i > created => process[i] = "none"
    BY DEF TypeInv, CountInv
  <2>2. CASE /\ created + 1 \in Id /\ u.n = numwindows /\ created' = created + 1
             /\ process' = [process EXCEPT ![created + 1] = "running"]
    <3>1. created' \in 2 .. MaxCreated
      BY <2>1, <2>2 DEF Id
    <3>2. process' \in [Id -> {"none", "running", "closed", "zombie", "reaped"}]
      BY <2>1, <2>2
    <3>3. ASSUME NEW i \in Id, i > created' PROVE process'[i] = "none"
      <4>1. i \in Nat /\ i > created /\ i # created + 1
        BY <2>2, <3>3 DEF Id
      <4>2. QED
        BY <2>1, <2>2, <3>3, <4>1
    <3>4. created' \in Nat /\ numwindows' <= created' /\ numwindows' <= numwindows /\ created <= created'
      BY <1>2, <2>2
    <3>5. QED
      BY <3>1, <3>2, <3>3, <3>4
  <2>3. CASE u = w /\ created' = created /\ process' = process
    BY <1>2, <2>1, <2>3
  <2>4. QED
    BY <1>1, <2>2, <2>3 DEF Finished
<1>5. /\ handler' \in [pc : {"rest", "wait", "destroy"}, wid : Slot, id : {0}]
      /\ main' \in [pc : {"rest", "wait", "destroy", "create"}, wid : Slot, id : Id \cup {0}]
      /\ main'.pc = "create" => main' = main
  BY Slots DEF TypeInv, Rest
<1>6. TypeInv'
  <2>1. allwindows' \in [Slot -> Window] /\ numwindows' \in Nat /\ wintopmost' \in Slot \cup {Null}
    BY <1>2 DEF Tables
  <2>2. QED
    BY <1>3, <1>4, <1>5, <2>1 DEF TypeInv
<1>7. CountInv'
  BY <1>4, <1>5, <1>6 DEF CountInv, TypeInv
<1>8. FilledInv'
  <2>1. main'.pc = "create" => numwindows' <= main'.wid
    BY <1>4, <1>5, <1>6 DEF FilledInv, TypeInv, Slot
  <2>2. ASSUME NEW s \in Slot, s < numwindows - 1 \/ (main'.pc = "create" /\ s < main'.wid)
        PROVE  w.tab[s].id \in Id
    <3>1. w.tab[s].id = allwindows[From(Windows, wid, s)].id /\ From(Windows, wid, s) \in Slot
      BY <1>2 DEF OneLess
    <3>2. From(Windows, wid, s) < numwindows \/ (main.pc = "create" /\ From(Windows, wid, s) < main.wid)
      BY <1>2, <1>5, <2>2, Slots DEF From
    <3>3. QED
      BY <3>1, <3>2 DEF FilledInv
  <2>3. ASSUME NEW s \in Slot, s < numwindows' \/ (main'.pc = "create" /\ s < main'.wid)
        PROVE  u.tab[s].id \in Id
    <3>1. CASE created + 1 \in Id /\ OneMore(u, w, numwindows - 1, created + 1, WINLOGIN) /\ u.n = numwindows
      <4>1. CASE s = numwindows - 1
        BY <3>1, <4>1 DEF OneMore
      <4>2. CASE s # numwindows - 1
        <5>1. u.tab[s] = w.tab[s]
          BY <3>1, <4>2 DEF OneMore
        <5>2. s < numwindows - 1 \/ (main'.pc = "create" /\ s < main'.wid)
          BY <1>2, <2>3, <3>1, <4>2, Slots
        <5>3. QED
          BY <2>2, <5>1, <5>2
      <4>3. QED
        BY <4>1, <4>2
    <3>2. CASE u = w
      BY <1>2, <2>2, <2>3, <3>2
    <3>3. QED
      BY <1>1, <3>1, <3>2 DEF Finished
  <2>4. QED
    BY <1>2, <2>1, <2>3 DEF FilledInv
<1>9. QED
  BY <1>6, <1>7, <1>8

\* The handler gives a slot away and, after a login window, makes the next.
LEMMA HandlerFinishes ==
    ASSUME IInv, up = "up", handler.pc = "destroy", FinishDestroy(handler.wid), handler' = Rest, main' = main
    PROVE  IInv'
<1> USE TableIs DEF IInv
<1>1. handler.wid \in Slot
  BY DEF TypeInv
<1>2. TypeInv' /\ CountInv' /\ FilledInv'
  BY <1>1, DestroyTypes
<1>3. CASE ~Orderly'
  BY <1>2, <1>3, LooseInv
<1>4. CASE Orderly'
  <2>1. PICK wid : wid = handler.wid
    OBVIOUS
  <2>2. /\ UNCHANGED <<build, killed, sigdead, up, raced>>
        /\ middle' = (middle \/ (0 < wid /\ wid < numwindows - 1 /\ wintopmost # numwindows - 1))
    BY <2>1, Zenon DEF FinishDestroy
  <2>3. Orderly
    BY <1>4, <2>2 DEF Orderly
  <2>4. main = Rest /\ main.pc = "rest" /\ main'.pc = "rest"
    BY <2>3 DEF PhaseInv, Rest
  <2>5. /\ wid \in Used(numwindows) /\ wid \in Slot
        /\ OneToOne(allwindows, Used(numwindows) \ {wid}, Children)
    BY <2>1, <2>3, <2>4 DEF SlotsInv, Kept, Placed
  <2>6. PICK w, u : w = Remaining(wid) /\ u = After(wid) /\ Finished(wid, w, u)
    BY <1>1, <2>1, FinishedIs
  <2>7. /\ numwindows - 1 \in Nat /\ numwindows - 1 < MaxCreated /\ w.n = numwindows - 1 /\ w \in Tables /\ u \in Tables
        /\ allwindows' = u.tab /\ numwindows' = u.n /\ Windows' = u
    BY <2>6 DEF Finished, OneLess
  <2>8. \/ /\ Again(wid) /\ created + 1 \in Id /\ u = Linked(w, w.n, created + 1, WINLOGIN)
           /\ u.n = w.n + 1 /\ created' = created + 1
           /\ process' = [process EXCEPT ![created + 1] = "running"]
        \/ ~Again(wid) /\ u = w /\ created' = created /\ process' = process
    <3>1. CASE Again(wid)
      <4>1. u = Linked(w, w.n, created + 1, WINLOGIN)
        BY <2>6, <2>7, <3>1, Zenon DEF After
      <4>2. QED
        BY <2>6, <2>7, <3>1, <4>1 DEF Finished
    <3>2. CASE ~Again(wid)
      BY <2>6, <3>2 DEF Finished
    <3>3. QED
      BY <3>1, <3>2
  <2>9. PhaseInv'
    BY <2>4 DEF PhaseInv, Rest
  <2>10. OneToOne(w.tab, Used(w.n), Children)
    BY <2>5, <2>6, <2>7, ReclaimWindows DEF Remaining
  <2>15. /\ OneLoginIn(Windows) /\ allwindows[wid].type # WINLOGIN => OneLoginIn(w)
         /\ OneLoginIn(Windows) /\ allwindows[wid].type = WINLOGIN => \A t \in Used(w.n) : w.tab[t].type # WINLOGIN
    <3>1. Windows \in Tables /\ Windows.n <= MaxCreated /\ wid \in Used(Windows.n) /\ Windows.tab = allwindows
          /\ Windows.n - 1 = w.n /\ w = Reclaim(Windows, wid)
      BY <2>5, <2>6, <2>7 DEF Remaining
    <3>2. /\ OneLoginIn(Windows) /\ Windows.tab[wid].type # WINLOGIN => OneLoginIn(Reclaim(Windows, wid))
          /\ OneLoginIn(Windows) /\ Windows.tab[wid].type = WINLOGIN =>
                 \A t \in Used(Windows.n - 1) : Reclaim(Windows, wid).tab[t].type # WINLOGIN
      BY <3>1, ReclaimWindows, Zenon
    <3>3. QED
      BY <3>1, <3>2, Zenon
  <2>11. SlotsInv'
    <3>1. Kept' = Used(u.n) /\ Placed' = Children' /\ handler'.pc = "rest"
      BY <2>4, <2>7 DEF Kept, Placed, Rest
    <3>2. CASE /\ created + 1 \in Id /\ u = Linked(w, w.n, created + 1, WINLOGIN)
               /\ u.n = w.n + 1 /\ process' = [process EXCEPT ![created + 1] = "running"]
      <4>1. process[created + 1] = "none" /\ process \in [Id -> {"none", "running", "closed", "zombie", "reaped"}]
        BY <3>2 DEF CountInv, TypeInv
      <4>2. Children' = Children \cup {created + 1} /\ created + 1 \notin Children
        BY <3>2, <4>1 DEF Children
      <4>3. OneToOne(u.tab, Used(u.n), Children')
        <5>1. created + 1 \in Id \cup {0} /\ w.n < MaxCreated
          BY <2>7, <3>2
        <5>2. QED
          BY <2>7, <2>10, <3>2, <4>2, <5>1, LinkedWindows
      <4>4. QED
        BY <2>4, <2>7, <3>1, <4>3 DEF SlotsInv
    <3>3. CASE u = w /\ process' = process
      <4>1. Children' = Children
        BY <3>3 DEF Children
      <4>2. QED
        BY <2>4, <2>7, <2>10, <3>1, <3>3, <4>1 DEF SlotsInv
    <3>4. QED
      BY <2>8, <3>2, <3>3
  <2>12. LoginInv'
    <3> SUFFICES ASSUME created' < MaxCreated
                 PROVE  OneLoginIn(u)
      BY <2>7 DEF LoginInv
    <3>1. created < MaxCreated
      BY <2>8
    <3>2. OneLoginIn(Windows)
      BY <2>3, <3>1 DEF LoginInv
    <3>3. CASE allwindows[wid].type = WINLOGIN
      <4>1. Again(wid)
        BY <3>1, <3>3 DEF Again, Respawns
      <4>2. \A t \in Used(w.n) : w.tab[t].type # WINLOGIN
        BY <2>15, <3>2, <3>3
      <4>3. created + 1 \in Id \cup {0} /\ w.n < MaxCreated
        BY <2>7, <2>8, <4>1
      <4>4. OneLoginIn(Linked(w, w.n, created + 1, WINLOGIN))
        BY <2>7, <4>2, <4>3, LinkedWindows
      <4>5. QED
        BY <2>8, <4>1, <4>4
    <3>4. CASE allwindows[wid].type # WINLOGIN
      <4>1. ~Again(wid)
        BY <3>4 DEF Again, Respawns
      <4>2. OneLoginIn(w)
        BY <2>15, <3>2, <3>4
      <4>3. QED
        BY <2>8, <4>1, <4>2
    <3>5. QED
      BY <3>3, <3>4
  <2>13. ChainInv'
    <3> SUFFICES ASSUME ~middle'
                 PROVE  InChain(u, Null)
      BY <2>7 DEF ChainInv, Rest
    <3>1. ~middle /\ (wid = 0 \/ wid = numwindows - 1 \/ wintopmost = numwindows - 1)
      <4>1. ~middle /\ ~(0 < wid /\ wid < numwindows - 1 /\ wintopmost # numwindows - 1)
        BY <2>2, Zenon
      <4>2. QED
        BY <2>5, <4>1 DEF Used
    <3>2. InChain(Windows, wid)
      BY <2>1, <2>3, <3>1 DEF ChainInv
    <3>3. InChain(w, Null)
      BY <2>5, <2>6, <3>1, <3>2, ReclaimChain DEF Remaining
    <3>4. CASE created + 1 \in Id /\ u = Linked(w, w.n, created + 1, WINLOGIN)
      <4>1. created + 1 \in Id \cup {0} /\ w.n < MaxCreated
        BY <2>7, <3>4
      <4>2. QED
        BY <2>7, <3>3, <3>4, <4>1, LinkedChain
    <3>5. CASE u = w
      BY <3>3, <3>5
    <3>6. QED
      BY <2>8, <3>4, <3>5
  <2>14. QED
    BY <1>2, <2>9, <2>11, <2>12, <2>13
<1>5. QED
  BY <1>3, <1>4

\* WindowDestroy, in the handler or in the main loop.
LEMMA DestroyInv ==
    ASSUME IInv, Destroy
    PROVE  IInv'
<1>1. /\ up = "up"
      /\ \/ /\ handler.pc = "destroy"
            /\ \/ KillShells(handler.wid)
               \/ FinishDestroy(handler.wid) /\ handler' = Rest /\ UNCHANGED main
         \/ /\ handler = Rest /\ main.pc = "destroy"
            /\ \/ KillShells(main.wid)
               \/ FinishDestroy(main.wid) /\ main' = Rest /\ UNCHANGED handler
  BY Zenon DEF Destroy
<1>2. handler.wid \in Slot /\ main.wid \in Slot
  BY DEF IInv, TypeInv
<1>3. CASE KillShells(handler.wid) \/ KillShells(main.wid)
  <2>1. \E wid \in Slot : KillShells(wid)
    BY <1>2, <1>3
  <2>2. QED
    BY <2>1, QuietSteps
<1>4. CASE handler.pc = "destroy" /\ FinishDestroy(handler.wid) /\ handler' = Rest /\ UNCHANGED main
  BY <1>1, <1>4, HandlerFinishes
<1>5. CASE main.pc = "destroy" /\ FinishDestroy(main.wid) /\ main' = Rest /\ UNCHANGED handler
  <2>1. TypeInv' /\ CountInv' /\ FilledInv'
    BY <1>2, <1>5, DestroyTypes DEF IInv
  <2>2. UNCHANGED <<build, raced>>
    BY <1>5 DEF FinishDestroy
  <2>3. ~Orderly'
    BY <1>5, <2>2 DEF IInv, PhaseInv, Orderly
  <2>4. QED
    BY <2>1, <2>3, LooseInv
<1>6. QED
  BY <1>1, <1>3, <1>4, <1>5

\* A child is started for the window that will be made.
LEMMA NewShellInv ==
    ASSUME IInv, NewShell
    PROVE  IInv'
<1> USE TableIs DEF IInv
<1>1. /\ up = "up" /\ handler = Rest /\ main = Rest /\ created < MaxCreated - 1
      /\ main' = [pc |-> "create", wid |-> numwindows, id |-> created + 1]
      /\ process' = [process EXCEPT ![created + 1] = "running"] /\ created' = created + 1
      /\ UNCHANGED <<build, table, killed, sigdead, handler, up, middle, raced>>
  BY DEF NewShell, AtRest
<1>2. /\ numwindows \in Slot /\ created + 1 \in Id /\ created' \in 2 .. MaxCreated
      /\ process \in [Id -> {"none", "running", "closed", "zombie", "reaped"}]
  BY <1>1 DEF Slot, Id, TypeInv
<1>3. main' \in [pc : {"rest", "wait", "destroy", "create"}, wid : Slot, id : Id \cup {0}]
      /\ main'.pc = "create" /\ main'.wid = numwindows /\ main'.id = created + 1
  BY <1>1, <1>2
<1>4. process' \in [Id -> {"none", "running", "closed", "zombie", "reaped"}]
  BY <1>1, <1>2
<1>5. TypeInv'
  BY <1>1, <1>2, <1>3, <1>4 DEF TypeInv, table
<1>6. CountInv'
  <2>1. ASSUME NEW i \in Id, i > created' PROVE process'[i] = "none"
    <3>1. i > created /\ i # created + 1
      BY <1>1, <2>1 DEF Id
    <3>2. QED
      BY <1>1, <1>2, <2>1, <3>1 DEF CountInv
  <2>2. QED
    BY <1>1, <1>2, <1>3, <2>1 DEF CountInv, table
<1>7. FilledInv'
  BY <1>1, <1>3 DEF FilledInv, table
<1>8. Orderly' <=> Orderly
  BY <1>1 DEF Orderly
<1>9. PhaseInv'
  BY <1>1, <1>3 DEF PhaseInv, Rest, table
<1>10. SlotsInv'
  <2> SUFFICES ASSUME Orderly
               PROVE  /\ OneToOne(allwindows', Kept', Placed')
                      /\ handler'.pc # "destroy" /\ main'.id \in Children'
    BY <1>8 DEF SlotsInv
  <2>1. process[created + 1] = "none"
    BY <1>2 DEF CountInv
  <2>2. Children' = Children \cup {created + 1} /\ created + 1 \notin Children
    BY <1>1, <1>2, <2>1 DEF Children
  <2>3. Kept' = Kept /\ Placed = Children /\ Placed' = Children /\ allwindows' = allwindows
    BY <1>1, <1>3, <2>2 DEF Kept, Placed, Rest, table
  <2>4. QED
    BY <1>1, <1>3, <2>2, <2>3 DEF SlotsInv, Rest
<1>11. Windows' = Windows
  BY <1>1 DEF Windows, table
<1>12. LoginInv' /\ ChainInv'
  BY <1>1, <1>8, <1>11 DEF LoginInv, ChainInv
<1>13. QED
  BY <1>5, <1>6, <1>7, <1>9, <1>10, <1>12

\* And the window is linked in front of the others.
LEMMA LinkShellInv ==
    ASSUME IInv, LinkShell
    PROVE  IInv'
<1> USE TableIs DEF IInv
<1>1. /\ up = "up" /\ handler = Rest /\ main.pc = "create"
      /\ SetWindows(Linked(Windows, main.wid, main.id, WINSHELL)) /\ main' = Rest
      /\ UNCHANGED <<build, process, killed, created, sigdead, handler, up, middle, raced>>
  BY DEF LinkShell
<1>2. /\ main.wid \in Slot /\ main.id \in Id /\ main.id \in Id \cup {0}
      /\ numwindows < created /\ numwindows <= main.wid
  BY <1>1 DEF TypeInv, CountInv, FilledInv
<1>3. PICK u : u = Linked(Windows, main.wid, main.id, WINSHELL)
  OBVIOUS
<1>4. OneMore(u, Windows, main.wid, main.id, WINSHELL)
  BY <1>2, <1>3, LinkedIs
<1>5. u \in Tables /\ u.n = numwindows + 1 /\ u.top = main.wid
  BY <1>4 DEF OneMore
<1>6. Windows' = u /\ allwindows' = u.tab /\ numwindows' = numwindows + 1 /\ wintopmost' = main.wid
  BY <1>1, <1>3, <1>5, SetIs
<1>7. main'.pc = "rest" /\ main' \in [pc : {"rest", "wait", "destroy", "create"}, wid : Slot, id : Id \cup {0}]
  BY <1>1, Slots DEF Rest
<1>8. TypeInv'
  <2>1. allwindows' \in [Slot -> Window] /\ numwindows' \in Nat /\ wintopmost' \in Slot \cup {Null}
    BY <1>2, <1>5, <1>6 DEF Tables
  <2>2. QED
    BY <1>1, <1>7, <2>1 DEF TypeInv
<1>9. CountInv'
  BY <1>1, <1>2, <1>6, <1>7 DEF CountInv
<1>10. FilledInv'
  <2>1. ASSUME NEW s \in Slot, s < numwindows + 1
        PROVE  u.tab[s].id \in Id
    <3>1. CASE s = main.wid
      BY <1>2, <1>4, <3>1 DEF OneMore
    <3>2. CASE s # main.wid
      <4>4. s \in Nat /\ main.wid \in Nat /\ numwindows \in Nat
        BY <1>2, Slots
      <4>1. s < numwindows \/ s < main.wid
        BY <1>2, <2>1, <3>2, <4>4
      <4>2. allwindows[s].id \in Id
        BY <1>1, <4>1 DEF FilledInv
      <4>3. QED
        BY <1>4, <3>2, <4>2 DEF OneMore
    <3>3. QED
      BY <3>1, <3>2
  <2>2. QED
    BY <1>6, <1>7, <2>1 DEF FilledInv
<1>11. Orderly' <=> Orderly
  BY <1>1 DEF Orderly
<1>12. CASE ~Orderly
  BY <1>8, <1>9, <1>10, <1>11, <1>12, LooseInv
<1>13. CASE Orderly
  <2>1. main.wid = numwindows /\ u = Linked(Windows, Windows.n, main.id, WINSHELL) /\ Windows.n < MaxCreated
    BY <1>1, <1>2, <1>3, <1>13 DEF PhaseInv
  <2>2. OneToOne(allwindows, Used(numwindows), Children \ {main.id}) /\ main.id \in Children
    BY <1>1, <1>13 DEF SlotsInv, Kept, Placed, Rest
  <2>3. OneToOne(u.tab, Used(numwindows + 1), (Children \ {main.id}) \cup {main.id})
    BY <1>2, <2>1, <2>2, LinkedWindows
  <2>4. Children' = Children /\ (Children \ {main.id}) \cup {main.id} = Children
    BY <1>1, <2>2 DEF Children
  <2>5. Kept' = Used(numwindows + 1) /\ Placed' = Children /\ handler'.pc = "rest"
    BY <1>1, <1>6, <1>7, <2>4 DEF Kept, Placed, Rest
  <2>6. SlotsInv'
    BY <1>6, <1>7, <2>3, <2>4, <2>5 DEF SlotsInv
  <2>7. PhaseInv'
    BY <1>1, <1>7, <2>5 DEF PhaseInv
  <2>8. LoginInv'
    <3>1. OneLoginIn(Windows) => OneLoginIn(u)
      <4>1. WINSHELL # WINLOGIN
        BY DEF WINSHELL, WINLOGIN
      <4>2. QED
        BY <1>2, <2>1, <4>1, LinkedWindows
    <3>2. QED
      BY <1>1, <1>6, <1>13, <3>1 DEF LoginInv
  <2>9. ChainInv'
    <3>1. InChain(Windows, Null) => InChain(u, Null)
      BY <1>2, <2>1, LinkedChain
    <3>2. QED
      BY <1>1, <1>6, <1>13, <2>5, <3>1 DEF ChainInv, Rest
  <2>10. QED
    BY <1>8, <1>9, <1>10, <2>6, <2>7, <2>8, <2>9
<1>14. QED
  BY <1>12, <1>13

\* WindowTop changes the order and nothing else.
LEMMA ClickInv ==
    ASSUME IInv, NEW s \in Slot, Click(s)
    PROVE  IInv'
<1> USE TableIs DEF IInv
<1>1. /\ handler = Rest /\ s \in Used(numwindows) /\ SetWindows(Topped(Windows, s))
      /\ UNCHANGED <<build, process, killed, created, sigdead, handler, main, up, middle, raced>>
  BY DEF Click, AtRest
<1>2. PICK u : u = Topped(Windows, s)
  OBVIOUS
<1>3. u \in Tables /\ SameWindows(u, Windows)
  BY <1>2, ToppedIs
<1>4. Windows' = u /\ allwindows' = u.tab /\ numwindows' = numwindows /\ wintopmost' = u.top
  BY <1>1, <1>2, <1>3, SetIs DEF SameWindows
<1>5. TypeInv'
  <2>1. allwindows' \in [Slot -> Window] /\ wintopmost' \in Slot \cup {Null}
    BY <1>3, <1>4 DEF Tables
  <2>2. QED
    BY <1>1, <1>4, <2>1 DEF TypeInv
<1>6. CountInv'
  BY <1>1, <1>4 DEF CountInv
<1>7. FilledInv'
  BY <1>1, <1>3, <1>4 DEF FilledInv, SameWindows
<1>8. PhaseInv' /\ (Orderly' <=> Orderly)
  BY <1>1, <1>4 DEF PhaseInv, Orderly
<1>9. SlotsInv'
  <2>1. Kept' = Kept /\ Placed' = Placed /\ Kept \subseteq Used(numwindows) /\ Children' = Children /\ handler.pc = "rest"
    BY <1>1, <1>4 DEF Kept, Placed, Children, Rest
  <2>2. OneToOne(allwindows, Kept, Placed) => OneToOne(u.tab, Kept, Placed)
    BY <1>3, <2>1, SameAre
  <2>3. QED
    BY <1>1, <1>4, <1>8, <2>1, <2>2 DEF SlotsInv
<1>10. LoginInv'
  <2>1. OneLoginIn(Windows) => OneLoginIn(u)
    BY <1>3, SameAre
  <2>2. QED
    BY <1>1, <1>4, <1>8, <2>1 DEF LoginInv
<1>11. ChainInv'
  <2>1. InChain(Windows, Null) => InChain(u, Null)
    BY <1>1, <1>2, ToppedChain
  <2>2. QED
    BY <1>1, <1>4, <1>8, <2>1 DEF ChainInv, Rest
<1>12. QED
  BY <1>5, <1>6, <1>7, <1>8, <1>9, <1>10, <1>11

\* The program starts with a console and a login window.
LEMMA InitInv ==
    ASSUME Init
    PROVE  IInv
<1>1. PICK w0 : w0 = [tab |-> [s \in Slot |-> NoWindow], n |-> 0, top |-> Null]
  OBVIOUS
<1>2. PICK w1 : w1 = Linked(w0, 0, 1, WINCONSOLE)
  OBVIOUS
<1>3. PICK w2 : w2 = Linked(w1, 1, 2, WINLOGIN)
  OBVIOUS
<1>4. /\ MaxCreated \in Nat /\ MaxCreated >= 2 /\ 0 \in Slot /\ 1 \in Slot
      /\ 1 \in Id /\ 2 \in Id /\ 1 \in Id \cup {0} /\ 2 \in Id \cup {0} /\ Used(0) = {}
      /\ WINCONSOLE \in {WINSHELL, WINCONSOLE, WINLOGIN} /\ WINLOGIN \in {WINSHELL, WINCONSOLE, WINLOGIN}
      /\ WINCONSOLE # WINLOGIN
  BY CreatedAssumption DEF Slot, Id, Used, WINSHELL, WINCONSOLE, WINLOGIN
<1>5. w0 \in Tables /\ w0.n = 0 /\ w0.top = Null
  <2>1. NoWindow \in Window
    BY DEF NoWindow, Window
  <2>2. QED
    BY <1>1, <2>1 DEF Tables
<1>6. OneMore(w1, w0, 0, 1, WINCONSOLE)
  BY <1>2, <1>4, <1>5, LinkedIs
<1>7. w1 \in Tables /\ w1.n = 1 /\ \A t \in Used(1) : w1.tab[t].type # WINLOGIN
  BY <1>4, <1>5, <1>6 DEF OneMore, Used
<1>8. OneMore(w2, w1, 1, 2, WINLOGIN)
  BY <1>3, <1>4, <1>7, LinkedIs
<1>9. w2 \in Tables /\ w2.n = 2
  BY <1>7, <1>8 DEF OneMore
<1>10. Windows = w2 /\ allwindows = w2.tab /\ numwindows = 2 /\ wintopmost = w2.top
  <2>1. allwindows = w2.tab /\ numwindows = w2.n /\ wintopmost = w2.top
    <3>1. LET w == Created(Created(w0, 1, WINCONSOLE), 2, WINLOGIN)
          IN  allwindows = w.tab /\ numwindows = w.n /\ wintopmost = w.top
      BY <1>1, Zenon DEF Init
    <3>2. Created(w0, 1, WINCONSOLE) = w1
      BY <1>2, <1>5 DEF Created
    <3>3. Created(w1, 2, WINLOGIN) = w2
      BY <1>3, <1>7 DEF Created
    <3>4. QED
      BY <3>1, <3>2, <3>3
  <2>2. w2 = [tab |-> w2.tab, n |-> w2.n, top |-> w2.top]
    BY <1>9 DEF Tables
  <2>3. QED
    BY <1>9, <2>1, <2>2 DEF Windows
<1>11. /\ build \in Builds /\ killed = {} /\ created = 2 /\ sigdead = FALSE /\ handler = Rest /\ main = Rest
       /\ process = [i \in Id |-> IF i \in {1, 2} THEN "running" ELSE "none"]
       /\ up = "up" /\ middle = FALSE /\ raced = FALSE
  BY DEF Init
<1>12. TypeInv
  <2>1. allwindows \in [Slot -> Window] /\ wintopmost \in Slot \cup {Null}
    BY <1>9, <1>10 DEF Tables
  <2>2. Rest \in [pc : {"rest", "wait", "destroy"}, wid : Slot, id : {0}]
        /\ Rest \in [pc : {"rest", "wait", "destroy", "create"}, wid : Slot, id : Id \cup {0}]
    BY <1>4 DEF Rest
  <2>3. process \in [Id -> {"none", "running", "closed", "zombie", "reaped"}]
    BY <1>11
  <2>4. numwindows \in Nat /\ created \in 2 .. MaxCreated /\ killed \subseteq Id
    BY <1>4, <1>10, <1>11
  <2>5. sigdead \in BOOLEAN /\ middle \in BOOLEAN /\ raced \in BOOLEAN
    BY <1>11, Zenon
  <2>6. QED
    BY <1>11, <2>1, <2>2, <2>3, <2>4, <2>5 DEF TypeInv
<1>13. CountInv
  BY <1>10, <1>11 DEF CountInv, Rest, Id
<1>14. FilledInv
  <2>1. ASSUME NEW s \in Slot, s < 2 PROVE w2.tab[s].id \in Id
    <3>1. s = 1 \/ s = 0
      BY <2>1, Slots
    <3>2. QED
      BY <1>4, <1>6, <1>8, <3>1 DEF OneMore
  <2>2. QED
    BY <1>10, <1>11, <2>1 DEF FilledInv, Rest
<1>15. PhaseInv
  BY <1>11 DEF PhaseInv, Rest
<1>16. SlotsInv
  <2>1. OneToOne(w0.tab, Used(w0.n), {})
    BY <1>4, <1>5 DEF OneToOne
  <2>2. OneToOne(w1.tab, Used(1), {1})
    <3>1. OneToOne(Linked(w0, w0.n, 1, WINCONSOLE).tab, Used(w0.n + 1), {} \cup {1})
      <4>1. w0.n < MaxCreated /\ 1 \notin {}
        BY <1>4, <1>5
      <4>2. QED
        BY <1>4, <1>5, <2>1, <4>1, LinkedWindows
    <3>2. w0.n + 1 = 1 /\ {} \cup {1} = {1}
      BY <1>5
    <3>3. QED
      BY <1>2, <1>5, <3>1, <3>2
  <2>3. OneToOne(w2.tab, Used(2), {1, 2})
    <3>1. OneToOne(Linked(w1, w1.n, 2, WINLOGIN).tab, Used(w1.n + 1), {1} \cup {2})
      <4>1. w1.n < MaxCreated /\ 2 \notin {1} /\ OneToOne(w1.tab, Used(w1.n), {1})
        BY <1>4, <1>7, <2>2
      <4>2. QED
        BY <1>4, <1>7, <4>1, LinkedWindows
    <3>2. w1.n + 1 = 2 /\ {1} \cup {2} = {1, 2}
      BY <1>7
    <3>3. QED
      BY <1>3, <1>7, <3>1, <3>2
  <2>4. Children = {1, 2}
    BY <1>4, <1>11 DEF Children
  <2>5. Kept = Used(2) /\ Placed = {1, 2}
    BY <1>10, <1>11, <2>4 DEF Kept, Placed, Rest
  <2>6. QED
    BY <1>10, <1>11, <2>3, <2>5 DEF SlotsInv, Rest
<1>17. LoginInv
  <2>1. OneLoginIn(Linked(w1, w1.n, 2, WINLOGIN))
    <3>1. w1.n < MaxCreated /\ \A t \in Used(w1.n) : w1.tab[t].type # WINLOGIN
      BY <1>4, <1>7
    <3>2. QED
      BY <1>4, <1>7, <3>1, LinkedWindows
  <2>2. QED
    BY <1>3, <1>7, <1>10, <2>1 DEF LoginInv
<1>18. ChainInv
  <2>1. InChain(w0, Null)
    <3>1. PICK p : p = [k \in {} |-> k]
      OBVIOUS
    <3>2. p \in [{} -> {}]
      BY <3>1
    <3>3. Follows(w0, p, Null)
      BY <1>4, <1>5, <3>2 DEF Follows, IsOrder
    <3>4. QED
      BY <1>4, <1>5, <3>2, <3>3 DEF InChain
  <2>2. InChain(w1, Null)
    <3>1. w0.n < MaxCreated /\ w1 = Linked(w0, w0.n, 1, WINCONSOLE)
      BY <1>2, <1>4, <1>5
    <3>2. QED
      BY <1>4, <1>5, <2>1, <3>1, LinkedChain
  <2>3. InChain(w2, Null)
    <3>1. w1.n < MaxCreated /\ w2 = Linked(w1, w1.n, 2, WINLOGIN)
      BY <1>3, <1>4, <1>7
    <3>2. QED
      BY <1>4, <1>7, <2>2, <3>1, LinkedChain
  <2>4. QED
    BY <1>10, <1>11, <2>3 DEF ChainInv, Rest
<1>19. QED
  BY <1>12, <1>13, <1>14, <1>15, <1>16, <1>17, <1>18 DEF IInv

\* Every step of the program keeps the invariant.
LEMMA NextInv ==
    ASSUME IInv, [Next]_vars
    PROVE  IInv'
<1>1. CASE UNCHANGED vars
  BY <1>1, QuietSteps
<1>2. CASE \E i \in Id : CloseTerminal(i) \/ Die(i)
  BY <1>2, QuietSteps
<1>3. CASE Interrupt
  BY <1>3, InterruptInv
<1>4. CASE HandlerReap
  BY <1>4, HandlerReapInv
<1>5. CASE MainReap \/ \E s \in Slot : ReadEof(s)
  BY <1>5, MainWaitsInv
<1>6. CASE Destroy
  BY <1>6, DestroyInv
<1>7. CASE Watchdog
  BY <1>7, QuietSteps
<1>8. CASE \E s \in Slot : Click(s)
  BY <1>8, ClickInv
<1>9. CASE NewShell
  BY <1>9, NewShellInv
<1>10. CASE LinkShell
  BY <1>10, LinkShellInv
<1>11. QED
  BY <1>1, <1>2, <1>3, <1>4, <1>5, <1>6, <1>7, <1>8, <1>9, <1>10, Zenon DEF Next

\* The invariant holds in every state of every run.
LEMMA SpecIInv == Spec => []IInv
<1>1. Init => IInv
  BY InitInv
<1>2. IInv /\ [Next]_vars => IInv'
  BY NextInv
<1>3. QED
  BY <1>1, <1>2, PTL DEF Spec

-----------------------------------------------------------------------------
\* What the window table guarantees

\* The types are right: a front window that is in use, too.
THEOREM TypeCorrect == Spec => []TypeOK
<1>1. ASSUME IInv PROVE TypeOK
  <2>1. numwindows \in 0 .. MaxCreated
    BY <1>1, TableIs DEF IInv
  <2>2. wintopmost \in (IF build = "4404" /\ ~middle /\ ~raced THEN Used(numwindows) ELSE Slot) \cup {Null}
    <3>1. CASE Orderly /\ ~middle
      <4>1. PICK p, gone : Follows(Windows, p, gone)
        BY <1>1, <3>1 DEF IInv, ChainInv, InChain
      <4>2. p \in [Used(numwindows) -> Used(numwindows)]
            /\ wintopmost = IF numwindows = 0 THEN Null ELSE p[0]
        BY <4>1 DEF Follows, IsOrder, Windows
      <4>3. numwindows # 0 => p[0] \in Used(numwindows)
        BY <2>1, <4>2 DEF Used
      <4>4. QED
        BY <3>1, <4>2, <4>3 DEF Orderly
    <3>2. CASE ~(Orderly /\ ~middle)
      BY <1>1, <3>2 DEF IInv, TypeInv, Orderly
    <3>3. QED
      BY <3>1, <3>2
  <2>3. QED
    BY <1>1, <2>1, <2>2 DEF IInv, TypeInv, TypeOK
<1>2. QED
  BY <1>1, SpecIInv, PTL

\* A child that was not reaped has one slot, and no slot is for another:
\* slots move in every WindowDestroy, and a death is told by process number.
THEOREM SlotsAreChildren == Spec => []SlotPerChild
<1>1. ASSUME IInv PROVE SlotPerChild
  <2> SUFFICES ASSUME AtRest, Orderly, NEW i \in Id
               PROVE  Cardinality({s \in Used(numwindows) : allwindows[s].id = i})
                          = IF i \in Children THEN 1 ELSE 0
    BY DEF SlotPerChild, Orderly
  <2>1. OneToOne(allwindows, Used(numwindows), Children)
    BY <1>1 DEF IInv, SlotsInv, Kept, Placed, AtRest, Rest
  <2>2. PICK S : S = {s \in Used(numwindows) : allwindows[s].id = i}
    OBVIOUS
  <2>3. CASE i \in Children
    <3>1. PICK s \in Used(numwindows) : allwindows[s].id = i
      BY <2>1, <2>3 DEF OneToOne
    <3>2. S = {s}
      BY <2>1, <2>2, <3>1 DEF OneToOne
    <3>3. QED
      BY <2>2, <2>3, <3>2, FS_Singleton
  <2>4. CASE i \notin Children
    <3>1. S = {}
      BY <2>1, <2>2, <2>4 DEF OneToOne
    <3>2. QED
      BY <2>2, <2>4, <3>1, FS_EmptySet
  <2>5. QED
    BY <2>3, <2>4
<1>2. QED
  BY <1>1, SpecIInv, PTL

\* At rest there is one login window, until the model makes no more.
THEOREM OneCanLogIn == Spec => []OneLogin
<1>1. ASSUME IInv PROVE OneLogin
  <2> SUFFICES ASSUME Orderly, created < MaxCreated
               PROVE  Cardinality({s \in Used(numwindows) : allwindows[s].type = WINLOGIN}) = 1
    BY DEF OneLogin, Orderly
  <2>1. PICK s \in Used(numwindows) : \A t \in Used(numwindows) : allwindows[t].type = WINLOGIN <=> t = s
    BY <1>1 DEF IInv, LoginInv, OneLoginIn, Windows
  <2>2. {t \in Used(numwindows) : allwindows[t].type = WINLOGIN} = {s}
    BY <2>1
  <2>3. QED
    BY <2>2, FS_Singleton
<1>2. QED
  BY <1>1, SpecIInv, PTL

\* The chain leads through every window while the slots that are given away
\* are the first, the last or the one behind the window that is moved.
THEOREM ChainHolds == Spec => []ChainKept
<1>1. ASSUME IInv PROVE ChainKept
  <2> SUFFICES ASSUME AtRest, Orderly, ~middle
               PROVE  WellFormed(Windows)
    BY DEF ChainKept, Orderly
  <2>1. PICK p : Follows(Windows, p, Null)
    BY <1>1 DEF IInv, ChainInv, InChain, AtRest, Rest
  <2>2. QED
    BY <1>1, <2>1, TableIs, WellFormedIs DEF IInv
<1>2. QED
  BY <1>1, SpecIInv, PTL

\* The window of a child is still there.
Stays(s) == \E t \in Used(numwindows)' : allwindows'[t].id = allwindows[s].id

\* Only WindowDestroy takes a window away, and the child was reaped before.
LEMMA WindowStays ==
    ASSUME IInv, [Next]_vars, Orderly, NEW s \in Used(numwindows)
    PROVE  Stays(s) \/ process[allwindows[s].id] = "reaped"
<1> USE TableIs DEF IInv
<1>1. s \in Slot /\ s \in Nat /\ s < numwindows
  BY Slots DEF Used
<1>2. ASSUME UNCHANGED table PROVE Stays(s)
  BY <1>2 DEF Stays, table
<1>3. ASSUME NEW u \in Tables, SameWindows(u, Windows), SetWindows(u) PROVE Stays(s)
  <2>1. allwindows' = u.tab /\ numwindows' = numwindows
    BY <1>3, SetIs DEF SameWindows
  <2>2. allwindows'[s].id = allwindows[s].id
    BY <1>1, <1>3, <2>1 DEF SameWindows
  <2>3. QED
    BY <2>1, <2>2 DEF Stays
<1>4. CASE Destroy
  <2>1. \/ UNCHANGED table
        \/ handler.pc = "destroy" /\ FinishDestroy(handler.wid) /\ up = "up"
        \/ main.pc = "destroy"
    BY <1>4, Zenon DEF Destroy, KillShells
  <2>2. main.pc # "destroy" /\ handler.wid \in Slot
    BY DEF PhaseInv, TypeInv
  <2>3. CASE handler.pc = "destroy" /\ FinishDestroy(handler.wid) /\ up = "up"
    <3>1. PICK wid : wid = handler.wid
      OBVIOUS
    <3>2. wid \in Used(numwindows) /\ process[allwindows[wid].id] = "reaped"
      BY <2>3, <3>1 DEF SlotsInv
    <3>3. CASE s = wid
      BY <3>2, <3>3
    <3>4. CASE s # wid
      <4>1. PICK w, u : Finished(wid, w, u)
        BY <2>2, <2>3, <3>1, FinishedIs
      <4>2. PICK t : t = IF s = numwindows - 1 THEN wid ELSE s
        OBVIOUS
      <4>3. wid \in Nat /\ wid < numwindows
        BY <3>2 DEF Used
      <4>4. t \in Used(numwindows - 1) /\ t \in Used(numwindows) /\ t \in Slot /\ t # numwindows - 1
            /\ From(Windows, wid, t) = s
        BY <1>1, <3>2, <3>4, <4>2, <4>3 DEF Used, From
      <4>5. w.tab[t].id = allwindows[s].id
        BY <4>1, <4>4 DEF Finished, OneLess
      <4>6. u.tab[t].id = w.tab[t].id /\ t \in Used(u.n)
        BY <4>1, <4>4 DEF Finished, OneMore
      <4>7. QED
        BY <4>1, <4>5, <4>6 DEF Finished, Stays
    <3>5. QED
      BY <3>3, <3>4
  <2>4. QED
    BY <1>2, <2>1, <2>2, <2>3
<1>5. CASE HandlerReap
  <2>1. PICK i \in Id \cup {0} :
          LET mine == {r \in Used(numwindows) : allwindows[r].id = i}
              wid == CHOOSE r \in mine : \A t \in mine : r <= t
          IN  \/ UNCHANGED table
              \/ mine # {} /\ SetWindows(Unlink(Windows, wid))
    BY <1>5, Zenon DEF HandlerReap
  <2>2. PICK mine : mine = {r \in Used(numwindows) : allwindows[r].id = i}
    OBVIOUS
  <2>3. PICK wid : wid = CHOOSE r \in mine : \A t \in mine : r <= t
    OBVIOUS
  <2>4. UNCHANGED table \/ (mine # {} /\ SetWindows(Unlink(Windows, wid)))
    BY <2>1, <2>2, <2>3, Zenon
  <2>5. mine # {} => wid \in mine
    <3>1. mine \subseteq Nat
      BY <2>2, Slots
    <3>2. QED
      BY <2>3, <3>1, LeastNatural
  <2>6. mine # {} => wid \in Slot
    BY <2>2, <2>5
  <2>7. ASSUME mine # {}, SetWindows(Unlink(Windows, wid)) PROVE Stays(s)
    BY <1>3, <2>6, <2>7, UnlinkIs
  <2>8. QED
    BY <1>2, <2>4, <2>7
<1>6. CASE MainReap
  <2>1. UNCHANGED table \/ SetWindows(Unlink(Windows, main.wid))
    BY <1>6, Zenon DEF MainReap
  <2>2. main.wid \in Slot
    BY DEF TypeInv
  <2>3. ASSUME SetWindows(Unlink(Windows, main.wid)) PROVE Stays(s)
    BY <1>3, <2>2, <2>3, UnlinkIs
  <2>4. QED
    BY <1>2, <2>1, <2>3
<1>7. CASE \E r \in Slot : Click(r)
  <2>1. PICK r \in Slot : Click(r)
    BY <1>7
  <2>2. SetWindows(Topped(Windows, r))
    BY <2>1 DEF Click
  <2>3. QED
    BY <1>3, <2>2, ToppedIs
<1>8. CASE LinkShell
  <2>1. SetWindows(Linked(Windows, main.wid, main.id, WINSHELL)) /\ main.pc = "create"
    BY <1>8 DEF LinkShell
  <2>2. main.wid \in Slot /\ main.wid = numwindows /\ main.id \in Id \cup {0}
    BY <2>1 DEF PhaseInv, TypeInv
  <2>3. PICK u : u = Linked(Windows, main.wid, main.id, WINSHELL)
    OBVIOUS
  <2>4. OneMore(u, Windows, main.wid, main.id, WINSHELL)
    BY <2>2, <2>3, LinkedIs
  <2>5. u \in Tables /\ u.n = numwindows + 1 /\ u.tab[s].id = allwindows[s].id
    BY <1>1, <2>2, <2>4 DEF OneMore
  <2>6. allwindows' = u.tab /\ numwindows' = numwindows + 1
    BY <2>1, <2>3, <2>5, SetIs
  <2>7. s \in Used(numwindows)'
    BY <1>1, <2>6 DEF Used
  <2>8. QED
    BY <2>5, <2>6, <2>7 DEF Stays
<1>9. CASE \/ \E i \in Id : CloseTerminal(i) \/ Die(i)
           \/ Interrupt \/ Watchdog \/ NewShell \/ UNCHANGED vars
           \/ \E r \in Slot : ReadEof(r)
  <2>1. UNCHANGED table
    BY <1>9 DEF CloseTerminal, Die, Interrupt, Watchdog, NewShell, ReadEof, vars
  <2>2. QED
    BY <1>2, <2>1
<1>10. QED
  BY <1>4, <1>5, <1>6, <1>7, <1>8, <1>9, Zenon DEF Next

\* A window goes when its own process has ended and not before: the handler
\* looks it up by the process number that wait() gave.
THEOREM OnlyDeathTakesIt == Spec => DeathTakesItsWindow
<1>1. ASSUME IInv, [Next]_vars
      PROVE  \A s \in Used(numwindows) :
                LET i == allwindows[s].id
                IN  (build = "4404" /\ ~raced' /\ \A t \in Used(numwindows') : allwindows'[t].id # i)
                        => process[i] \in {"zombie", "reaped"}
  <2> SUFFICES ASSUME build = "4404", ~raced', NEW s \in Used(numwindows),
                      \A t \in Used(numwindows') : allwindows'[t].id # allwindows[s].id
               PROVE  process[allwindows[s].id] = "reaped"
    OBVIOUS
  <2>1. raced => raced'
    <3>1. raced' = raced \/ raced' = (raced \/ main.pc = "create")
      BY <1>1, Zenon DEF Next, vars, CloseTerminal, Die, Interrupt, HandlerReap, MainReap, Destroy, KillShells,
            FinishDestroy, Watchdog, ReadEof, Click, NewShell, LinkShell
    <3>2. raced \in BOOLEAN
      BY <1>1 DEF IInv, TypeInv
    <3>3. QED
      BY <3>1, <3>2, Zenon
  <2>2. Orderly
    BY <2>1, Zenon DEF Orderly
  <2>3. ~Stays(s)
    BY DEF Stays, Used
  <2>4. QED
    BY <1>1, <2>2, <2>3, WindowStays
<1>2. QED
  BY <1>1, SpecIInv, PTL DEF DeathTakesItsWindow, Spec

-----------------------------------------------------------------------------
\* The picture

\* A pixel is in a rectangle if its place is.
Within(p, r) == r.x <= p[1] /\ p[1] < r.x + r.w /\ r.y <= p[2] /\ p[2] < r.y + r.h

\* A pixel is a pair of integers.
LEMMA PixelIs == ASSUME NEW p \in Pixel PROVE p[1] \in Int /\ p[2] \in Int
BY PaintingAssumption DEF Pixel

\* What SDL draws for a rectangle are the pixels in it.
LEMMA WithinIs ==
    ASSUME NEW r \in Rect, NEW p \in Pixel
    PROVE  p \in Pixels(r) <=> Within(p, r)
<1>1. PICK x \in Int, y \in Int, w \in Int, h \in Int : x = r.x /\ y = r.y /\ w = r.w /\ h = r.h
  BY DEF Rect
<1>2. PICK m \in Int, n \in Int : m = p[1] /\ n = p[2]
  BY PixelIs
<1>3. p \in Pixels(r) <=> m \in x .. x + w - 1 /\ n \in y .. y + h - 1
  BY <1>1, <1>2, Zenon DEF Pixels
<1>4. Within(p, r) <=> x <= m /\ m < x + w /\ y <= n /\ n < y + h
  BY <1>1, <1>2, Zenon DEF Within
<1>5. QED
  BY <1>3, <1>4

\* Four integers make a rectangle.
LEMMA RectType ==
    ASSUME NEW x \in Int, NEW y \in Int, NEW w \in Int, NEW h \in Int
    PROVE  /\ RectOf(x, y, w, h) \in Rect
           /\ RectOf(x, y, w, h).x = x /\ RectOf(x, y, w, h).y = y
           /\ RectOf(x, y, w, h).w = w /\ RectOf(x, y, w, h).h = h
BY DEF Rect, RectOf

\* A rectangle is its four integers.
LEMMA RectIs ==
    ASSUME NEW r \in Rect
    PROVE  r = RectOf(r.x, r.y, r.w, r.h) /\ r.x \in Int /\ r.y \in Int /\ r.w \in Int /\ r.h \in Int
BY DEF Rect, RectOf

\* RectIntersect gives the pixels that are in both.
LEMMA IntersectIs ==
    ASSUME NEW r \in Rect, NEW s \in Rect
    PROVE  /\ RectIntersect(r, s) \in Rect
           /\ \A p \in Pixel : Within(p, RectIntersect(r, s)) <=> Within(p, r) /\ Within(p, s)
<1>1. /\ r.x \in Int /\ r.y \in Int /\ r.w \in Int /\ r.h \in Int
      /\ s.x \in Int /\ s.y \in Int /\ s.w \in Int /\ s.h \in Int
  BY RectIs
<1>2. PICK x \in Int, y \in Int, v \in Int, z \in Int :
        /\ x = Greater(r.x, s.x) /\ y = Greater(r.y, s.y)
        /\ v = Lesser(r.x + r.w, s.x + s.w) /\ z = Lesser(r.y + r.h, s.y + s.h)
  <2>1. Greater(r.x, s.x) \in Int /\ Greater(r.y, s.y) \in Int
    BY <1>1 DEF Greater
  <2>2. Lesser(r.x + r.w, s.x + s.w) \in Int /\ Lesser(r.y + r.h, s.y + s.h) \in Int
    BY <1>1 DEF Lesser
  <2>3. QED
    BY <2>1, <2>2, Zenon
<1>3. RectIntersect(r, s) = RectOf(x, y, v - x, z - y)
  BY <1>2, Zenon DEF RectIntersect
<1>4. PICK q \in Rect : q = RectIntersect(r, s) /\ q.x = x /\ q.y = y /\ q.w = v - x /\ q.h = z - y
  <2>1. v - x \in Int /\ z - y \in Int
    OBVIOUS
  <2>2. QED
    BY <1>3, <2>1, RectType
<1>5. ASSUME NEW p \in Pixel PROVE Within(p, q) <=> Within(p, r) /\ Within(p, s)
  <2>1. PICK m \in Int, n \in Int : m = p[1] /\ n = p[2]
    BY PixelIs
  <2>2. Within(p, q) <=> x <= m /\ m < v /\ y <= n /\ n < z
    BY <1>4, <2>1 DEF Within
  <2>3. QED
    BY <1>1, <1>2, <2>1, <2>2 DEF Within, Greater, Lesser
<1>6. QED
  BY <1>4, <1>5, Zenon

\* Some of these rectangles have the pixel.
Covered(p, areas) == \E i \in DOMAIN areas : Within(p, areas[i])

\* Two lists of areas cover what either does.
LEMMA CoveredTogether ==
    ASSUME NEW S, NEW a \in Seq(S), NEW b \in Seq(S), NEW p
    PROVE  Covered(p, a \o b) <=> Covered(p, a) \/ Covered(p, b)
<1>1. Len(a) \in Nat /\ Len(b) \in Nat /\ a \o b \in Seq(S) /\ Len(a \o b) = Len(a) + Len(b)
  BY ConcatProperties
<1>2. \A i \in 1 .. Len(a) : (a \o b)[i] = a[i]
  BY <1>1, ConcatProperties
<1>3. \A i \in 1 .. Len(b) : (a \o b)[Len(a) + i] = b[i]
  BY <1>1
<1>4. DOMAIN a = 1 .. Len(a) /\ DOMAIN b = 1 .. Len(b) /\ DOMAIN (a \o b) = 1 .. Len(a \o b)
  BY <1>1, LenProperties
<1>5. ASSUME Covered(p, a) PROVE Covered(p, a \o b)
  <2>1. PICK i \in 1 .. Len(a) : Within(p, a[i])
    BY <1>4, <1>5, Zenon DEF Covered
  <2>2. i \in 1 .. Len(a \o b)
    BY <1>1
  <2>3. QED
    BY <1>2, <1>4, <2>1, <2>2, Zenon DEF Covered
<1>6. ASSUME Covered(p, b) PROVE Covered(p, a \o b)
  <2>1. PICK i \in 1 .. Len(b) : Within(p, b[i])
    BY <1>4, <1>6, Zenon DEF Covered
  <2>2. Len(a) + i \in 1 .. Len(a \o b)
    BY <1>1
  <2>3. QED
    BY <1>3, <1>4, <2>1, <2>2, Zenon DEF Covered
<1>7. ASSUME Covered(p, a \o b) PROVE Covered(p, a) \/ Covered(p, b)
  <2>1. PICK i \in 1 .. Len(a \o b) : Within(p, (a \o b)[i])
    BY <1>4, <1>7, Zenon DEF Covered
  <2>2. CASE i <= Len(a)
    <3>1. i \in 1 .. Len(a)
      BY <1>1, <2>2
    <3>2. QED
      BY <1>2, <1>4, <2>1, <3>1, Zenon DEF Covered
  <2>3. CASE i > Len(a)
    <3>1. PICK j \in 1 .. Len(b) : i = Len(a) + j
      <4>1. i - Len(a) \in 1 .. Len(b) /\ i = Len(a) + (i - Len(a))
        BY <1>1, <2>3
      <4>2. QED
        BY <4>1, Zenon
    <3>2. Within(p, b[j])
      BY <1>3, <2>1, <3>1, Zenon
    <3>3. QED
      BY <1>4, <3>1, <3>2, Zenon DEF Covered
  <2>4. QED
    BY <1>1, <2>2, <2>3
<1>8. QED
  BY <1>5, <1>6, <1>7, Zenon

\* No area covers nothing.
LEMMA NoneCovers == \A p : ~Covered(p, <<>>)
BY DEF Covered

\* One area covers its pixels.
LEMMA OneCovers == ASSUME NEW r, NEW p PROVE Covered(p, <<r>>) <=> Within(p, r)
<1>1. DOMAIN <<r>> = {1} /\ <<r>>[1] = r
  OBVIOUS
<1>2. QED
  BY <1>1, Zenon DEF Covered

\* What lies left of s, and what is left to be looked at.
LEMMA LeftIs ==
    ASSUME NEW r \in Rect, NEW s \in Rect
    PROVE  /\ Left(r, s) \in Seq(Rect) /\ RightOfLeft(r, s) \in Rect
           /\ \A p \in Pixel : /\ Covered(p, Left(r, s)) <=> Within(p, r) /\ p[1] < s.x
                               /\ Within(p, RightOfLeft(r, s)) <=> Within(p, r) /\ ~(p[1] < s.x)
<1>1. PICK x \in Int, y \in Int, w \in Int, h \in Int, a \in Int :
        r.x = x /\ r.y = y /\ r.w = w /\ r.h = h /\ s.x = a /\ r = RectOf(x, y, w, h)
  BY RectIs
<1>2. CASE x < a
  <2>1. PICK v \in Int : v = Lesser(w, a - x)
    BY DEF Lesser
  <2>2. Left(r, s) = <<RectOf(x, y, v, h)>>
    BY <1>1, <1>2, <2>1 DEF Left, RectOf
  <2>3. RightOfLeft(r, s) = RectOf(a, y, w - (a - x), h)
    BY <1>1, <1>2 DEF RightOfLeft, RectOf
  <2>4. PICK c \in Rect : c = RectOf(x, y, v, h) /\ c.x = x /\ c.y = y /\ c.w = v /\ c.h = h
    BY RectType
  <2>5. PICK d \in Rect : d = RectOf(a, y, w - (a - x), h) /\ d.x = a /\ d.y = y /\ d.w = w - (a - x) /\ d.h = h
    <3>1. w - (a - x) \in Int
      OBVIOUS
    <3>2. QED
      BY <3>1, RectType
  <2>6. ASSUME NEW p \in Pixel
        PROVE  /\ Covered(p, Left(r, s)) <=> Within(p, r) /\ p[1] < s.x
               /\ Within(p, RightOfLeft(r, s)) <=> Within(p, r) /\ ~(p[1] < s.x)
    <3>1. Covered(p, Left(r, s)) <=> Within(p, c)
      BY <2>2, <2>4, OneCovers, Zenon
    <3>2. Within(p, RightOfLeft(r, s)) <=> Within(p, d)
      BY <2>3, <2>5, Zenon
    <3>3. p[1] \in Int /\ p[2] \in Int
      BY PixelIs
    <3>4. Within(p, c) <=> Within(p, r) /\ p[1] < s.x
      BY <1>1, <1>2, <2>1, <2>4, <3>3 DEF Within, Lesser
    <3>5. Within(p, d) <=> Within(p, r) /\ ~(p[1] < s.x)
      BY <1>1, <1>2, <2>5, <3>3 DEF Within
    <3>6. QED
      BY <3>1, <3>2, <3>4, <3>5, Zenon
  <2>7. QED
    BY <2>2, <2>3, <2>4, <2>5, <2>6
<1>3. CASE ~(x < a)
  <2>1. Left(r, s) = <<>> /\ RightOfLeft(r, s) = r
    BY <1>1, <1>3, Zenon DEF Left, RightOfLeft
  <2>2. ASSUME NEW p \in Pixel, Within(p, r) PROVE ~(p[1] < s.x)
    <3>1. p[1] \in Int
      BY PixelIs
    <3>2. QED
      BY <1>1, <1>3, <2>2, <3>1 DEF Within
  <2>3. <<>> \in Seq(Rect)
    OBVIOUS
  <2>4. QED
    BY <2>1, <2>2, <2>3, NoneCovers, Zenon
<1>4. QED
  BY <1>2, <1>3, Zenon

\* What lies above s.
LEMMA AboveIs ==
    ASSUME NEW r \in Rect, NEW s \in Rect
    PROVE  /\ Above(r, s) \in Seq(Rect) /\ BelowTop(r, s) \in Rect
           /\ \A p \in Pixel : /\ Covered(p, Above(r, s)) <=> Within(p, r) /\ p[2] < s.y
                               /\ Within(p, BelowTop(r, s)) <=> Within(p, r) /\ ~(p[2] < s.y)
<1>1. PICK x \in Int, y \in Int, w \in Int, h \in Int, a \in Int :
        r.x = x /\ r.y = y /\ r.w = w /\ r.h = h /\ s.y = a /\ r = RectOf(x, y, w, h)
  BY RectIs
<1>2. CASE w > 0 /\ h > 0 /\ y < a
  <2>1. PICK v \in Int : v = Lesser(h, a - y)
    BY DEF Lesser
  <2>2. Above(r, s) = <<RectOf(x, y, w, v)>>
    BY <1>1, <1>2, <2>1 DEF Above, RectOf, IsOpen
  <2>3. BelowTop(r, s) = RectOf(x, a, w, h - (a - y))
    BY <1>1, <1>2 DEF BelowTop, RectOf, IsOpen
  <2>4. PICK c \in Rect : c = RectOf(x, y, w, v) /\ c.x = x /\ c.y = y /\ c.w = w /\ c.h = v
    BY RectType
  <2>5. PICK d \in Rect : d = RectOf(x, a, w, h - (a - y)) /\ d.x = x /\ d.y = a /\ d.w = w /\ d.h = h - (a - y)
    <3>1. h - (a - y) \in Int
      OBVIOUS
    <3>2. QED
      BY <3>1, RectType
  <2>6. ASSUME NEW p \in Pixel
        PROVE  /\ Covered(p, Above(r, s)) <=> Within(p, r) /\ p[2] < s.y
               /\ Within(p, BelowTop(r, s)) <=> Within(p, r) /\ ~(p[2] < s.y)
    <3>1. Covered(p, Above(r, s)) <=> Within(p, c)
      BY <2>2, <2>4, OneCovers, Zenon
    <3>2. Within(p, BelowTop(r, s)) <=> Within(p, d)
      BY <2>3, <2>5, Zenon
    <3>3. p[1] \in Int /\ p[2] \in Int
      BY PixelIs
    <3>4. Within(p, c) <=> Within(p, r) /\ p[2] < s.y
      BY <1>1, <1>2, <2>1, <2>4, <3>3 DEF Within, Lesser
    <3>5. Within(p, d) <=> Within(p, r) /\ ~(p[2] < s.y)
      BY <1>1, <1>2, <2>5, <3>3 DEF Within
    <3>6. QED
      BY <3>1, <3>2, <3>4, <3>5, Zenon
  <2>7. QED
    BY <2>2, <2>3, <2>4, <2>5, <2>6
<1>3. CASE ~(w > 0 /\ h > 0 /\ y < a)
  <2>1. Above(r, s) = <<>> /\ BelowTop(r, s) = r
    BY <1>1, <1>3, Zenon DEF Above, BelowTop, IsOpen
  <2>2. ASSUME NEW p \in Pixel, Within(p, r) PROVE ~(p[2] < s.y)
    <3>1. p[1] \in Int /\ p[2] \in Int
      BY PixelIs
    <3>2. QED
      BY <1>1, <1>3, <2>2, <3>1 DEF Within
  <2>3. <<>> \in Seq(Rect)
    OBVIOUS
  <2>4. QED
    BY <2>1, <2>2, <2>3, NoneCovers, Zenon
<1>4. QED
  BY <1>2, <1>3, Zenon

\* What lies right of s.
LEMMA RightIs ==
    ASSUME NEW r \in Rect, NEW s \in Rect
    PROVE  /\ Right(r, s) \in Seq(Rect) /\ LeftOfRight(r, s) \in Rect
           /\ \A p \in Pixel : /\ Covered(p, Right(r, s)) <=> Within(p, r) /\ ~(p[1] < s.x + s.w)
                               /\ Within(p, LeftOfRight(r, s)) <=> Within(p, r) /\ p[1] < s.x + s.w
<1>1. PICK x \in Int, y \in Int, w \in Int, h \in Int, a \in Int :
        /\ r.x = x /\ r.y = y /\ r.w = w /\ r.h = h /\ r = RectOf(x, y, w, h)
        /\ s.x + s.w = a /\ s.x \in Int /\ s.w \in Int
  <2>1. s.x \in Int /\ s.w \in Int /\ s.x + s.w \in Int
    BY RectIs
  <2>2. r.x \in Int /\ r.y \in Int /\ r.w \in Int /\ r.h \in Int /\ r = RectOf(r.x, r.y, r.w, r.h)
    BY RectIs
  <2>3. QED
    BY <2>1, <2>2, Zenon
<1>2. CASE w > 0 /\ h > 0 /\ x + w > a
  <2>1. PICK v \in Int : v = Greater(x, a)
    BY DEF Greater
  <2>2. Right(r, s) = <<RectOf(v, y, x + w - v, h)>>
    <3>1. IsOpen(r) /\ r.x + r.w > s.x + s.w /\ v = Greater(r.x, s.x + s.w)
      BY <1>1, <1>2, <2>1 DEF IsOpen
    <3>2. Right(r, s) = <<RectOf(v, r.y, r.x + r.w - v, r.h)>>
      BY <3>1, Zenon DEF Right
    <3>3. QED
      BY <1>1, <3>2
  <2>3. LeftOfRight(r, s) = RectOf(x, y, a - x, h)
    BY <1>1, <1>2 DEF LeftOfRight, RectOf, IsOpen
  <2>4. PICK c \in Rect : c = RectOf(v, y, x + w - v, h) /\ c.x = v /\ c.y = y /\ c.w = x + w - v /\ c.h = h
    <3>1. x + w - v \in Int
      OBVIOUS
    <3>2. QED
      BY <3>1, RectType
  <2>5. PICK d \in Rect : d = RectOf(x, y, a - x, h) /\ d.x = x /\ d.y = y /\ d.w = a - x /\ d.h = h
    <3>1. a - x \in Int
      OBVIOUS
    <3>2. QED
      BY <3>1, RectType
  <2>6. ASSUME NEW p \in Pixel
        PROVE  /\ Covered(p, Right(r, s)) <=> Within(p, r) /\ ~(p[1] < s.x + s.w)
               /\ Within(p, LeftOfRight(r, s)) <=> Within(p, r) /\ p[1] < s.x + s.w
    <3>1. Covered(p, Right(r, s)) <=> Within(p, c)
      BY <2>2, <2>4, OneCovers, Zenon
    <3>2. Within(p, LeftOfRight(r, s)) <=> Within(p, d)
      BY <2>3, <2>5, Zenon
    <3>3. p[1] \in Int /\ p[2] \in Int
      BY PixelIs
    <3>4. Within(p, c) <=> Within(p, r) /\ ~(p[1] < a)
      BY <1>1, <1>2, <2>1, <2>4, <3>3 DEF Within, Greater
    <3>5. Within(p, d) <=> Within(p, r) /\ p[1] < a
      BY <1>1, <1>2, <2>5, <3>3 DEF Within
    <3>6. QED
      BY <1>1, <3>1, <3>2, <3>4, <3>5, Zenon
  <2>7. QED
    BY <2>2, <2>3, <2>4, <2>5, <2>6
<1>3. CASE ~(w > 0 /\ h > 0 /\ x + w > a)
  <2>1. Right(r, s) = <<>> /\ LeftOfRight(r, s) = r
    BY <1>1, <1>3, Zenon DEF Right, LeftOfRight, IsOpen
  <2>2. ASSUME NEW p \in Pixel, Within(p, r) PROVE p[1] < s.x + s.w
    <3>1. p[1] \in Int /\ p[2] \in Int
      BY PixelIs
    <3>2. QED
      BY <1>1, <1>3, <2>2, <3>1 DEF Within
  <2>3. <<>> \in Seq(Rect)
    OBVIOUS
  <2>4. QED
    BY <2>1, <2>2, <2>3, NoneCovers, Zenon
<1>4. QED
  BY <1>2, <1>3, Zenon

\* What lies below s.
LEMMA BelowIs ==
    ASSUME NEW r \in Rect, NEW s \in Rect
    PROVE  /\ Below(r, s) \in Seq(Rect)
           /\ \A p \in Pixel : Covered(p, Below(r, s)) <=> Within(p, r) /\ ~(p[2] < s.y + s.h)
<1>1. PICK x \in Int, y \in Int, w \in Int, h \in Int, a \in Int :
        /\ r.x = x /\ r.y = y /\ r.w = w /\ r.h = h /\ r = RectOf(x, y, w, h)
        /\ s.y + s.h = a /\ s.y \in Int /\ s.h \in Int
  <2>1. s.y \in Int /\ s.h \in Int /\ s.y + s.h \in Int
    BY RectIs
  <2>2. r.x \in Int /\ r.y \in Int /\ r.w \in Int /\ r.h \in Int /\ r = RectOf(r.x, r.y, r.w, r.h)
    BY RectIs
  <2>3. QED
    BY <2>1, <2>2, Zenon
<1>2. CASE w > 0 /\ h > 0 /\ y + h > a
  <2>1. PICK v \in Int : v = Greater(y, a)
    BY DEF Greater
  <2>2. Below(r, s) = <<RectOf(x, v, w, y + h - v)>>
    <3>1. IsOpen(r) /\ r.y + r.h > s.y + s.h /\ v = Greater(r.y, s.y + s.h)
      BY <1>1, <1>2, <2>1 DEF IsOpen
    <3>2. Below(r, s) = <<RectOf(r.x, v, r.w, r.y + r.h - v)>>
      BY <3>1, Zenon DEF Below
    <3>3. QED
      BY <1>1, <3>2
  <2>3. PICK c \in Rect : c = RectOf(x, v, w, y + h - v) /\ c.x = x /\ c.y = v /\ c.w = w /\ c.h = y + h - v
    <3>1. y + h - v \in Int
      OBVIOUS
    <3>2. QED
      BY <3>1, RectType
  <2>4. ASSUME NEW p \in Pixel PROVE Covered(p, Below(r, s)) <=> Within(p, r) /\ ~(p[2] < s.y + s.h)
    <3>1. Covered(p, Below(r, s)) <=> Within(p, c)
      BY <2>2, <2>3, OneCovers, Zenon
    <3>2. p[1] \in Int /\ p[2] \in Int
      BY PixelIs
    <3>3. Within(p, c) <=> Within(p, r) /\ ~(p[2] < a)
      BY <1>1, <1>2, <2>1, <2>3, <3>2 DEF Within, Greater
    <3>4. QED
      BY <1>1, <3>1, <3>3, Zenon
  <2>5. QED
    BY <2>2, <2>3, <2>4
<1>3. CASE ~(w > 0 /\ h > 0 /\ y + h > a)
  <2>1. Below(r, s) = <<>>
    BY <1>1, <1>3, Zenon DEF Below, IsOpen
  <2>2. ASSUME NEW p \in Pixel, Within(p, r) PROVE p[2] < s.y + s.h
    <3>1. p[1] \in Int /\ p[2] \in Int
      BY PixelIs
    <3>2. QED
      BY <1>1, <1>3, <2>2, <3>1 DEF Within
  <2>3. <<>> \in Seq(Rect)
    OBVIOUS
  <2>4. QED
    BY <2>1, <2>2, <2>3, NoneCovers, Zenon
<1>4. QED
  BY <1>2, <1>3, Zenon

\* RectAreasOutside cuts off all of r that is not in s, and nothing else.
LEMMA AreasAre ==
    ASSUME NEW r \in Rect, NEW s \in Rect
    PROVE  /\ RectAreasOutside(r, s) \in Seq(Rect)
           /\ \A p \in Pixel : Covered(p, RectAreasOutside(r, s)) <=> Within(p, r) /\ ~Within(p, s)
<1>1. PICK r1 \in Rect : r1 = RightOfLeft(r, s)
  BY LeftIs, Zenon
<1>2. PICK r2 \in Rect : r2 = BelowTop(r1, s)
  BY AboveIs, Zenon
<1>3. PICK r3 \in Rect : r3 = LeftOfRight(r2, s)
  BY RightIs, Zenon
<1>4. PICK a \in Seq(Rect), b \in Seq(Rect), c \in Seq(Rect), d \in Seq(Rect) :
        a = Left(r, s) /\ b = Above(r1, s) /\ c = Right(r2, s) /\ d = Below(r3, s)
  BY LeftIs, AboveIs, RightIs, BelowIs, Zenon
<1>5. PICK ab \in Seq(Rect), abc \in Seq(Rect), all \in Seq(Rect) : ab = a \o b /\ abc = ab \o c /\ all = abc \o d
  <2>1. a \o b \in Seq(Rect) /\ (a \o b) \o c \in Seq(Rect) /\ ((a \o b) \o c) \o d \in Seq(Rect)
    OBVIOUS
  <2>2. QED
    BY <2>1, Zenon
<1>6. RectAreasOutside(r, s) = all
  BY <1>1, <1>2, <1>3, <1>4, <1>5, Zenon DEF RectAreasOutside
<1>7. ASSUME NEW p \in Pixel PROVE Covered(p, all) <=> Within(p, r) /\ ~Within(p, s)
  <2>1. /\ Covered(p, all) <=> Covered(p, abc) \/ Covered(p, d)
        /\ Covered(p, abc) <=> Covered(p, ab) \/ Covered(p, c)
        /\ Covered(p, ab) <=> Covered(p, a) \/ Covered(p, b)
    <3>1. Covered(p, abc \o d) <=> Covered(p, abc) \/ Covered(p, d)
      BY CoveredTogether
    <3>2. Covered(p, ab \o c) <=> Covered(p, ab) \/ Covered(p, c)
      BY CoveredTogether
    <3>3. Covered(p, a \o b) <=> Covered(p, a) \/ Covered(p, b)
      BY CoveredTogether
    <3>4. QED
      BY <1>5, <3>1, <3>2, <3>3, Zenon
  <2>2. /\ Covered(p, a) <=> Within(p, r) /\ p[1] < s.x
        /\ Within(p, r1) <=> Within(p, r) /\ ~(p[1] < s.x)
    BY <1>1, <1>4, LeftIs, Zenon
  <2>3. /\ Covered(p, b) <=> Within(p, r1) /\ p[2] < s.y
        /\ Within(p, r2) <=> Within(p, r1) /\ ~(p[2] < s.y)
    BY <1>2, <1>4, AboveIs, Zenon
  <2>4. /\ Covered(p, c) <=> Within(p, r2) /\ ~(p[1] < s.x + s.w)
        /\ Within(p, r3) <=> Within(p, r2) /\ p[1] < s.x + s.w
    BY <1>3, <1>4, RightIs, Zenon
  <2>5. Covered(p, d) <=> Within(p, r3) /\ ~(p[2] < s.y + s.h)
    BY <1>4, BelowIs, Zenon
  <2>6. Within(p, s) <=> ~(p[1] < s.x) /\ p[1] < s.x + s.w /\ ~(p[2] < s.y) /\ p[2] < s.y + s.h
    <3>1. p[1] \in Int /\ p[2] \in Int /\ s.x \in Int /\ s.y \in Int
      BY PixelIs, RectIs
    <3>2. (s.x <= p[1] <=> ~(p[1] < s.x)) /\ (s.y <= p[2] <=> ~(p[2] < s.y))
      BY <3>1
    <3>3. QED
      BY <3>2, Zenon DEF Within
  <2>7. QED
    BY <2>1, <2>2, <2>3, <2>4, <2>5, <2>6, Zenon
<1>8. QED
  BY <1>5, <1>6, <1>7, Zenon

-----------------------------------------------------------------------------
\* The window in front

Stacks == {s \in Seq(Frames) : \A i, j \in DOMAIN s : s[i] = s[j] => i = j}
Places == [Frames -> Rect]

\* At p the window w is the first of the chain from its k-th window on; behind
\* them all is the desktop.
FrontFrom(s, place, k, p, w) ==
    \/ w = Desktop /\ \A i \in k .. Len(s) : ~Within(p, place[s[i]])
    \/ \E i \in k .. Len(s) :
        /\ w = s[i] /\ Within(p, place[w])
        /\ \A j \in k .. Len(s) : Within(p, place[s[j]]) => i <= j

Front(s, place, p, w) == FrontFrom(s, place, 1, p, w)

\* Behind the last window is the desktop.
LEMMA DesktopIsLast ==
    ASSUME NEW s \in Seq(Frames), NEW place, NEW p
    PROVE  FrontFrom(s, place, Len(s) + 1, p, Desktop)
<1>1. \A i \in Len(s) + 1 .. Len(s) : FALSE
  OBVIOUS
<1>2. QED
  BY <1>1, Zenon DEF FrontFrom

\* A window that has the pixel is in front of those behind it.
LEMMA FrontIfWithin ==
    ASSUME NEW s \in Seq(Frames), NEW place, NEW p, NEW k \in 1 .. Len(s), Within(p, place[s[k]])
    PROVE  FrontFrom(s, place, k, p, s[k])
<1>1. k \in k .. Len(s) /\ \A j \in k .. Len(s) : k <= j
  OBVIOUS
<1>2. QED
  BY <1>1, Zenon DEF FrontFrom

\* One that has not leaves it to those behind.
LEMMA FrontIfOutside ==
    ASSUME NEW s \in Seq(Frames), NEW place, NEW p, NEW k \in 1 .. Len(s), ~Within(p, place[s[k]]), NEW w
    PROVE  FrontFrom(s, place, k, p, w) <=> FrontFrom(s, place, k + 1, p, w)
<1>1. /\ \A i \in k .. Len(s) : i = k \/ i \in k + 1 .. Len(s)
      /\ \A i \in k + 1 .. Len(s) : i \in k .. Len(s) /\ i # k
  OBVIOUS
<1>2. ASSUME FrontFrom(s, place, k, p, w) PROVE FrontFrom(s, place, k + 1, p, w)
  <2>1. CASE w = Desktop /\ \A i \in k .. Len(s) : ~Within(p, place[s[i]])
    BY <1>1, <2>1, Zenon DEF FrontFrom
  <2>2. CASE \E i \in k .. Len(s) :
                /\ w = s[i] /\ Within(p, place[w])
                /\ \A j \in k .. Len(s) : Within(p, place[s[j]]) => i <= j
    <3>1. PICK i \in k .. Len(s) :
                /\ w = s[i] /\ Within(p, place[w])
                /\ \A j \in k .. Len(s) : Within(p, place[s[j]]) => i <= j
      BY <2>2, Zenon
    <3>2. i # k
      BY <3>1, Zenon
    <3>3. i \in k + 1 .. Len(s)
      BY <1>1, <3>2, Zenon
    <3>4. \A j \in k + 1 .. Len(s) : Within(p, place[s[j]]) => i <= j
      BY <1>1, <3>1, Zenon
    <3>5. QED
      BY <3>1, <3>3, <3>4, Zenon DEF FrontFrom
  <2>3. QED
    BY <1>2, <2>1, <2>2, Zenon DEF FrontFrom
<1>3. ASSUME FrontFrom(s, place, k + 1, p, w) PROVE FrontFrom(s, place, k, p, w)
  <2>1. CASE w = Desktop /\ \A i \in k + 1 .. Len(s) : ~Within(p, place[s[i]])
    BY <1>1, <2>1, Zenon DEF FrontFrom
  <2>2. CASE \E i \in k + 1 .. Len(s) :
                /\ w = s[i] /\ Within(p, place[w])
                /\ \A j \in k + 1 .. Len(s) : Within(p, place[s[j]]) => i <= j
    <3>1. PICK i \in k + 1 .. Len(s) :
                /\ w = s[i] /\ Within(p, place[w])
                /\ \A j \in k + 1 .. Len(s) : Within(p, place[s[j]]) => i <= j
      BY <2>2, Zenon
    <3>2. i \in k .. Len(s)
      BY <1>1, Zenon
    <3>3. \A j \in k .. Len(s) : Within(p, place[s[j]]) => i <= j
      BY <1>1, <3>1, Zenon
    <3>4. QED
      BY <3>1, <3>2, <3>3, Zenon DEF FrontFrom
  <2>3. QED
    BY <1>3, <2>1, <2>2, Zenon DEF FrontFrom
<1>4. QED
  BY <1>2, <1>3, Zenon

\* Only one is in front.
LEMMA OneIsFront ==
    ASSUME NEW s \in Seq(Frames), NEW place, NEW p, NEW k \in Nat \ {0}, NEW v, NEW w,
           FrontFrom(s, place, k, p, v), FrontFrom(s, place, k, p, w)
    PROVE  v = w
<1>1. \A i \in k .. Len(s) : s[i] \in Frames
  OBVIOUS
<1>2. Desktop \notin Frames
  BY PaintingAssumption DEF Desktop
<1>3. CASE v = Desktop /\ \A i \in k .. Len(s) : ~Within(p, place[s[i]])
  BY <1>3, Zenon DEF FrontFrom
<1>4. CASE \E i \in k .. Len(s) :
                /\ v = s[i] /\ Within(p, place[v])
                /\ \A j \in k .. Len(s) : Within(p, place[s[j]]) => i <= j
  <2>1. PICK i \in k .. Len(s) :
                /\ v = s[i] /\ Within(p, place[v])
                /\ \A j \in k .. Len(s) : Within(p, place[s[j]]) => i <= j
    BY <1>4, Zenon
  <2>2. PICK m \in k .. Len(s) :
                /\ w = s[m] /\ Within(p, place[w])
                /\ \A j \in k .. Len(s) : Within(p, place[s[j]]) => m <= j
    BY <2>1, Zenon DEF FrontFrom
  <2>3. i <= m /\ m <= i
    BY <2>1, <2>2, Zenon
  <2>4. i = m
    BY <2>3
  <2>5. QED
    BY <2>1, <2>2, <2>4, Zenon
<1>5. QED
  BY <1>3, <1>4, Zenon DEF FrontFrom

\* And one always is; it is a window of the chain or the desktop.
LEMMA SomeIsFront ==
    ASSUME NEW s \in Seq(Frames), NEW place, NEW p
    PROVE  \E w \in Range(s) \cup {Desktop} : Front(s, place, p, w)
<1> DEFINE over == {i \in DOMAIN s : Within(p, place[s[i]])}
<1>1. DOMAIN s = 1 .. Len(s) /\ over \subseteq Nat
  OBVIOUS
<1>2. CASE over = {}
  BY <1>1, <1>2, Zenon DEF Front, FrontFrom
<1>3. CASE over # {}
  <2>1. PICK i \in over : \A j \in over : i <= j
    BY <1>1, <1>3, LeastNatural
  <2>2. i \in 1 .. Len(s) /\ Within(p, place[s[i]]) /\ s[i] \in Range(s)
    BY <1>1, <2>1, Zenon DEF Range
  <2>3. \A j \in 1 .. Len(s) : Within(p, place[s[j]]) => i <= j
    BY <1>1, <2>1, Zenon
  <2>4. QED
    BY <2>2, <2>3, Zenon DEF Front, FrontFrom
<1>4. QED
  BY <1>2, <1>3, Zenon

\* v stands before w in the chain.
Ahead(s, v, w) == \E i, j \in DOMAIN s : i < j /\ s[i] = v /\ s[j] = w

\* What the front is, said of windows and not of their numbers.
IsFront(s, place, p, w) ==
    IF w = Desktop THEN \A v \in Range(s) : ~Within(p, place[v])
    ELSE /\ w \in Range(s) /\ Within(p, place[w])
         /\ \A v \in Range(s) : Ahead(s, v, w) => ~Within(p, place[v])

\* The window in front, without the numbers of the chain.
LEMMA FrontIs ==
    ASSUME NEW s \in Stacks, NEW place, NEW p, NEW w
    PROVE  Front(s, place, p, w) <=> IsFront(s, place, p, w)
<1>1. s \in Seq(Frames) /\ \A i, j \in DOMAIN s : s[i] = s[j] => i = j
  BY DEF Stacks
<1>2. DOMAIN s = 1 .. Len(s) /\ \A i \in DOMAIN s : s[i] \in Frames /\ i \in Nat
  BY <1>1
<1>3. Desktop \notin Frames
  BY PaintingAssumption DEF Desktop
<1>4. CASE w = Desktop
  <2>1. Front(s, place, p, w) <=> \A i \in DOMAIN s : ~Within(p, place[s[i]])
    BY <1>2, <1>3, <1>4, Zenon DEF Front, FrontFrom
  <2>2. QED
    BY <1>4, <2>1, Zenon DEF IsFront, Range
<1>5. CASE w # Desktop
  <2>1. ASSUME Front(s, place, p, w) PROVE IsFront(s, place, p, w)
    <3>1. PICK i \in DOMAIN s : /\ w = s[i] /\ Within(p, place[w])
                                /\ \A j \in DOMAIN s : Within(p, place[s[j]]) => i <= j
      BY <1>2, <1>5, <2>1, Zenon DEF Front, FrontFrom
    <3>2. ASSUME NEW v \in Range(s), Ahead(s, v, w), Within(p, place[v]) PROVE FALSE
      <4>1. PICK a \in DOMAIN s, b \in DOMAIN s : a < b /\ s[a] = v /\ s[b] = w
        BY <3>2, Zenon DEF Ahead
      <4>2. b = i
        BY <1>1, <3>1, <4>1, Zenon
      <4>3. i <= a
        BY <3>1, <3>2, <4>1, Zenon
      <4>4. QED
        BY <1>2, <4>1, <4>2, <4>3
    <3>3. QED
      BY <1>5, <3>1, <3>2, Zenon DEF IsFront, Range
  <2>2. ASSUME IsFront(s, place, p, w) PROVE Front(s, place, p, w)
    <3>1. PICK i \in DOMAIN s : w = s[i]
      BY <1>5, <2>2, Zenon DEF IsFront, Range
    <3>2. ASSUME NEW j \in DOMAIN s, Within(p, place[s[j]]) PROVE i <= j
      <4>1. ~(j < i)
        BY <1>5, <2>2, <3>1, <3>2, Zenon DEF IsFront, Range, Ahead
      <4>2. QED
        BY <1>2, <4>1
    <3>3. Within(p, place[w])
      BY <1>5, <2>2, Zenon DEF IsFront
    <3>4. QED
      BY <1>2, <3>1, <3>2, <3>3, Zenon DEF Front, FrontFrom
  <2>3. QED
    BY <2>1, <2>2, Zenon
<1>6. QED
  BY <1>4, <1>5, Zenon

\* The chain with a window put in front.
LEMMA PutInFront ==
    ASSUME NEW s \in Stacks, NEW win \in Frames, win \notin Range(s)
    PROVE  /\ <<win>> \o s \in Stacks /\ <<win>> \o s # <<>> /\ (<<win>> \o s)[1] = win
           /\ Range(<<win>> \o s) = Range(s) \cup {win}
           /\ \A v \in Range(s) : \A w : Ahead(s, v, w) => Ahead(<<win>> \o s, v, w)
           /\ \A w \in Range(s) : Ahead(<<win>> \o s, win, w)
<1> DEFINE t == <<win>> \o s
<1>1. s \in Seq(Frames) /\ \A i, j \in DOMAIN s : s[i] = s[j] => i = j
  BY DEF Stacks
<1>2. DOMAIN s = 1 .. Len(s) /\ Len(s) \in Nat
  BY <1>1
<1>3. t \in Seq(Frames) /\ Len(t) = Len(s) + 1 /\ t[1] = win /\ \A i \in 1 .. Len(s) : t[i + 1] = s[i]
  BY <1>1
<1>4. DOMAIN t = 1 .. Len(s) + 1
  BY <1>3
<1> HIDE DEF t
<1>5. 1 \in DOMAIN t /\ \A i \in DOMAIN s : i + 1 \in DOMAIN t /\ t[i + 1] = s[i] /\ 1 < i + 1
  BY <1>2, <1>3, <1>4
<1>6. ASSUME NEW i \in DOMAIN t PROVE i = 1 \/ \E j \in DOMAIN s : i = j + 1 /\ t[i] = s[j]
  <2>1. i # 1 => i - 1 \in 1 .. Len(s) /\ i = (i - 1) + 1
    BY <1>2, <1>4
  <2>2. i # 1 => t[i] = s[i - 1]
    BY <1>5, <2>1, <1>2
  <2>3. QED
    BY <1>2, <2>1, <2>2, Zenon
<1>7. \A i \in DOMAIN s : s[i] # win
  BY Zenon DEF Range
<1>8. t \in Stacks
  <2>1. ASSUME NEW i \in DOMAIN t, NEW j \in DOMAIN t, t[i] = t[j] PROVE i = j
    <3>1. CASE i = 1 \/ j = 1
      <4>1. \A x \in DOMAIN t : t[x] = win => x = 1
        BY <1>6, <1>7, Zenon
      <4>2. QED
        BY <1>3, <2>1, <3>1, <4>1, Zenon
    <3>2. CASE i # 1 /\ j # 1
      <4>1. PICK a \in DOMAIN s : i = a + 1 /\ t[i] = s[a]
        BY <1>6, <3>2, Zenon
      <4>2. PICK b \in DOMAIN s : j = b + 1 /\ t[j] = s[b]
        BY <1>6, <3>2, Zenon
      <4>3. s[a] = s[b]
        BY <2>1, <4>1, <4>2, Zenon
      <4>4. QED
        BY <1>1, <4>1, <4>2, <4>3, Zenon
    <3>3. QED
      BY <3>1, <3>2, Zenon
  <2>2. QED
    BY <1>3, <2>1 DEF Stacks
<1>9. Range(t) = Range(s) \cup {win}
  <2>1. ASSUME NEW v \in Range(t) PROVE v \in Range(s) \cup {win}
    <3>1. PICK i \in DOMAIN t : v = t[i]
      BY Zenon DEF Range
    <3>2. QED
      <4>1. CASE i = 1
        BY <1>3, <3>1, <4>1, Zenon
      <4>2. CASE i # 1
        BY <1>6, <3>1, <4>2, Zenon DEF Range
      <4>3. QED
        BY <4>1, <4>2, Zenon
  <2>2. ASSUME NEW v \in Range(s) PROVE v \in Range(t)
    BY <1>5, Zenon DEF Range
  <2>3. win \in Range(t)
    BY <1>3, <1>5, Zenon DEF Range
  <2>4. QED
    BY <2>1, <2>2, <2>3, Zenon
<1>10. ASSUME NEW v \in Range(s), NEW w, Ahead(s, v, w) PROVE Ahead(t, v, w)
  <2>1. PICK i \in DOMAIN s, j \in DOMAIN s : i < j /\ s[i] = v /\ s[j] = w
    BY <1>10, Zenon DEF Ahead
  <2>2. i + 1 < j + 1
    BY <1>2, <2>1
  <2>3. QED
    BY <1>5, <2>1, <2>2, Zenon DEF Ahead
<1>11. ASSUME NEW w \in Range(s) PROVE Ahead(t, win, w)
  <2>1. PICK j \in DOMAIN s : s[j] = w
    BY Zenon DEF Range
  <2>2. QED
    BY <1>3, <1>5, <2>1, Zenon DEF Ahead
<1>12. t # <<>>
  BY <1>3
<1>13. QED
  BY <1>3, <1>8, <1>9, <1>10, <1>11, <1>12, Zenon DEF t

\* The chain without a window.
LEMMA WithoutIs ==
    ASSUME NEW s \in Stacks, NEW win \in Range(s)
    PROVE  /\ Without(s, win) \in Stacks
           /\ Range(Without(s, win)) = Range(s) \ {win}
           /\ \A v \in Range(s) \ {win}, w \in Range(s) \ {win} : Ahead(Without(s, win), v, w) <=> Ahead(s, v, w)
<1>1. s \in Seq(Frames) /\ \A i, j \in DOMAIN s : s[i] = s[j] => i = j
  BY DEF Stacks
<1>2. PICK n \in Nat : n = Len(s) /\ DOMAIN s = 1 .. n
  BY <1>1
<1>3. PICK k \in DOMAIN s : k = (CHOOSE i \in DOMAIN s : s[i] = win) /\ s[k] = win
  BY Zenon DEF Range
<1>4. k \in 1 .. n
  BY <1>2, <1>3
<1> DEFINE a == SubSeq(s, 1, k - 1)
           b == SubSeq(s, k + 1, Len(s))
           t == a \o b
<1>5. Without(s, win) = t
  BY <1>3, Zenon DEF Without
<1>6. a \in Seq(Frames) /\ Len(a) = k - 1 /\ \A i \in 1 .. k - 1 : a[i] = s[i]
  BY <1>1, <1>2, <1>4
<1>7. b \in Seq(Frames) /\ Len(b) = n - k /\ \A i \in 1 .. n - k : b[i] = s[k + i]
  BY <1>1, <1>2, <1>4
<1> HIDE DEF a, b
<1>8. t \in Seq(Frames) /\ Len(t) = n - 1
  BY <1>2, <1>4, <1>6, <1>7
<1>9. ASSUME NEW i \in 1 .. n - 1 PROVE t[i] = s[IF i < k THEN i ELSE i + 1]
  <2>1. CASE i < k
    <3>1. i \in 1 .. k - 1 /\ i \in 1 .. Len(a)
      BY <1>4, <1>6, <2>1
    <3>2. t[i] = a[i]
      BY <1>6, <1>7, <3>1
    <3>3. QED
      BY <1>6, <2>1, <3>1, <3>2, Zenon
  <2>2. CASE ~(i < k)
    <3>1. i - (k - 1) \in 1 .. n - k /\ k + (i - (k - 1)) = i + 1 /\ i = Len(a) + (i - (k - 1)) /\ i - (k - 1) \in 1 .. Len(b)
      BY <1>4, <1>6, <1>7, <2>2
    <3>2. t[Len(a) + (i - (k - 1))] = b[i - (k - 1)]
      BY <1>6, <1>7, <3>1
    <3>3. b[i - (k - 1)] = s[i + 1]
      BY <1>7, <3>1, Zenon
    <3>4. QED
      BY <2>2, <3>1, <3>2, <3>3, Zenon
  <2>3. QED
    BY <2>1, <2>2, Zenon
<1>10. DOMAIN t = 1 .. n - 1
  BY <1>8, <1>4
<1> HIDE DEF t
<1> DEFINE from(i) == IF i < k THEN i ELSE i + 1
<1>11. \A i \in DOMAIN t : from(i) \in DOMAIN s /\ from(i) # k /\ t[i] = s[from(i)]
  BY <1>2, <1>4, <1>9, <1>10
<1>12. \A i, j \in DOMAIN t : i < j <=> from(i) < from(j)
  BY <1>4, <1>10
<1>13. ASSUME NEW m \in DOMAIN s, m # k PROVE \E i \in DOMAIN t : from(i) = m
  <2>1. CASE m < k
    BY <1>2, <1>4, <1>10, <2>1
  <2>2. CASE ~(m < k)
    <3>1. m - 1 \in 1 .. n - 1 /\ from(m - 1) = m
      BY <1>2, <1>4, <1>13, <2>2
    <3>2. QED
      BY <1>10, <3>1, Zenon
  <2>3. QED
    BY <2>1, <2>2, Zenon
<1>14. \A i, j \in DOMAIN t : from(i) = from(j) => i = j
  BY <1>4, <1>10
<1> HIDE DEF from
<1>15. t \in Stacks
  <2>1. \A i, j \in DOMAIN t : t[i] = t[j] => i = j
    BY <1>1, <1>11, <1>14, Zenon
  <2>2. QED
    BY <1>8, <2>1 DEF Stacks, t
<1>16. Range(t) = Range(s) \ {win}
  <2>1. ASSUME NEW v \in Range(t) PROVE v \in Range(s) /\ v # win
    <3>1. PICK i \in DOMAIN t : v = t[i]
      BY Zenon DEF Range
    <3>2. v = s[from(i)] /\ from(i) \in DOMAIN s /\ from(i) # k
      BY <1>11, <3>1, Zenon
    <3>3. QED
      BY <1>1, <1>3, <3>2, Zenon DEF Range
  <2>2. ASSUME NEW v \in Range(s), v # win PROVE v \in Range(t)
    <3>1. PICK m \in DOMAIN s : v = s[m]
      BY Zenon DEF Range
    <3>2. PICK i \in DOMAIN t : from(i) = m
      BY <1>3, <1>13, <2>2, <3>1, Zenon
    <3>3. QED
      BY <1>11, <3>1, <3>2, Zenon DEF Range
  <2>3. QED
    BY <2>1, <2>2, Zenon
<1>17. ASSUME NEW v \in Range(s) \ {win}, NEW w \in Range(s) \ {win} PROVE Ahead(t, v, w) <=> Ahead(s, v, w)
  <2>1. ASSUME Ahead(t, v, w) PROVE Ahead(s, v, w)
    <3>1. PICK i \in DOMAIN t, j \in DOMAIN t : i < j /\ t[i] = v /\ t[j] = w
      BY <2>1, Zenon DEF Ahead
    <3>2. QED
      BY <1>11, <1>12, <3>1, Zenon DEF Ahead
  <2>2. ASSUME Ahead(s, v, w) PROVE Ahead(t, v, w)
    <3>1. PICK x \in DOMAIN s, y \in DOMAIN s : x < y /\ s[x] = v /\ s[y] = w
      BY <2>2, Zenon DEF Ahead
    <3>2. PICK i \in DOMAIN t : from(i) = x
      BY <1>3, <1>13, <3>1, Zenon
    <3>3. PICK j \in DOMAIN t : from(j) = y
      BY <1>3, <1>13, <3>1, Zenon
    <3>4. QED
      BY <1>11, <1>12, <3>1, <3>2, <3>3, Zenon DEF Ahead
  <2>3. QED
    BY <2>1, <2>2, Zenon
<1>18. QED
  BY <1>5, <1>15, <1>16, <1>17, Zenon

-----------------------------------------------------------------------------
\* The strokes

Tabled(f, k) == f = [j \in 0 .. k |-> f[j]]

\* Two definitions by recursion that begin alike and go on alike are the same.
LEMMA SameRecursion ==
    ASSUME NEW k \in Nat, NEW f, NEW g,
           Tabled(f, k), Tabled(g, k), f[0] = g[0],
           \A j \in 1 .. k : f[j - 1] = g[j - 1] => f[j] = g[j]
    PROVE  f = g
<1> DEFINE S == {j \in 0 .. k : f[j] = g[j]}
<1>1. 0 \in S
  OBVIOUS
<1>2. ASSUME NEW j \in 1 .. k, j - 1 \in S PROVE j \in S
  <2>1. f[j - 1] = g[j - 1] /\ j \in 0 .. k
    BY <1>2
  <2>2. f[j] = g[j]
    BY <2>1, Zenon
  <2>3. QED
    BY <2>1, <2>2, Zenon
<1> HIDE DEF S
<1>3. \A j \in 0 .. k : j \in S
  BY <1>1, <1>2, CountUp, Zenon
<1>4. \A j \in 0 .. k : f[j] = g[j]
  BY <1>3 DEF S
<1>5. QED
  BY <1>4, Zenon DEF Tabled

\* What is in two sequences put together is in one of them.
LEMMA RangeTogether ==
    ASSUME NEW S, NEW a \in Seq(S), NEW b \in Seq(S)
    PROVE  Range(a \o b) = Range(a) \cup Range(b)
<1>1. Len(a) \in Nat /\ Len(b) \in Nat /\ a \o b \in Seq(S) /\ Len(a \o b) = Len(a) + Len(b)
  BY ConcatProperties
<1>2. \A i \in 1 .. Len(a) : (a \o b)[i] = a[i]
  BY <1>1, ConcatProperties
<1>3. \A i \in 1 .. Len(b) : (a \o b)[Len(a) + i] = b[i]
  BY <1>1
<1>4. DOMAIN a = 1 .. Len(a) /\ DOMAIN b = 1 .. Len(b) /\ DOMAIN (a \o b) = 1 .. Len(a \o b)
  BY <1>1, LenProperties
<1>5. ASSUME NEW v \in Range(a) PROVE v \in Range(a \o b)
  <2>1. PICK i \in 1 .. Len(a) : v = a[i]
    BY <1>4, Zenon DEF Range
  <2>2. i \in 1 .. Len(a \o b)
    BY <1>1
  <2>3. QED
    BY <1>2, <1>4, <2>1, <2>2, Zenon DEF Range
<1>6. ASSUME NEW v \in Range(b) PROVE v \in Range(a \o b)
  <2>1. PICK i \in 1 .. Len(b) : v = b[i]
    BY <1>4, Zenon DEF Range
  <2>2. Len(a) + i \in 1 .. Len(a \o b)
    BY <1>1
  <2>3. QED
    BY <1>3, <1>4, <2>1, <2>2, Zenon DEF Range
<1>7. ASSUME NEW v \in Range(a \o b) PROVE v \in Range(a) \cup Range(b)
  <2>1. PICK i \in 1 .. Len(a \o b) : v = (a \o b)[i]
    BY <1>4, Zenon DEF Range
  <2>2. CASE i <= Len(a)
    <3>1. i \in 1 .. Len(a)
      BY <1>1, <2>2
    <3>2. QED
      BY <1>2, <1>4, <2>1, <3>1, Zenon DEF Range
  <2>3. CASE i > Len(a)
    <3>1. i - Len(a) \in 1 .. Len(b) /\ i = Len(a) + (i - Len(a))
      BY <1>1, <2>3
    <3>2. v = b[i - Len(a)]
      BY <1>3, <2>1, <3>1, Zenon
    <3>3. QED
      BY <1>4, <3>1, <3>2, Zenon DEF Range
  <2>4. QED
    BY <1>1, <2>2, <2>3
<1>8. QED
  BY <1>5, <1>6, <1>7, Zenon

\* A sequence of one element has that element.
LEMMA RangeOfOne == /\ Range(<<>>) = {}
                    /\ \A v : Range(<<v>>) = {v}
<1>1. Range(<<>>) = {}
  BY DEF Range
<1>2. ASSUME NEW v PROVE Range(<<v>>) = {v}
  BY DEF Range
<1>3. QED
  BY <1>1, <1>2, Zenon

\* A stroke of those behind in a part outside the window, or its own where
\* they overlap.
OfSplit(f, win, at, r, e) ==
    \/ \E a \in Range(RectAreasOutside(r, at)) : e \in Range(f[a])
    \/ IsOpen(RectIntersect(r, at)) /\ e = [by |-> win, at |-> RectIntersect(r, at)]

\* Split gives these.
LEMMA SplitIs ==
    ASSUME NEW f \in [Rect -> Seq(Stroke)], NEW win \in Frames, NEW at \in Rect, NEW r \in Rect
    PROVE  /\ Split(f, win, at, r) \in Seq(Stroke)
           /\ \A e : e \in Range(Split(f, win, at, r)) <=> OfSplit(f, win, at, r, e)
<1>1. PICK areas \in Seq(Rect) : areas = RectAreasOutside(r, at)
  BY AreasAre, Zenon
<1>2. PICK k \in Nat : k = Len(areas)
  OBVIOUS
<1>3. \A i \in 1 .. k : areas[i] \in Rect /\ f[areas[i]] \in Seq(Stroke)
  BY <1>2
<1> DEFINE V == Seq(Stroke)
           way == [j \in 1 .. k |-> [q \in V |-> q \o f[areas[j]]]]
           Is(h) == h = [i \in 0 .. k |-> IF i = 0 THEN <<>> ELSE h[i - 1] \o f[areas[i]]]
           own == IF IsOpen(RectIntersect(r, at)) THEN <<[by |-> win, at |-> RectIntersect(r, at)]>> ELSE <<>>
<1>4. PICK g \in [0 .. k -> V] : g[0] = <<>> /\ \A j \in 1 .. k : g[j] = way[j][g[j - 1]]
  <2>1. Recursive(k, V)
    BY RecursionIs, Zenon
  <2>2. <<>> \in V
    OBVIOUS
  <2>3. way \in [1 .. k -> [V -> V]]
    <3>1. ASSUME NEW j \in 1 .. k, NEW q \in V PROVE q \o f[areas[j]] \in V
      BY <1>3
    <3>2. QED
      BY <3>1
  <2>4. QED
    BY <2>1, <2>2, <2>3, Zenon DEF Recursive
<1>5. \A j \in 1 .. k : j \in 0 .. k /\ j - 1 \in 0 .. k /\ j # 0
  OBVIOUS
<1>6. ASSUME NEW j \in 1 .. k PROVE g[j] = g[j - 1] \o f[areas[j]]
  BY <1>4, <1>5
<1>7. g = [j \in 0 .. k |-> g[j]] /\ Tabled(g, k)
  BY <1>4 DEF Tabled
<1>8. Is(g)
  <2>1. ASSUME NEW j \in 0 .. k PROVE g[j] = IF j = 0 THEN <<>> ELSE g[j - 1] \o f[areas[j]]
    <3>1. j # 0 => j \in 1 .. k
      OBVIOUS
    <3>2. QED
      BY <1>4, <1>6, <3>1, Zenon
  <2>2. QED
    BY <1>7, <2>1, Zenon
<1>9. ASSUME NEW h, Is(h) PROVE h = g
  <2>1. Tabled(h, k)
    BY <1>9, Zenon DEF Tabled
  <2>2. 0 \in 0 .. k
    OBVIOUS
  <2>3. h[0] = g[0]
    BY <1>4, <1>9, <2>2, Zenon
  <2>4. \A j \in 1 .. k : h[j - 1] = g[j - 1] => h[j] = g[j]
    BY <1>5, <1>6, <1>9, Zenon
  <2> HIDE DEF Is
  <2>5. QED
    BY <1>2, <1>7, <2>1, <2>3, <2>4, SameRecursion, Zenon
<1>10. (CHOOSE h : Is(h)) = g
  <2>1. Is(CHOOSE h : Is(h))
    BY <1>8, Zenon
  <2>2. QED
    BY <1>9, <2>1, Zenon
<1>11. Split(f, win, at, r) = (CHOOSE h : Is(h))[k] \o own
  BY <1>1, <1>2, Zenon DEF Split
<1>12. Split(f, win, at, r) = g[k] \o own
  BY <1>10, <1>11, Zenon
<1>13. PICK o \in Seq(Stroke) :
            /\ o = own
            /\ Range(o) = IF IsOpen(RectIntersect(r, at)) THEN {[by |-> win, at |-> RectIntersect(r, at)]} ELSE {}
  <2>1. [by |-> win, at |-> RectIntersect(r, at)] \in Stroke
    BY IntersectIs DEF Stroke, Painters
  <2>2. CASE IsOpen(RectIntersect(r, at))
    <3>1. own = <<[by |-> win, at |-> RectIntersect(r, at)]>>
      BY <2>2, Zenon
    <3>2. \A e \in Stroke : <<e>> \in Seq(Stroke)
      OBVIOUS
    <3>3. QED
      BY <2>1, <2>2, <3>1, <3>2, RangeOfOne, Zenon
  <2>3. CASE ~IsOpen(RectIntersect(r, at))
    <3>1. own = <<>>
      BY <2>3, Zenon
    <3>2. <<>> \in Seq(Stroke)
      OBVIOUS
    <3>3. QED
      BY <2>3, <3>1, <3>2, RangeOfOne, Zenon
  <2>4. QED
    BY <2>2, <2>3, Zenon
<1>14. Range(g[k]) = UNION {Range(f[a]) : a \in Range(areas)}
  <2> DEFINE S == {n \in 0 .. k : Range(g[n]) = UNION {Range(f[areas[i]]) : i \in 1 .. n}}
  <2>1. 0 \in S
    BY <1>4, RangeOfOne
  <2>2. ASSUME NEW n \in 1 .. k, n - 1 \in S PROVE n \in S
    <3>1. g[n] = g[n - 1] \o f[areas[n]] /\ g[n - 1] \in Seq(Stroke) /\ f[areas[n]] \in Seq(Stroke)
      BY <1>3, <1>4, <1>5, <1>6
    <3>2. Range(g[n]) = Range(g[n - 1]) \cup Range(f[areas[n]])
      BY <3>1, RangeTogether
    <3>3. Range(g[n - 1]) = UNION {Range(f[areas[i]]) : i \in 1 .. n - 1}
      BY <2>2
    <3>4. \A i : i \in 1 .. n <=> i \in 1 .. n - 1 \/ i = n
      OBVIOUS
    <3>5. Range(g[n]) = UNION {Range(f[areas[i]]) : i \in 1 .. n}
      BY <3>2, <3>3, <3>4, Zenon
    <3>6. QED
      BY <1>5, <3>5
  <2> HIDE DEF S
  <2>3. \A n \in 0 .. k : n \in S
    BY <2>1, <2>2, CountUp, Zenon
  <2>4. Range(g[k]) = UNION {Range(f[areas[i]]) : i \in 1 .. k}
    BY <2>3 DEF S
  <2>5. DOMAIN areas = 1 .. k
    BY <1>2
  <2>6. ASSUME NEW v PROVE v \in Range(g[k]) <=> \E i \in 1 .. k : v \in Range(f[areas[i]])
    BY <2>4, Zenon
  <2>7. ASSUME NEW v PROVE v \in UNION {Range(f[a]) : a \in Range(areas)} <=> \E i \in 1 .. k : v \in Range(f[areas[i]])
    <3>1. \A a : a \in Range(areas) <=> \E i \in 1 .. k : a = areas[i]
      BY <2>5, Zenon DEF Range
    <3>2. v \in UNION {Range(f[a]) : a \in Range(areas)} <=> \E a \in Range(areas) : v \in Range(f[a])
      BY Zenon
    <3>3. QED
      BY <3>1, <3>2, Zenon
  <2>8. QED
    BY <2>6, <2>7, Zenon
<1>15. g[k] \in Seq(Stroke)
  BY <1>4
<1>16. QED
  <2>1. g[k] \o o \in Seq(Stroke) /\ Range(g[k] \o o) = Range(g[k]) \cup Range(o)
    BY <1>15, RangeTogether
  <2>2. Split(f, win, at, r) = g[k] \o o
    BY <1>12, <1>13, Zenon
  <2> HIDE DEF own, V, Is, way
  <2>3. Range(Split(f, win, at, r)) = (UNION {Range(f[a]) : a \in Range(areas)}) \cup Range(o)
    BY <1>14, <2>1, <2>2, Zenon
  <2>4. Split(f, win, at, r) \in Seq(Stroke)
    BY <2>1, <2>2, Zenon
  <2> DEFINE one == IF IsOpen(RectIntersect(r, at)) THEN {[by |-> win, at |-> RectIntersect(r, at)]} ELSE {}
  <2>5. Range(o) = one
    BY <1>13, Zenon
  <2> HIDE DEF one
  <2>6. Range(Split(f, win, at, r)) = (UNION {Range(f[a]) : a \in Range(areas)}) \cup one
    BY <2>3, <2>5, Zenon
  <2>7. ASSUME NEW e PROVE e \in one <=> IsOpen(RectIntersect(r, at)) /\ e = [by |-> win, at |-> RectIntersect(r, at)]
    BY DEF one
  <2>8. ASSUME NEW e PROVE e \in UNION {Range(f[a]) : a \in Range(areas)} <=> \E a \in Range(areas) : e \in Range(f[a])
    BY Zenon
  <2>9. ASSUME NEW e PROVE e \in Range(Split(f, win, at, r)) <=> OfSplit(f, win, at, r, e)
    BY <1>1, <2>6, <2>7, <2>8, Zenon DEF OfSplit
  <2>10. QED
    BY <2>4, <2>9, Zenon

\* Each part is drawn by the window in front there, and no pixel is left out.
Parted(f, s, place, k) ==
    \A r \in Rect, p \in Pixel :
        /\ \A e \in Range(f[r]) : Within(p, e.at) => Within(p, r) /\ FrontFrom(s, place, k, p, e.by)
        /\ Within(p, r) => \E e \in Range(f[r]) : Within(p, e.at)

\* A rectangle with a pixel in it is open: "if (overlap.w > 0 && overlap.h > 0)" is then taken.
LEMMA OpenIfWithin == ASSUME NEW r \in Rect, NEW p \in Pixel, Within(p, r) PROVE IsOpen(r)
<1>1. r.x \in Int /\ r.y \in Int /\ r.w \in Int /\ r.h \in Int /\ p[1] \in Int /\ p[2] \in Int
  BY RectIs, PixelIs
<1>2. QED
  BY <1>1 DEF Within, IsOpen

\* One window more in front.
LEMMA PartedFurther ==
    ASSUME NEW s \in Seq(Frames), NEW place \in Places, NEW k \in 1 .. Len(s),
           NEW f \in [Rect -> Seq(Stroke)], Parted(f, s, place, k + 1)
    PROVE  Parted([r \in Rect |-> Split(f, s[k], place[s[k]], r)], s, place, k)
<1>1. PICK win \in Frames : win = s[k]
  OBVIOUS
<1>2. PICK at \in Rect : at = place[win]
  BY DEF Places
<1> DEFINE g == [r \in Rect |-> Split(f, s[k], place[s[k]], r)]
<1>3. ASSUME NEW r \in Rect, NEW p \in Pixel
      PROVE  /\ \A e \in Range(g[r]) : Within(p, e.at) => Within(p, r) /\ FrontFrom(s, place, k, p, e.by)
             /\ Within(p, r) => \E e \in Range(g[r]) : Within(p, e.at)
  <2>1. g[r] = Split(f, win, at, r)
    BY <1>1, <1>2, Zenon
  <2>2. PICK areas \in Seq(Rect) : areas = RectAreasOutside(r, at)
    BY AreasAre, Zenon
  <2>3. Covered(p, areas) <=> Within(p, r) /\ ~Within(p, at)
    BY <2>2, AreasAre, Zenon
  <2>4. PICK overlap \in Rect : overlap = RectIntersect(r, at) /\ (Within(p, overlap) <=> Within(p, r) /\ Within(p, at))
    <3>1. RectIntersect(r, at) \in Rect
      BY IntersectIs, Zenon
    <3>2. QED
      BY <3>1, IntersectIs, Zenon
  <2> DEFINE own == [by |-> win, at |-> overlap]
  <2>5. \A e : e \in Range(g[r]) <=> (\E a \in Range(areas) : e \in Range(f[a])) \/ (IsOpen(overlap) /\ e = own)
    <3>1. win \in Frames /\ at \in Rect
      BY <1>1, <1>2
    <3>2. \A e : e \in Range(Split(f, win, at, r)) <=> OfSplit(f, win, at, r, e)
      BY <3>1, SplitIs, Zenon
    <3>3. QED
      BY <2>1, <2>2, <2>4, <3>2, Zenon DEF OfSplit
  <2>6. own.by = win /\ own.at = overlap
    OBVIOUS
  <2>7. Range(areas) \subseteq Rect
    BY DEF Range
  <2>8. Within(p, at) <=> Within(p, place[s[k]])
    BY <1>1, <1>2, Zenon
  <2> HIDE DEF own, g
  <2>9. ASSUME NEW e \in Range(g[r]), Within(p, e.at) PROVE Within(p, r) /\ FrontFrom(s, place, k, p, e.by)
    <3>1. CASE \E a \in Range(areas) : e \in Range(f[a])
      <4>1. PICK a \in Range(areas) : e \in Range(f[a])
        BY <3>1, Zenon
      <4>2. Within(p, a) /\ FrontFrom(s, place, k + 1, p, e.by)
        BY <2>7, <2>9, <4>1, Zenon DEF Parted
      <4>3. Covered(p, areas)
        BY <4>2, Zenon DEF Covered, Range
      <4>4. QED
        BY <2>3, <2>8, <4>2, <4>3, FrontIfOutside, Zenon
    <3>2. CASE e = own
      <4>1. Within(p, r) /\ Within(p, at)
        BY <2>4, <2>6, <2>9, <3>2, Zenon
      <4>2. QED
        BY <1>1, <2>6, <2>8, <3>2, <4>1, FrontIfWithin, Zenon
    <3>3. QED
      BY <2>5, <3>1, <3>2, Zenon
  <2>10. ASSUME Within(p, r) PROVE \E e \in Range(g[r]) : Within(p, e.at)
    <3>1. CASE Within(p, at)
      <4>1. Within(p, overlap) /\ IsOpen(overlap)
        BY <2>4, <2>10, <3>1, OpenIfWithin, Zenon
      <4>2. QED
        BY <2>5, <2>6, <4>1, Zenon
    <3>2. CASE ~Within(p, at)
      <4>1. PICK i \in DOMAIN areas : Within(p, areas[i])
        BY <2>3, <2>10, <3>2, Zenon DEF Covered
      <4>2. areas[i] \in Range(areas) /\ areas[i] \in Rect
        BY <2>7, Zenon DEF Range
      <4>3. PICK e \in Range(f[areas[i]]) : Within(p, e.at)
        BY <4>1, <4>2, Zenon DEF Parted
      <4>4. QED
        BY <2>5, <4>2, <4>3, Zenon
    <3>3. QED
      BY <3>1, <3>2, Zenon
  <2>11. QED
    BY <2>9, <2>10, Zenon
<1>4. QED
  BY <1>3, Zenon DEF Parted

\* The state the operations take and give.
PictureStates ==
    [stack : Seq(Frames), place : [Frames -> Rect], old : [Frames -> Rect], content : [Frames -> Texts],
     dirty : SUBSET Frames, dirtylines : SUBSET Frames, clip : Rect,
     screen : [Pixel -> Painters \X Shades], cache : BOOLEAN, spoiled : SUBSET Pixel]

\* The strokes of Paint(stack[first], rect) draw each pixel of rect, and what is
\* in front there draws it.
LEMMA StrokesAre ==
    ASSUME NEW st \in PictureStates, NEW first \in 1 .. Len(st.stack) + 1, NEW rect \in Rect
    PROVE  /\ Strokes(st, first, rect) \in Seq(Stroke)
           /\ \A p \in Pixel :
                /\ \A e \in Range(Strokes(st, first, rect)) :
                        Within(p, e.at) => Within(p, rect) /\ FrontFrom(st.stack, st.place, first, p, e.by)
                /\ Within(p, rect) => \E e \in Range(Strokes(st, first, rect)) : Within(p, e.at)
<1>1. PICK s \in Seq(Frames), place \in Places : s = st.stack /\ place = st.place
  BY DEF PictureStates, Places
<1>2. PICK k \in Nat : k = Len(s)
  BY <1>1
<1> DEFINE V == [Rect -> Seq(Stroke)]
           On(q, j) == [r \in Rect |-> Split(q, s[k + 1 - j], place[s[k + 1 - j]], r)]
           base == [r \in Rect |-> <<[by |-> Desktop, at |-> r]>>]
           way == [j \in 1 .. k |-> [q \in V |-> On(q, j)]]
           Is(h) == h = [n \in 0 .. k |-> IF n = 0 THEN base ELSE On(h[n - 1], n)]
<1>3. ASSUME NEW j \in 1 .. k PROVE j \in 0 .. k /\ j - 1 \in 0 .. k /\ j # 0 /\ k + 1 - j \in 1 .. Len(s) /\ k + 1 - (j - 1) = (k + 1 - j) + 1
  BY <1>2
<1>4. ASSUME NEW j \in 1 .. k, NEW q \in V PROVE On(q, j) \in V
  <2>1. s[k + 1 - j] \in Frames
    BY <1>2, <1>3
  <2>2. place[s[k + 1 - j]] \in Rect
    BY <2>1 DEF Places
  <2>3. \A r \in Rect : Split(q, s[k + 1 - j], place[s[k + 1 - j]], r) \in Seq(Stroke)
    BY <2>1, <2>2, SplitIs, Zenon
  <2>4. QED
    BY <2>3, Zenon
<1>5. base \in V /\ \A r \in Rect : Range(base[r]) = {[by |-> Desktop, at |-> r]}
  <2>1. ASSUME NEW r \in Rect PROVE [by |-> Desktop, at |-> r] \in Stroke
    BY DEF Stroke, Painters
  <2>2. \A e \in Stroke : <<e>> \in Seq(Stroke)
    OBVIOUS
  <2>3. base \in V
    BY <2>1, <2>2, Zenon
  <2>4. \A r \in Rect : base[r] = <<[by |-> Desktop, at |-> r]>>
    BY Zenon
  <2>5. QED
    BY <2>3, <2>4, RangeOfOne, Zenon
<1>6. PICK g \in [0 .. k -> V] : g[0] = base /\ \A j \in 1 .. k : g[j] = way[j][g[j - 1]]
  <2>1. Recursive(k, V)
    BY <1>2, RecursionIs, Zenon
  <2>2. way \in [1 .. k -> [V -> V]]
    BY <1>4, Zenon
  <2>3. QED
    BY <1>5, <2>1, <2>2, Zenon DEF Recursive
<1>7. ASSUME NEW j \in 0 .. k PROVE g[j] \in V
  BY <1>6, Zenon
<1>8. ASSUME NEW j \in 1 .. k PROVE g[j] = On(g[j - 1], j)
  BY <1>3, <1>6, <1>7, Zenon
<1>9. g = [j \in 0 .. k |-> g[j]] /\ Tabled(g, k)
  BY <1>6, Zenon DEF Tabled
<1> HIDE DEF base, On, V
<1>10. Is(g)
  <2>1. ASSUME NEW n \in 0 .. k PROVE g[n] = IF n = 0 THEN base ELSE On(g[n - 1], n)
    <3>1. n # 0 => n \in 1 .. k
      OBVIOUS
    <3>2. QED
      BY <1>6, <1>8, <3>1, Zenon
  <2>2. QED
    BY <1>9, <2>1, Zenon
<1>11. ASSUME NEW h, Is(h) PROVE h = g
  <2>1. Tabled(h, k)
    BY <1>11, Zenon DEF Tabled
  <2>2. 0 \in 0 .. k
    OBVIOUS
  <2>3. h[0] = g[0]
    BY <1>6, <1>11, <2>2, Zenon
  <2>4. \A j \in 1 .. k : h[j - 1] = g[j - 1] => h[j] = g[j]
    BY <1>3, <1>8, <1>11, Zenon
  <2> HIDE DEF Is
  <2>5. QED
    BY <1>2, <1>9, <2>1, <2>3, <2>4, SameRecursion, Zenon
<1>12. (CHOOSE h : Is(h)) = g
  <2>1. Is(CHOOSE h : Is(h))
    BY <1>10, Zenon
  <2>2. QED
    BY <1>11, <2>1, Zenon
<1>13. Strokes(st, first, rect) = (CHOOSE h : Is(h))[k + 1 - first][rect]
  BY <1>1, <1>2, ZenonT(60) DEF Strokes, On, base
<1>14. Strokes(st, first, rect) = g[k + 1 - first][rect]
  BY <1>12, <1>13, Zenon
<1> HIDE DEF Is, way
<1>15. \A n \in 0 .. k : Parted(g[n], s, place, k + 1 - n)
  <2> DEFINE S == {n \in 0 .. k : Parted(g[n], s, place, k + 1 - n)}
  <2>1. 0 \in S
    <3>1. ASSUME NEW r \in Rect, NEW p \in Pixel
          PROVE  /\ \A e \in Range(base[r]) : Within(p, e.at) => Within(p, r) /\ FrontFrom(s, place, k + 1, p, e.by)
                 /\ Within(p, r) => \E e \in Range(base[r]) : Within(p, e.at)
      <4>1. FrontFrom(s, place, k + 1, p, Desktop)
        BY <1>2, DesktopIsLast, Zenon
      <4>2. PICK d : d = [by |-> Desktop, at |-> r] /\ d.by = Desktop /\ d.at = r
        BY <1>2
      <4>3. \A e : e \in Range(base[r]) <=> e = d
        BY <1>5, <4>2, Zenon
      <4>4. QED
        BY <4>1, <4>2, <4>3, Zenon
    <3>2. Parted(g[0], s, place, k + 1)
      BY <1>6, <3>1, Zenon DEF Parted
    <3>3. k + 1 - 0 = k + 1 /\ 0 \in 0 .. k
      OBVIOUS
    <3>4. QED
      BY <3>2, <3>3, Zenon
  <2>2. ASSUME NEW n \in 1 .. k, n - 1 \in S PROVE n \in S
    <3>1. PICK m \in 1 .. Len(s) : m = k + 1 - n /\ k + 1 - (n - 1) = m + 1
      BY <1>3, Zenon
    <3>2. g[n - 1] \in [Rect -> Seq(Stroke)] /\ Parted(g[n - 1], s, place, m + 1)
      BY <1>3, <1>7, <2>2, <3>1, Zenon DEF V
    <3>3. Parted([r \in Rect |-> Split(g[n - 1], s[m], place[s[m]], r)], s, place, m)
      BY <3>2, PartedFurther, Zenon
    <3>4. Parted(g[n], s, place, m)
      BY <1>8, <3>1, <3>3, Zenon DEF On
    <3>5. QED
      BY <1>3, <3>1, <3>4, Zenon
  <2> HIDE DEF S
  <2>3. \A n \in 0 .. k : n \in S
    BY <1>2, <2>1, <2>2, CountUp, Zenon
  <2>4. QED
    BY <2>3, Zenon DEF S
<1>16. k + 1 - first \in 0 .. k /\ k + 1 - (k + 1 - first) = first
  BY <1>1, <1>2
<1>17. Parted(g[k + 1 - first], s, place, first) /\ g[k + 1 - first] \in V
  <2>1. Parted(g[k + 1 - first], s, place, k + 1 - (k + 1 - first))
    BY <1>15, <1>16, Zenon
  <2>2. QED
    BY <1>7, <1>16, <2>1, Zenon
<1>18. g[k + 1 - first][rect] \in Seq(Stroke)
  BY <1>17 DEF V
<1>19. QED
  BY <1>1, <1>14, <1>17, <1>18, Zenon DEF Parted

-----------------------------------------------------------------------------
\* Paint

Hows == {"forced", "dirty", "dragged"}
Pictures == [Pixel -> Painters \X Shades]

\* The shade of a window's text.
ShadeOf(st, w, how) ==
    IF how # "dragged" THEN st.content[w]
    ELSE IF w = st.stack[1] /\ st.cache THEN "copy" ELSE "blank"

\* What a pixel shows when the window w, in front there, has drawn it.
Shown(st, how, w, p, was) ==
    IF w = Desktop THEN IF Within(p, st.clip) THEN Grey ELSE was
    ELSE IF Within(p, ContentRect(st.place[w]))
    THEN IF how # "dirty" \/ w \in st.dirtylines THEN <<w, ShadeOf(st, w, how)>> ELSE was
    ELSE IF how # "dirty" \/ w \in st.dirty THEN <<w, "frame">> ELSE was

\* What is drawn twice looks as if drawn once.
LEMMA ShownAgain ==
    ASSUME NEW st, NEW how, NEW w, NEW p, NEW was
    PROVE  Shown(st, how, w, p, Shown(st, how, w, p, was)) = Shown(st, how, w, p, was)
<1>1. CASE w = Desktop
  BY <1>1, Zenon DEF Shown
<1>2. CASE w # Desktop /\ Within(p, ContentRect(st.place[w]))
  BY <1>2, Zenon DEF Shown
<1>3. CASE w # Desktop /\ ~Within(p, ContentRect(st.place[w]))
  BY <1>3, Zenon DEF Shown
<1>4. QED
  BY <1>1, <1>2, <1>3, Zenon

\* The text of a window stands in a rectangle.
LEMMA ContentRectIs == ASSUME NEW r \in Rect PROVE ContentRect(r) \in Rect
<1>1. r.x \in Int /\ r.y \in Int /\ r.h \in Int
  BY RectIs
<1>2. WINBORDER \in Int /\ WINTITLEBAR \in Int /\ ContentW \in Int
  BY PaintingAssumption
<1>3. PICK x \in Int, y \in Int, h \in Int :
        /\ x = r.x + WINBORDER /\ y = r.y + WINTITLEBAR
        /\ h = IF Minimized(r) THEN 0 ELSE r.h - WINTITLEBAR - WINBORDER
  <2>1. r.x + WINBORDER \in Int /\ r.y + WINTITLEBAR \in Int /\ r.h - WINTITLEBAR - WINBORDER \in Int
    BY <1>1, <1>2
  <2>2. (IF Minimized(r) THEN 0 ELSE r.h - WINTITLEBAR - WINBORDER) \in Int
    BY <2>1
  <2>3. QED
    BY <2>1, <2>2, Zenon
<1>4. ContentRect(r) = RectOf(x, y, ContentW, h)
  BY <1>3, Zenon DEF ContentRect
<1>5. QED
  BY <1>2, <1>4, RectType

\* Every pixel is on the screen.
LEMMA ClipIs ==
    ASSUME NEW r \in Rect
    PROVE  SetClip(r) \in Rect /\ \A p \in Pixel : Within(p, SetClip(r)) <=> Within(p, r)
<1>1. ScreenW \in Int /\ ScreenH \in Int
  BY PaintingAssumption
<1>2. PICK s \in Rect : s = screenrect /\ s.x = 0 /\ s.y = 0 /\ s.w = ScreenW /\ s.h = ScreenH
  BY <1>1, RectType DEF screenrect
<1>3. ASSUME NEW p \in Pixel PROVE Within(p, s)
  <2>1. p[1] \in 0 .. ScreenW - 1 /\ p[2] \in 0 .. ScreenH - 1
    BY DEF Pixel
  <2>2. QED
    BY <1>1, <1>2, <2>1 DEF Within
<1>4. SetClip(r) = RectIntersect(r, s)
  BY <1>2, Zenon DEF SetClip
<1>5. QED
  BY <1>3, <1>4, IntersectIs, Zenon

\* Every pixel is in the rectangle of the screen.
LEMMA ScreenHas == screenrect \in Rect /\ \A p \in Pixel : Within(p, screenrect)
<1>1. ScreenW \in Int /\ ScreenH \in Int
  BY PaintingAssumption
<1>2. PICK s \in Rect : s = screenrect /\ s.x = 0 /\ s.y = 0 /\ s.w = ScreenW /\ s.h = ScreenH
  BY <1>1, RectType DEF screenrect
<1>3. ASSUME NEW p \in Pixel PROVE Within(p, s)
  <2>1. p[1] \in 0 .. ScreenW - 1 /\ p[2] \in 0 .. ScreenH - 1
    BY DEF Pixel
  <2>2. QED
    BY <1>1, <1>2, <2>1 DEF Within
<1>4. QED
  BY <1>2, <1>3, Zenon

\* A window in front at a pixel has that pixel, and is in the chain.
LEMMA FrontHas ==
    ASSUME NEW s, NEW place, NEW k, NEW p, NEW w, FrontFrom(s, place, k, p, w), w # Desktop
    PROVE  Within(p, place[w]) /\ \E i \in k .. Len(s) : w = s[i]
BY Zenon DEF FrontFrom

\* What the fields of a state are.
LEMMA StateIs ==
    ASSUME NEW st \in PictureStates
    PROVE  /\ st.stack \in Seq(Frames) /\ st.place \in Places /\ st.old \in Places /\ st.content \in [Frames -> Texts]
           /\ st.dirty \subseteq Frames /\ st.dirtylines \subseteq Frames /\ st.clip \in Rect
           /\ st.screen \in Pictures /\ st.cache \in BOOLEAN /\ st.spoiled \subseteq Pixel
           /\ \A w \in Frames : st.place[w] \in Rect /\ st.old[w] \in Rect /\ st.content[w] \in Texts
BY DEF PictureStates, Places, Pictures

\* What a window draws: on each pixel of its own inside the clip.
LEMMA RenderIs ==
    ASSUME NEW st \in PictureStates, NEW picture \in Pictures, NEW win \in Frames, NEW clip \in Rect, NEW how \in Hows
    PROVE  /\ Render(st, picture, win, clip, how) \in Pictures
           /\ \A p \in Pixel : Render(st, picture, win, clip, how)[p] =
                IF Within(p, clip) /\ Within(p, st.place[win]) THEN Shown(st, how, win, p, picture[p]) ELSE picture[p]
<1> DEFINE frame == how # "dirty" \/ win \in st.dirty
           text == how # "dirty" \/ win \in st.dirtylines
           shade == IF how # "dragged" THEN st.content[win]
                    ELSE IF win = st.stack[1] /\ st.cache THEN "copy" ELSE "blank"
           inside == Pixels(clip) \cap Pixels(st.place[win])
           lines == Pixels(ContentRect(st.place[win]))
           Stood(p) == IF p \in inside \cap lines /\ text THEN <<win, shade>>
                       ELSE IF p \in inside \ lines /\ frame THEN <<win, "frame">>
                       ELSE picture[p]
<1>1. Render(st, picture, win, clip, how) = [p \in Pixel |-> Stood(p)]
  BY Zenon DEF Render
<1>2. st.place[win] \in Rect /\ ContentRect(st.place[win]) \in Rect
  BY StateIs, ContentRectIs, Zenon
<1>3. shade = ShadeOf(st, win, how) /\ shade \in Shades
  <2>1. st.content[win] \in Shades
    BY StateIs DEF Shades
  <2>2. "copy" \in Shades /\ "blank" \in Shades
    BY DEF Shades
  <2>3. QED
    BY <2>1, <2>2, Zenon DEF ShadeOf
<1>4. win # Desktop
  BY PaintingAssumption DEF Desktop
<1> HIDE DEF shade
<1>5. ASSUME NEW p \in Pixel
      PROVE  Stood(p) = IF Within(p, clip) /\ Within(p, st.place[win]) THEN Shown(st, how, win, p, picture[p]) ELSE picture[p]
  <2>1. /\ p \in inside <=> Within(p, clip) /\ Within(p, st.place[win])
        /\ p \in lines <=> Within(p, ContentRect(st.place[win]))
    BY <1>2, WithinIs, Zenon
  <2> HIDE DEF inside, lines
  <2>2. CASE p \in inside /\ p \in lines
    BY <1>3, <1>4, <2>1, <2>2, Zenon DEF Shown
  <2>3. CASE p \in inside /\ p \notin lines
    BY <1>4, <2>1, <2>3, Zenon DEF Shown
  <2>4. CASE p \notin inside
    BY <2>1, <2>4, Zenon
  <2>5. QED
    BY <2>2, <2>3, <2>4, Zenon
<1>6. ASSUME NEW p \in Pixel PROVE Stood(p) \in Painters \X Shades
  <2>1. <<win, shade>> \in Painters \X Shades /\ <<win, "frame">> \in Painters \X Shades
    BY <1>3 DEF Painters, Shades
  <2>2. picture[p] \in Painters \X Shades
    BY DEF Pictures
  <2>3. QED
    BY <2>1, <2>2, Zenon
<1>7. [p \in Pixel |-> Stood(p)] \in Pictures
  BY <1>6, Zenon DEF Pictures
<1> HIDE DEF Stood
<1>8. QED
  BY <1>1, <1>5, <1>7, Zenon

\* A stroke draws where it may, and what its painter shows there.
LEMMA DrawIs ==
    ASSUME NEW st \in PictureStates, NEW picture \in Pictures, NEW e \in Stroke, NEW how \in Hows
    PROVE  /\ Draw(st, picture, e, how) \in Pictures
           /\ \A p \in Pixel :
                /\ ~Within(p, e.at) => Draw(st, picture, e, how)[p] = picture[p]
                /\ Within(p, e.at) /\ (e.by = Desktop \/ Within(p, st.place[e.by]))
                        => Draw(st, picture, e, how)[p] = Shown(st, how, e.by, p, picture[p])
<1>1. e.by \in Painters /\ e.at \in Rect /\ st.clip \in Rect
  BY StateIs DEF Stroke
<1>2. CASE e.by = Desktop
  <2> DEFINE Stood(p) == IF p \in Pixels(e.at) \cap Pixels(st.clip) THEN Grey ELSE picture[p]
  <2>1. Draw(st, picture, e, how) = [p \in Pixel |-> Stood(p)]
    BY <1>2, Zenon DEF Draw
  <2>2. ASSUME NEW p \in Pixel
        PROVE  /\ Stood(p) = IF Within(p, e.at) /\ Within(p, st.clip) THEN Grey ELSE picture[p]
               /\ Stood(p) \in Painters \X Shades
    <3>1. /\ p \in Pixels(e.at) <=> Within(p, e.at)
          /\ p \in Pixels(st.clip) <=> Within(p, st.clip)
      BY <1>1, WithinIs, Zenon
    <3>2. Grey \in Painters \X Shades
      BY DEF Grey, Painters, Shades
    <3>3. picture[p] \in Painters \X Shades
      BY DEF Pictures
    <3>4. QED
      BY <3>1, <3>2, <3>3, Zenon
  <2>3. [p \in Pixel |-> Stood(p)] \in Pictures
    BY <2>2, Zenon DEF Pictures
  <2> HIDE DEF Stood
  <2>4. QED
    BY <1>2, <2>1, <2>2, <2>3, Zenon DEF Shown
<1>3. CASE e.by # Desktop
  <2>1. e.by \in Frames
    BY <1>1, <1>3, Zenon DEF Painters
  <2>2. SetClip(e.at) \in Rect /\ \A p \in Pixel : Within(p, SetClip(e.at)) <=> Within(p, e.at)
    BY <1>1, ClipIs, Zenon
  <2>3. Draw(st, picture, e, how) = Render(st, picture, e.by, SetClip(e.at), how)
    BY <1>3, Zenon DEF Draw
  <2>4. PICK w \in Frames, c \in Rect : w = e.by /\ c = SetClip(e.at)
    BY <2>1, <2>2, Zenon
  <2>5. /\ Render(st, picture, w, c, how) \in Pictures
        /\ \A p \in Pixel : Render(st, picture, w, c, how)[p] =
                IF Within(p, c) /\ Within(p, st.place[w]) THEN Shown(st, how, w, p, picture[p]) ELSE picture[p]
    BY RenderIs, Zenon
  <2>6. Draw(st, picture, e, how) = Render(st, picture, w, c, how) /\ \A p \in Pixel : Within(p, c) <=> Within(p, e.at)
    BY <2>2, <2>3, <2>4, Zenon
  <2>7. QED
    BY <1>3, <2>4, <2>5, <2>6, Zenon
<1>4. QED
  BY <1>2, <1>3, Zenon

\* What Paint makes of a state.
Repainted(st, after, first, rect, how) ==
    /\ after \in PictureStates
    /\ after.stack = st.stack /\ after.place = st.place /\ after.old = st.old /\ after.content = st.content
    /\ after.clip = st.clip /\ after.cache = st.cache /\ after.spoiled = st.spoiled
    /\ how # "forced" => after.dirty = st.dirty /\ after.dirtylines = st.dirtylines
    /\ \E met : how = "forced" => after.dirty = st.dirty \ met /\ after.dirtylines = st.dirtylines \ met
    /\ \A p \in Pixel :
        /\ ~Within(p, rect) => after.screen[p] = st.screen[p]
        /\ \A w : Within(p, rect) /\ FrontFrom(st.stack, st.place, first, p, w)
                    => after.screen[p] = Shown(st, how, w, p, st.screen[p])

\* Paint leaves each pixel of the rectangle to the window in front there.
LEMMA PaintIs ==
    ASSUME NEW st \in PictureStates, NEW first \in 1 .. Len(st.stack) + 1, NEW rect \in Rect, NEW how \in Hows
    PROVE  Repainted(st, Paint(st, first, rect, how), first, rect, how)
<1>1. PICK strokes \in Seq(Stroke) : strokes = Strokes(st, first, rect)
  BY StrokesAre, Zenon
<1>2. PICK k \in Nat : k = Len(strokes) /\ DOMAIN strokes = 1 .. k
  BY <1>1
<1>3. \A i \in 1 .. k : strokes[i] \in Stroke /\ strokes[i] \in Range(strokes)
  BY <1>2 DEF Range
<1> DEFINE way == [j \in 1 .. k |-> [q \in Pictures |-> Draw(st, q, strokes[j], how)]]
           Is(h) == h = [i \in 0 .. k |-> IF i = 0 THEN st.screen ELSE Draw(st, h[i - 1], strokes[i], how)]
<1>4. st.screen \in Pictures
  BY StateIs, Zenon
<1>5. PICK g \in [0 .. k -> Pictures] : g[0] = st.screen /\ \A j \in 1 .. k : g[j] = way[j][g[j - 1]]
  <2>1. Recursive(k, Pictures)
    BY <1>2, RecursionIs, Zenon
  <2>2. way \in [1 .. k -> [Pictures -> Pictures]]
    BY <1>3, DrawIs, Zenon
  <2>3. QED
    BY <1>4, <2>1, <2>2, Zenon DEF Recursive
<1>6. ASSUME NEW j \in 1 .. k PROVE j \in 0 .. k /\ j - 1 \in 0 .. k /\ j # 0
  BY <1>2
<1>7. ASSUME NEW j \in 0 .. k PROVE g[j] \in Pictures
  BY <1>5, Zenon
<1>8. ASSUME NEW j \in 1 .. k PROVE g[j] = Draw(st, g[j - 1], strokes[j], how)
  BY <1>5, <1>6, <1>7, Zenon
<1>9. g = [j \in 0 .. k |-> g[j]] /\ Tabled(g, k)
  BY <1>5, Zenon DEF Tabled
<1>10. Is(g)
  <2>1. ASSUME NEW n \in 0 .. k PROVE g[n] = IF n = 0 THEN st.screen ELSE Draw(st, g[n - 1], strokes[n], how)
    <3>1. n # 0 => n \in 1 .. k
      OBVIOUS
    <3>2. QED
      BY <1>5, <1>8, <3>1, Zenon
  <2>2. QED
    BY <1>9, <2>1, Zenon
<1>11. ASSUME NEW h, Is(h) PROVE h = g
  <2>1. Tabled(h, k)
    BY <1>11, Zenon DEF Tabled
  <2>2. 0 \in 0 .. k
    BY <1>2
  <2>3. h[0] = g[0]
    BY <1>5, <1>11, <2>2, Zenon
  <2>4. \A j \in 1 .. k : h[j - 1] = g[j - 1] => h[j] = g[j]
    BY <1>6, <1>8, <1>11, Zenon
  <2> HIDE DEF Is
  <2>5. QED
    BY <1>2, <1>9, <2>1, <2>3, <2>4, SameRecursion, Zenon
<1>12. (CHOOSE h : Is(h)) = g
  <2>1. Is(CHOOSE h : Is(h))
    BY <1>10, Zenon
  <2>2. QED
    BY <1>11, <2>1, Zenon
<1> DEFINE met == {strokes[i].by : i \in DOMAIN strokes}
           after == [st EXCEPT
                        !.screen = g[k],
                        !.dirty = IF how = "forced" THEN @ \ met ELSE @,
                        !.dirtylines = IF how = "forced" THEN @ \ met ELSE @]
<1>13. Paint(st, first, rect, how) = after
  <2> DEFINE drawn == [s \in Seq(Stroke) |->
                        LET f[i \in 0 .. Len(s)] == IF i = 0 THEN st.screen ELSE Draw(st, f[i - 1], s[i], how)
                        IN  f[Len(s)]]
  <2>1. drawn[strokes] = (CHOOSE h : Is(h))[k]
    BY <1>2
  <2>2. Paint(st, first, rect, how) = [st EXCEPT
                        !.screen = drawn[strokes],
                        !.dirty = IF how = "forced" THEN @ \ met ELSE @,
                        !.dirtylines = IF how = "forced" THEN @ \ met ELSE @]
    BY <1>1, Zenon DEF Paint
  <2> HIDE DEF drawn, Is
  <2>3. QED
    BY <1>12, <2>1, <2>2, Zenon
<1> HIDE DEF met, Is, way
<1>14. k \in 0 .. k
  BY <1>2
<1>15. g[k] \in [Pixel -> Painters \X Shades]
  BY <1>7, <1>14 DEF Pictures
<1>16. after \in PictureStates
  BY <1>15 DEF PictureStates
<1>17. /\ after.stack = st.stack /\ after.place = st.place /\ after.old = st.old /\ after.content = st.content
       /\ after.clip = st.clip /\ after.cache = st.cache /\ after.spoiled = st.spoiled
       /\ how # "forced" => after.dirty = st.dirty /\ after.dirtylines = st.dirtylines
       /\ how = "forced" => after.dirty = st.dirty \ met /\ after.dirtylines = st.dirtylines \ met
       /\ after.screen = g[k]
  BY DEF PictureStates
<1> HIDE DEF after
<1>18. ASSUME NEW p \in Pixel
       PROVE  /\ ~Within(p, rect) => g[k][p] = st.screen[p]
              /\ \A w : Within(p, rect) /\ FrontFrom(st.stack, st.place, first, p, w)
                            => g[k][p] = Shown(st, how, w, p, st.screen[p])
  <2>1. ASSUME NEW i \in 1 .. k, Within(p, strokes[i].at)
        PROVE  /\ Within(p, rect) /\ FrontFrom(st.stack, st.place, first, p, strokes[i].by)
               /\ strokes[i].by = Desktop \/ Within(p, st.place[strokes[i].by])
    <3>1. Within(p, rect) /\ FrontFrom(st.stack, st.place, first, p, strokes[i].by)
      BY <1>1, <1>3, <2>1, StrokesAre, Zenon
    <3>2. QED
      BY <3>1, FrontHas, Zenon
  <2> DEFINE hit(n) == \E i \in 1 .. n : Within(p, strokes[i].at)
             Fine(n) == /\ ~hit(n) => g[n][p] = st.screen[p]
                        /\ \A w : hit(n) /\ FrontFrom(st.stack, st.place, first, p, w)
                                    => g[n][p] = Shown(st, how, w, p, st.screen[p])
             S == {n \in 0 .. k : Fine(n)}
  <2>2. 0 \in S
    <3>1. ~hit(0) /\ 0 \in 0 .. k
      BY <1>2
    <3>2. QED
      BY <1>5, <3>1, Zenon
  <2>3. ASSUME NEW n \in 1 .. k, n - 1 \in S PROVE n \in S
    <3>1. hit(n) <=> hit(n - 1) \/ Within(p, strokes[n].at)
      <4>1. \A i : i \in 1 .. n <=> i \in 1 .. n - 1 \/ i = n
        BY <1>2
      <4>2. QED
        BY <4>1, Zenon
    <3>2. Fine(n - 1)
      BY <2>3, Zenon
    <3> HIDE DEF hit
    <3>3. PICK e \in Stroke, q \in Pictures : e = strokes[n] /\ q = g[n - 1] /\ g[n] = Draw(st, q, e, how)
      BY <1>3, <1>6, <1>7, <1>8, Zenon
    <3>4. CASE ~Within(p, e.at)
      <4>1. g[n][p] = g[n - 1][p]
        <5>1. Draw(st, q, e, how)[p] = q[p]
          BY <3>3, <3>4, DrawIs, Zenon
        <5>2. QED
          BY <3>3, <5>1, Zenon
      <4>2. QED
        BY <1>6, <3>1, <3>2, <3>3, <3>4, <4>1, Zenon
    <3>5. CASE Within(p, e.at)
      <4>1. /\ FrontFrom(st.stack, st.place, first, p, e.by)
            /\ e.by = Desktop \/ Within(p, st.place[e.by])
        BY <2>1, <3>3, <3>5, Zenon
      <4>2. g[n][p] = Shown(st, how, e.by, p, g[n - 1][p])
        <5>1. Draw(st, q, e, how)[p] = Shown(st, how, e.by, p, q[p])
          BY <3>3, <3>5, <4>1, DrawIs, Zenon
        <5>2. QED
          BY <3>3, <5>1, Zenon
      <4>3. g[n][p] = Shown(st, how, e.by, p, st.screen[p])
        <5>1. CASE hit(n - 1)
          <6>1. g[n - 1][p] = Shown(st, how, e.by, p, st.screen[p])
            BY <3>2, <4>1, <5>1, Zenon
          <6>2. Shown(st, how, e.by, p, g[n - 1][p]) = Shown(st, how, e.by, p, st.screen[p])
            <7>1. PICK was, by : was = st.screen[p] /\ by = e.by
              BY Zenon
            <7>2. Shown(st, how, by, p, Shown(st, how, by, p, was)) = Shown(st, how, by, p, was)
              BY ShownAgain
            <7>3. QED
              BY <6>1, <7>1, <7>2, Zenon
          <6>3. QED
            BY <4>2, <6>2, Zenon
        <5>2. CASE ~hit(n - 1)
          BY <3>2, <4>2, <5>2, Zenon
        <5>3. QED
          BY <5>1, <5>2, Zenon
      <4>4. ASSUME NEW w, FrontFrom(st.stack, st.place, first, p, w) PROVE w = e.by
        <5>1. st.stack \in Seq(Frames) /\ first \in Nat \ {0}
          BY StateIs
        <5>2. QED
          BY <4>1, <4>4, <5>1, OneIsFront, Zenon
      <4>5. hit(n)
        BY <3>1, <3>3, <3>5, Zenon
      <4>6. QED
        BY <1>6, <4>3, <4>4, <4>5, Zenon
    <3>6. QED
      BY <3>4, <3>5, Zenon
  <2> HIDE DEF S
  <2>4. \A n \in 0 .. k : n \in S
    BY <1>2, <2>2, <2>3, CountUp, Zenon
  <2>5. Fine(k)
    BY <1>14, <2>4, Zenon DEF S
  <2>6. Within(p, rect) => hit(k)
    <3>1. Within(p, rect) => \E e \in Range(strokes) : Within(p, e.at)
      BY <1>1, StrokesAre, Zenon
    <3>2. QED
      BY <1>2, <3>1, Zenon DEF Range
  <2>7. hit(k) => Within(p, rect)
    BY <2>1, Zenon
  <2>8. QED
    BY <2>5, <2>6, <2>7, Zenon
<1>19. Repainted(st, after, first, rect, how)
  <2>1. ASSUME NEW p \in Pixel
        PROVE  /\ ~Within(p, rect) => after.screen[p] = st.screen[p]
               /\ \A w : Within(p, rect) /\ FrontFrom(st.stack, st.place, first, p, w)
                             => after.screen[p] = Shown(st, how, w, p, st.screen[p])
    BY <1>17, <1>18, Zenon
  <2>2. \E some : how = "forced" => after.dirty = st.dirty \ some /\ after.dirtylines = st.dirtylines \ some
    BY <1>17, Zenon
  <2>3. QED
    BY <1>16, <1>17, <2>1, <2>2, Zenon DEF Repainted
<1>20. QED
  BY <1>13, <1>19, Zenon

-----------------------------------------------------------------------------
\* What is right on the screen

InText(st, p, w) == Within(p, ContentRect(st.place[w]))
Due(st, p, w) == IF InText(st, p, w) THEN <<w, st.content[w]>> ELSE <<w, "frame">>

\* A pixel shows the window in front there, but for a window that waits for its
\* repaint or whose text does.
FineAt(st, p, w) ==
    IF w = Desktop THEN st.screen[p] = Grey
    ELSE \/ w \in st.dirty
         \/ st.screen[p] = Due(st, p, w)
         \/ w \in st.dirtylines /\ InText(st, p, w) /\ st.screen[p][1] = w

AllFine(st) == \A p \in Pixel \ st.spoiled : \A w : Front(st.stack, st.place, p, w) => FineAt(st, p, w)

Whole(r) == r.w = ContentW + 2 * WINBORDER /\ r.h = ContentH + WINTITLEBAR + WINBORDER
Small(r) == r.w = MinimizedW /\ r.h = WINTITLEBAR

\* The windows of the chain are whole or minimized, and what waits is among them.
Sized(st) == \A w \in Range(st.stack) : Whole(st.old[w]) /\ (Whole(st.place[w]) \/ Small(st.place[w]))
Sound(st) ==
    /\ st \in PictureStates /\ st.stack \in Stacks
    /\ st.dirty \subseteq st.dirtylines /\ st.dirtylines \subseteq Range(st.stack)
    /\ Sized(st)

\* Where the windows are and what they hold is the same.
SameScene(st, after) ==
    /\ after.stack = st.stack /\ after.place = st.place /\ after.old = st.old /\ after.content = st.content
    /\ after.cache = st.cache /\ after.spoiled = st.spoiled

\* Paint(wintopmost, ...) begins at a place of the chain.
LEMMA FirstIs == ASSUME NEW st \in PictureStates PROVE 1 \in 1 .. Len(st.stack) + 1
<1>1. Len(st.stack) \in Nat
  BY StateIs
<1>2. QED
  BY <1>1

\* The three ways to draw.
LEMMA HowsAre == "forced" \in Hows /\ "dirty" \in Hows /\ "dragged" \in Hows
BY DEF Hows

\* Setting bb.cliprect changes nothing else.
LEMMA ClippedIs ==
    ASSUME NEW st \in PictureStates, NEW r \in Rect
    PROVE  /\ Clipped(st, r) \in PictureStates /\ Clipped(st, r).clip = SetClip(r)
           /\ SameScene(st, Clipped(st, r))
           /\ Clipped(st, r).dirty = st.dirty /\ Clipped(st, r).dirtylines = st.dirtylines
           /\ Clipped(st, r).screen = st.screen
<1>1. SetClip(r) \in Rect
  BY ClipIs, Zenon
<1>2. QED
  BY <1>1 DEF Clipped, PictureStates, SameScene

\* A window is clean after this.
Cleaned(st, after, win) ==
    /\ after \in PictureStates /\ SameScene(st, after)
    /\ after.dirty = st.dirty \ {win} /\ after.dirtylines = st.dirtylines \ {win}

\* A repaint that reaches all that waits of a window leaves it clean, and no
\* other pixel worse than it was.
LEMMA RepaintedIsFine ==
    ASSUME NEW st, Sound(st), AllFine(st), NEW win \in Range(st.stack), NEW rect \in Rect,
           NEW clipped, clipped.stack = st.stack, clipped.place = st.place, clipped.content = st.content,
           clipped.dirty = st.dirty, clipped.dirtylines = st.dirtylines, clipped.screen = st.screen,
           NEW painted, Repainted(clipped, painted, 1, rect, "dirty"),
           NEW after, Cleaned(st, after, win), after.screen = painted.screen,
           \A p \in Pixel : Front(st.stack, st.place, p, win)
                => Within(p, rect) \/ (win \notin st.dirty /\ ~InText(st, p, win))
    PROVE  AllFine(after)
<1> SUFFICES ASSUME NEW p \in Pixel \ st.spoiled, NEW w, Front(st.stack, st.place, p, w)
             PROVE  FineAt(after, p, w)
  BY Zenon DEF AllFine, Cleaned, SameScene
<1>1. FineAt(st, p, w)
  BY Zenon DEF AllFine
<1>2. /\ ~Within(p, rect) => after.screen[p] = st.screen[p]
      /\ Within(p, rect) => after.screen[p] = Shown(clipped, "dirty", w, p, st.screen[p])
  <2>1. /\ ~Within(p, rect) => painted.screen[p] = clipped.screen[p]
        /\ Within(p, rect) /\ FrontFrom(clipped.stack, clipped.place, 1, p, w)
                => painted.screen[p] = Shown(clipped, "dirty", w, p, clipped.screen[p])
    BY Zenon DEF Repainted
  <2>2. FrontFrom(clipped.stack, clipped.place, 1, p, w)
    BY Zenon DEF Front
  <2>3. QED
    BY <2>1, <2>2, Zenon
<1>3. st.dirty \subseteq st.dirtylines
  BY Zenon DEF Sound
<1>4. /\ InText(after, p, w) <=> InText(st, p, w)
      /\ Due(after, p, w) = Due(st, p, w)
      /\ w # win => (w \in after.dirty <=> w \in st.dirty)
  BY Zenon DEF Cleaned, SameScene, InText, Due
<1>5. CASE w = Desktop
  <2>1. st.screen[p] = Grey
    BY <1>1, <1>5, Zenon DEF FineAt
  <2>2. Shown(clipped, "dirty", w, p, st.screen[p]) = Grey
    BY <1>5, <2>1, Zenon DEF Shown
  <2>3. QED
    BY <1>2, <1>5, <2>1, <2>2, Zenon DEF FineAt
<1>6. CASE w # Desktop
  <2>1. w \in st.dirty \/ st.screen[p] = Due(st, p, w) \/ (w \in st.dirtylines /\ InText(st, p, w) /\ st.screen[p][1] = w)
    BY <1>1, <1>6, Zenon DEF FineAt
  <2>2. SUFFICES ASSUME w = win \/ w \notin st.dirty
                 PROVE  \/ after.screen[p] = Due(st, p, w)
                        \/ w # win /\ w \in st.dirtylines /\ InText(st, p, w) /\ after.screen[p][1] = w
    <3>1. w # win => (w \in after.dirtylines <=> w \in st.dirtylines)
      BY Zenon DEF Cleaned
    <3>2. QED
      BY <1>4, <1>6, <2>2, <3>1, Zenon DEF FineAt
  <2>3. Shown(clipped, "dirty", w, p, st.screen[p]) =
            IF InText(st, p, w) THEN IF w \in st.dirtylines THEN Due(st, p, w) ELSE st.screen[p]
            ELSE IF w \in st.dirty THEN Due(st, p, w) ELSE st.screen[p]
    <3>1. "dirty" # "dragged"
      OBVIOUS
    <3>2. ShadeOf(clipped, w, "dirty") = st.content[w]
      BY <3>1, Zenon DEF ShadeOf
    <3>3. QED
      BY <1>6, <3>2, Zenon DEF Shown, InText, Due
  <2>4. CASE Within(p, rect)
    <3>1. CASE InText(st, p, w)
      BY <1>2, <1>3, <2>1, <2>2, <2>3, <2>4, <3>1, Zenon
    <3>2. CASE ~InText(st, p, w)
      BY <1>2, <1>3, <2>1, <2>2, <2>3, <2>4, <3>2, Zenon
    <3>3. QED
      BY <3>1, <3>2, Zenon
  <2>5. CASE ~Within(p, rect)
    <3>1. after.screen[p] = st.screen[p]
      BY <1>2, <2>5, Zenon
    <3>2. CASE w = win
      BY <1>3, <2>1, <2>5, <3>1, <3>2, Zenon
    <3>3. CASE w # win
      BY <2>1, <2>2, <3>1, <3>3, Zenon
    <3>4. QED
      BY <3>2, <3>3, Zenon
  <2>6. QED
    BY <2>4, <2>5, Zenon
<1>7. QED
  BY <1>5, <1>6, Zenon

\* Clearing the marks of a window.
LEMMA MarksCleared ==
    ASSUME NEW st \in PictureStates, NEW win
    PROVE  /\ [st EXCEPT !.dirty = @ \ {win}, !.dirtylines = @ \ {win}] \in PictureStates
           /\ SameScene(st, [st EXCEPT !.dirty = @ \ {win}, !.dirtylines = @ \ {win}])
           /\ [st EXCEPT !.dirty = @ \ {win}, !.dirtylines = @ \ {win}].dirty = st.dirty \ {win}
           /\ [st EXCEPT !.dirty = @ \ {win}, !.dirtylines = @ \ {win}].dirtylines = st.dirtylines \ {win}
           /\ [st EXCEPT !.dirty = @ \ {win}, !.dirtylines = @ \ {win}].screen = st.screen
           /\ [st EXCEPT !.dirtylines = @ \ {win}] \in PictureStates
           /\ SameScene(st, [st EXCEPT !.dirtylines = @ \ {win}])
           /\ [st EXCEPT !.dirtylines = @ \ {win}].dirty = st.dirty
           /\ [st EXCEPT !.dirtylines = @ \ {win}].dirtylines = st.dirtylines \ {win}
           /\ [st EXCEPT !.dirtylines = @ \ {win}].screen = st.screen
BY DEF PictureStates, SameScene

\* RepaintOne leaves its window clean, whatever the state.
LEMMA RepaintOneIs ==
    ASSUME NEW st \in PictureStates, NEW win \in Frames
    PROVE  /\ RepaintOne(st, win) \in PictureStates
           /\ Cleaned(st, RepaintOne(st, win), win)
           /\ Sound(st) /\ AllFine(st) /\ win \in Range(st.stack) => AllFine(RepaintOne(st, win))
<1>1. st.place[win] \in Rect /\ ContentRect(st.place[win]) \in Rect
  BY StateIs, ContentRectIs, Zenon
<1>2. CASE win \in st.dirty
  <2>1. PICK rect \in Rect : rect = st.place[win]
    BY <1>1, Zenon
  <2>2. PICK clipped \in PictureStates : clipped = Clipped(st, rect)
    BY ClippedIs, Zenon
  <2>3. SameScene(st, clipped) /\ clipped.dirty = st.dirty /\ clipped.dirtylines = st.dirtylines /\ clipped.screen = st.screen
    BY <2>2, ClippedIs, Zenon
  <2>4. PICK painted : painted = Paint(clipped, 1, rect, "dirty") /\ Repainted(clipped, painted, 1, rect, "dirty")
    <3>1. 1 \in 1 .. Len(clipped.stack) + 1
      BY FirstIs
    <3>2. Repainted(clipped, Paint(clipped, 1, rect, "dirty"), 1, rect, "dirty")
      BY <3>1, PaintIs, HowsAre, Zenon
    <3>3. QED
      BY <3>2, Zenon
  <2>5. PICK after : after = [painted EXCEPT !.dirty = @ \ {win}, !.dirtylines = @ \ {win}]
    BY Zenon
  <2>6. RepaintOne(st, win) = after
    BY <1>2, <2>1, <2>2, <2>4, <2>5, Zenon DEF RepaintOne
  <2>7. painted \in PictureStates /\ SameScene(st, painted) /\ painted.dirty = st.dirty /\ painted.dirtylines = st.dirtylines
    <3>1. "dirty" # "forced"
      OBVIOUS
    <3>2. QED
      BY <2>3, <2>4, <3>1, Zenon DEF Repainted, SameScene
  <2>8. Cleaned(st, after, win) /\ after.screen = painted.screen
    <3>1. /\ after \in PictureStates /\ SameScene(painted, after) /\ after.screen = painted.screen
          /\ after.dirty = painted.dirty \ {win} /\ after.dirtylines = painted.dirtylines \ {win}
      BY <2>5, <2>7, MarksCleared, Zenon
    <3>2. QED
      BY <2>7, <3>1, Zenon DEF Cleaned, SameScene
  <2>9. ASSUME Sound(st), AllFine(st), win \in Range(st.stack) PROVE AllFine(after)
    <3>1. \A p \in Pixel : Front(st.stack, st.place, p, win) => Within(p, rect)
      <4>1. win # Desktop
        BY PaintingAssumption DEF Desktop
      <4>2. QED
        BY <2>1, <4>1, FrontHas, Zenon DEF Front
    <3>2. clipped.stack = st.stack /\ clipped.place = st.place /\ clipped.content = st.content
      BY <2>3, Zenon DEF SameScene
    <3>3. QED
      BY <2>3, <2>4, <2>8, <2>9, <3>1, <3>2, RepaintedIsFine, Zenon
  <2>10. QED
    BY <2>6, <2>8, <2>9, Zenon DEF Cleaned
<1>3. CASE win \notin st.dirty /\ win \in st.dirtylines
  <2>1. PICK rect \in Rect : rect = ContentRect(st.place[win])
    BY <1>1, Zenon
  <2>2. PICK clipped \in PictureStates : clipped = Clipped(st, rect)
    BY ClippedIs, Zenon
  <2>3. SameScene(st, clipped) /\ clipped.dirty = st.dirty /\ clipped.dirtylines = st.dirtylines /\ clipped.screen = st.screen
    BY <2>2, ClippedIs, Zenon
  <2>4. PICK painted : painted = Paint(clipped, 1, rect, "dirty") /\ Repainted(clipped, painted, 1, rect, "dirty")
    <3>1. 1 \in 1 .. Len(clipped.stack) + 1
      BY FirstIs
    <3>2. Repainted(clipped, Paint(clipped, 1, rect, "dirty"), 1, rect, "dirty")
      BY <3>1, PaintIs, HowsAre, Zenon
    <3>3. QED
      BY <3>2, Zenon
  <2>5. PICK after : after = [painted EXCEPT !.dirtylines = @ \ {win}]
    BY Zenon
  <2>6. RepaintOne(st, win) = after
    BY <1>3, <2>1, <2>2, <2>4, <2>5, Zenon DEF RepaintOne
  <2>7. painted \in PictureStates /\ SameScene(st, painted) /\ painted.dirty = st.dirty /\ painted.dirtylines = st.dirtylines
    <3>1. "dirty" # "forced"
      OBVIOUS
    <3>2. QED
      BY <2>3, <2>4, <3>1, Zenon DEF Repainted, SameScene
  <2>8. Cleaned(st, after, win) /\ after.screen = painted.screen
    <3>1. /\ after \in PictureStates /\ SameScene(painted, after) /\ after.screen = painted.screen
          /\ after.dirty = painted.dirty /\ after.dirtylines = painted.dirtylines \ {win}
      BY <2>5, <2>7, MarksCleared, Zenon
    <3>2. st.dirty \ {win} = st.dirty
      BY <1>3, Zenon
    <3>3. QED
      BY <2>7, <3>1, <3>2, Zenon DEF Cleaned, SameScene
  <2>9. ASSUME Sound(st), AllFine(st), win \in Range(st.stack) PROVE AllFine(after)
    <3>1. \A p \in Pixel : Within(p, rect) \/ (win \notin st.dirty /\ ~InText(st, p, win))
      BY <1>3, <2>1, Zenon DEF InText
    <3>2. clipped.stack = st.stack /\ clipped.place = st.place /\ clipped.content = st.content
      BY <2>3, Zenon DEF SameScene
    <3>3. QED
      BY <2>3, <2>4, <2>8, <2>9, <3>1, <3>2, RepaintedIsFine, Zenon
  <2>10. QED
    BY <2>6, <2>8, <2>9, Zenon DEF Cleaned
<1>4. CASE win \notin st.dirty /\ win \notin st.dirtylines
  <2>1. RepaintOne(st, win) = st
    BY <1>4, Zenon DEF RepaintOne
  <2>2. st.dirty \ {win} = st.dirty /\ st.dirtylines \ {win} = st.dirtylines
    BY <1>4, Zenon
  <2>3. QED
    BY <2>1, <2>2, Zenon DEF Cleaned, SameScene
<1>5. QED
  BY <1>2, <1>3, <1>4, Zenon

\* When the windows are the same and less waits, the state is as sound.
LEMMA SoundAfter ==
    ASSUME NEW st, Sound(st), NEW after \in PictureStates, SameScene(st, after), NEW less,
           after.dirty = st.dirty \ less, after.dirtylines = st.dirtylines \ less
    PROVE  Sound(after)
<1>1. st.dirty \subseteq st.dirtylines /\ st.dirtylines \subseteq Range(st.stack) /\ st.stack \in Stacks /\ Sized(st)
  BY Zenon DEF Sound
<1>2. after.stack = st.stack /\ Sized(after)
  BY <1>1, Zenon DEF SameScene, Sized
<1>3. QED
  BY <1>1, <1>2, Zenon DEF Sound

\* "repaint any dirty windows": none is dirty then, and every pixel right that was.
LEMMA RepaintDirtyIs ==
    ASSUME NEW st, Sound(st), AllFine(st)
    PROVE  /\ Sound(RepaintDirty(st)) /\ AllFine(RepaintDirty(st)) /\ SameScene(st, RepaintDirty(st))
           /\ RepaintDirty(st).dirty = {} /\ RepaintDirty(st).dirtylines = {}
<1>1. st \in PictureStates
  BY Zenon DEF Sound
<1>2. PICK s \in Seq(Frames) : s = st.stack
  BY <1>1, StateIs, Zenon
<1>3. PICK k \in Nat : k = Len(s) /\ DOMAIN s = 1 .. k
  BY <1>2
<1>4. \A j \in 1 .. k : s[j] \in Frames /\ s[j] \in Range(s)
  BY <1>3 DEF Range
<1> DEFINE way == [j \in 1 .. k |-> [q \in PictureStates |-> RepaintOne(q, s[j])]]
           Is(h) == h = [n \in 0 .. k |-> IF n = 0 THEN st ELSE RepaintOne(h[n - 1], s[n])]
<1>5. PICK g \in [0 .. k -> PictureStates] : g[0] = st /\ \A j \in 1 .. k : g[j] = way[j][g[j - 1]]
  <2>1. Recursive(k, PictureStates)
    BY <1>3, RecursionIs, Zenon
  <2>2. way \in [1 .. k -> [PictureStates -> PictureStates]]
    BY <1>4, RepaintOneIs, Zenon
  <2>3. QED
    BY <1>1, <2>1, <2>2, Zenon DEF Recursive
<1>6. ASSUME NEW j \in 1 .. k PROVE j \in 0 .. k /\ j - 1 \in 0 .. k /\ j # 0
  BY <1>3
<1>7. ASSUME NEW j \in 0 .. k PROVE g[j] \in PictureStates
  BY <1>5, Zenon
<1>8. ASSUME NEW j \in 1 .. k PROVE g[j] = RepaintOne(g[j - 1], s[j])
  BY <1>5, <1>6, <1>7, Zenon
<1>9. g = [j \in 0 .. k |-> g[j]] /\ Tabled(g, k)
  BY <1>5, Zenon DEF Tabled
<1>10. Is(g)
  <2>1. ASSUME NEW n \in 0 .. k PROVE g[n] = IF n = 0 THEN st ELSE RepaintOne(g[n - 1], s[n])
    <3>1. n # 0 => n \in 1 .. k
      OBVIOUS
    <3>2. QED
      BY <1>5, <1>8, <3>1, Zenon
  <2>2. QED
    BY <1>9, <2>1, Zenon
<1>11. ASSUME NEW h, Is(h) PROVE h = g
  <2>1. Tabled(h, k)
    BY <1>11, Zenon DEF Tabled
  <2>2. 0 \in 0 .. k
    BY <1>3
  <2>3. h[0] = g[0]
    BY <1>5, <1>11, <2>2, Zenon
  <2>4. \A j \in 1 .. k : h[j - 1] = g[j - 1] => h[j] = g[j]
    BY <1>6, <1>8, <1>11, Zenon
  <2> HIDE DEF Is
  <2>5. QED
    BY <1>3, <1>9, <2>1, <2>3, <2>4, SameRecursion, Zenon
<1>12. (CHOOSE h : Is(h)) = g
  <2>1. Is(CHOOSE h : Is(h))
    BY <1>10, Zenon
  <2>2. QED
    BY <1>11, <2>1, Zenon
<1>13. RepaintDirty(st) = g[k]
  <2>1. RepaintDirty(st) = (CHOOSE h : Is(h))[k]
    BY <1>2, <1>3, Zenon DEF RepaintDirty
  <2>2. QED
    BY <1>12, <2>1, Zenon
<1> HIDE DEF Is, way
<1> DEFINE Good(n) == /\ Sound(g[n]) /\ AllFine(g[n]) /\ SameScene(st, g[n])
                      /\ \A i \in 1 .. n : s[i] \notin g[n].dirtylines
           S == {n \in 0 .. k : Good(n)}
<1>14. 0 \in S
  <2>1. 0 \in 0 .. k /\ \A i \in 1 .. 0 : FALSE
    BY <1>3
  <2>2. QED
    BY <1>5, <2>1, Zenon DEF SameScene
<1>15. ASSUME NEW n \in 1 .. k, n - 1 \in S PROVE n \in S
  <2>1. PICK q \in PictureStates, win \in Frames :
            q = g[n - 1] /\ win = s[n] /\ Sound(q) /\ AllFine(q) /\ SameScene(st, q) /\ win \in Range(q.stack)
    BY <1>2, <1>4, <1>6, <1>7, <1>15, Zenon DEF SameScene
  <2>2. PICK r \in PictureStates : r = RepaintOne(q, win) /\ r = g[n]
    BY <1>6, <1>7, <1>8, <2>1, Zenon
  <2>3. Cleaned(q, r, win) /\ AllFine(r)
    BY <2>1, <2>2, RepaintOneIs, Zenon
  <2>4. SameScene(q, r) /\ r.dirty = q.dirty \ {win} /\ r.dirtylines = q.dirtylines \ {win}
    BY <2>3, Zenon DEF Cleaned
  <2>5. Sound(r)
    BY <2>1, <2>4, SoundAfter, Zenon
  <2>6. SameScene(st, r)
    BY <2>1, <2>4, Zenon DEF SameScene
  <2>7. \A i \in 1 .. n - 1 : s[i] \notin q.dirtylines
    BY <1>15, <2>1, Zenon
  <2>8. \A i \in 1 .. n : i \in 1 .. n - 1 \/ i = n
    BY <1>3
  <2>9. \A i \in 1 .. n : s[i] \notin r.dirtylines
    BY <2>1, <2>4, <2>7, <2>8, Zenon
  <2>10. QED
    BY <1>6, <2>2, <2>3, <2>5, <2>6, <2>9, Zenon
<1> HIDE DEF S
<1>16. \A n \in 0 .. k : n \in S
  BY <1>3, <1>14, <1>15, CountUp, Zenon
<1>17. k \in 0 .. k
  BY <1>3
<1>18. Good(k)
  BY <1>16, <1>17, Zenon DEF S
<1>19. g[k].dirtylines = {} /\ g[k].dirty = {}
  <2>1. g[k].dirtylines \subseteq Range(s) /\ g[k].dirty \subseteq g[k].dirtylines
    BY <1>2, <1>18, Zenon DEF Sound, SameScene
  <2>2. \A w \in Range(s) : w \notin g[k].dirtylines
    BY <1>3, <1>18, Zenon DEF Range
  <2>3. QED
    BY <2>1, <2>2, Zenon
<1>20. QED
  BY <1>13, <1>18, <1>19, Zenon

\* A forced repaint draws what is in front: every window's part of the
\* rectangle, and the desktop's inside the clip.
ForcedShow(st, after, rect, p) ==
    /\ ~Within(p, rect) => after.screen[p] = st.screen[p]
    /\ \A w : Within(p, rect) /\ w # Desktop /\ Front(st.stack, st.place, p, w) => after.screen[p] = Due(st, p, w)
    /\ Within(p, rect) /\ Front(st.stack, st.place, p, Desktop)
            => after.screen[p] = IF Within(p, st.clip) THEN Grey ELSE st.screen[p]

ForcedPaint(st, after, rect) ==
    /\ after \in PictureStates /\ SameScene(st, after) /\ after.clip = st.clip
    /\ \E met : after.dirty = st.dirty \ met /\ after.dirtylines = st.dirtylines \ met
    /\ \A p \in Pixel : ForcedShow(st, after, rect, p)

\* A forced Paint shows the texts as they are and clears the marks of those it met.
LEMMA ForcedIs ==
    ASSUME NEW st \in PictureStates, NEW rect \in Rect
    PROVE  ForcedPaint(st, Paint(st, 1, rect, "forced"), rect)
<1>1. PICK after : after = Paint(st, 1, rect, "forced") /\ Repainted(st, after, 1, rect, "forced")
  <2>1. 1 \in 1 .. Len(st.stack) + 1
    BY FirstIs
  <2>2. Repainted(st, Paint(st, 1, rect, "forced"), 1, rect, "forced")
    BY <2>1, PaintIs, HowsAre, Zenon
  <2>3. QED
    BY <2>2, Zenon
<1>2. "forced" # "dirty" /\ "forced" # "dragged"
  OBVIOUS
<1>3. ASSUME NEW p, NEW w, w # Desktop, NEW was PROVE Shown(st, "forced", w, p, was) = Due(st, p, w)
  <2>1. ShadeOf(st, w, "forced") = st.content[w]
    BY <1>2, Zenon DEF ShadeOf
  <2>2. QED
    BY <1>2, <1>3, <2>1, Zenon DEF Shown, Due, InText
<1>4. ASSUME NEW p \in Pixel PROVE ForcedShow(st, after, rect, p)
  <2>1. ~Within(p, rect) => after.screen[p] = st.screen[p]
    BY <1>1, Zenon DEF Repainted
  <2>2. PICK was : was = st.screen[p]
    BY Zenon
  <2>3. ASSUME NEW w, Within(p, rect), Front(st.stack, st.place, p, w) PROVE after.screen[p] = Shown(st, "forced", w, p, was)
    BY <1>1, <2>2, <2>3, Zenon DEF Repainted, Front
  <2>4. ASSUME NEW w, w # Desktop PROVE Shown(st, "forced", w, p, was) = Due(st, p, w)
    BY <1>3, <2>4
  <2>5. Shown(st, "forced", Desktop, p, was) = IF Within(p, st.clip) THEN Grey ELSE was
    BY Zenon DEF Shown
  <2>6. QED
    BY <2>1, <2>2, <2>3, <2>4, <2>5, Zenon DEF ForcedShow
<1>5. SameScene(st, after) /\ after \in PictureStates /\ after.clip = st.clip
  BY <1>1, Zenon DEF Repainted, SameScene
<1>6. \E met : after.dirty = st.dirty \ met /\ after.dirtylines = st.dirtylines \ met
  BY <1>1, Zenon DEF Repainted
<1>7. QED
  BY <1>1, <1>4, <1>5, <1>6, Zenon DEF ForcedPaint

-----------------------------------------------------------------------------
\* The operations on windows

\* A window raised: those it does not hide are in front where they were.
LEMMA FrontWhenRaised ==
    ASSUME NEW s \in Stacks, NEW win \in Range(s), NEW place, NEW p, NEW w, w # win,
           Front(<<win>> \o Without(s, win), place, p, w)
    PROVE  Front(s, place, p, w)
<1>1. PICK r \in Stacks : r = Without(s, win) /\ Range(r) = Range(s) \ {win}
  BY WithoutIs, Zenon
<1>2. win \in Frames
  BY DEF Stacks, Range
<1>3. win \notin Range(r)
  BY <1>1, Zenon
<1>4. PICK t \in Stacks : t = <<win>> \o r /\ Range(t) = Range(r) \cup {win}
  BY <1>2, <1>3, PutInFront, Zenon
<1>5. IsFront(t, place, p, w)
  BY <1>1, <1>4, FrontIs, Zenon
<1>6. CASE w = Desktop
  <2>1. IsFront(s, place, p, w)
    BY <1>1, <1>4, <1>5, <1>6, Zenon DEF IsFront
  <2>2. QED
    BY <2>1, FrontIs, Zenon
<1>7. CASE w # Desktop
  <2>1. w \in Range(r) /\ w \in Range(s) /\ Within(p, place[w])
    BY <1>1, <1>4, <1>5, <1>7, Zenon DEF IsFront
  <2>2. ASSUME NEW v \in Range(s), Ahead(s, v, w) PROVE ~Within(p, place[v])
    <3>1. Ahead(t, v, w)
      <4>1. CASE v = win
        BY <1>2, <1>3, <1>4, <2>1, <4>1, PutInFront, Zenon
      <4>2. CASE v # win
        <5>1. Ahead(r, v, w)
          BY <1>1, <2>1, <2>2, <4>2, WithoutIs, Zenon
        <5>2. v \in Range(r)
          BY <1>1, <4>2, Zenon
        <5>3. QED
          BY <1>2, <1>3, <1>4, <5>1, <5>2, PutInFront, Zenon
      <4>3. QED
        BY <4>1, <4>2, Zenon
    <3>2. v \in Range(t)
      BY <1>1, <1>4, Zenon
    <3>3. QED
      BY <1>5, <1>7, <3>1, <3>2, Zenon DEF IsFront
  <2>3. QED
    BY <1>7, <2>1, <2>2, FrontIs, Zenon DEF IsFront
<1>8. QED
  BY <1>6, <1>7, Zenon

\* A window opened: the same, whatever its place.
LEMMA FrontWhenOpened ==
    ASSUME NEW s \in Stacks, NEW win \in Frames, win \notin Range(s), NEW place, NEW new,
           \A v \in Range(s) : new[v] = place[v], NEW p, NEW w, w # win, Front(<<win>> \o s, new, p, w)
    PROVE  Front(s, place, p, w)
<1>1. PICK t \in Stacks : t = <<win>> \o s /\ Range(t) = Range(s) \cup {win}
  BY PutInFront, Zenon
<1>2. IsFront(t, new, p, w)
  BY <1>1, FrontIs, Zenon
<1>3. CASE w = Desktop
  <2>1. IsFront(s, place, p, w)
    BY <1>1, <1>2, <1>3, Zenon DEF IsFront
  <2>2. QED
    BY <2>1, FrontIs, Zenon
<1>4. CASE w # Desktop
  <2>1. w \in Range(s) /\ Within(p, place[w])
    BY <1>1, <1>2, <1>4, Zenon DEF IsFront
  <2>2. ASSUME NEW v \in Range(s), Ahead(s, v, w) PROVE ~Within(p, place[v])
    <3>1. Ahead(t, v, w) /\ v \in Range(t)
      BY <1>1, <2>2, PutInFront, Zenon
    <3>2. QED
      BY <1>2, <1>4, <3>1, Zenon DEF IsFront
  <2>3. QED
    BY <1>4, <2>1, <2>2, FrontIs, Zenon DEF IsFront
<1>5. QED
  BY <1>3, <1>4, Zenon

\* A pixel stays right for a window that is where it was, when more waits.
LEMMA FineStays ==
    ASSUME NEW st, NEW after, NEW p, NEW w, FineAt(st, p, w), after.screen[p] = st.screen[p],
           w # Desktop => after.place[w] = st.place[w] /\ after.content[w] = st.content[w],
           st.dirty \subseteq after.dirty, st.dirtylines \subseteq after.dirtylines
    PROVE  FineAt(after, p, w)
<1>1. CASE w = Desktop
  BY <1>1, Zenon DEF FineAt
<1>2. CASE w # Desktop
  <2>1. (InText(after, p, w) <=> InText(st, p, w)) /\ Due(after, p, w) = Due(st, p, w)
    BY <1>2, Zenon DEF InText, Due
  <2>2. QED
    BY <1>2, <2>1, Zenon DEF FineAt
<1>3. QED
  BY <1>1, <1>2, Zenon

\* Marking a window changes nothing else.
LEMMA MarkedIs ==
    ASSUME NEW st \in PictureStates, NEW win \in Frames
    PROVE  /\ Marked(st, win) \in PictureStates /\ SameScene(st, Marked(st, win))
           /\ Marked(st, win).dirty = st.dirty \cup {win} /\ Marked(st, win).dirtylines = st.dirtylines \cup {win}
           /\ Marked(st, win).screen = st.screen /\ Marked(st, win).clip = st.clip
BY DEF Marked, PictureStates, SameScene

\* A state that differs in the clip only.
LEMMA FineClipped ==
    ASSUME NEW st, Sound(st), NEW r \in Rect
    PROVE  Sound(Clipped(st, r)) /\ (AllFine(st) => AllFine(Clipped(st, r)))
<1>1. PICK after : after = Clipped(st, r)
  BY Zenon
<1>2. st \in PictureStates
  BY Zenon DEF Sound
<1>3. /\ after \in PictureStates /\ SameScene(st, after)
      /\ after.dirty = st.dirty /\ after.dirtylines = st.dirtylines /\ after.screen = st.screen
  BY <1>1, <1>2, ClippedIs, Zenon
<1>4. Sound(after)
  <2>1. st.dirty \ {} = st.dirty /\ st.dirtylines \ {} = st.dirtylines
    BY Zenon
  <2>2. after.dirty = st.dirty \ {} /\ after.dirtylines = st.dirtylines \ {}
    BY <1>3, <2>1, Zenon
  <2>3. QED
    BY <1>3, <2>2, SoundAfter, Zenon
<1>5. ASSUME AllFine(st) PROVE AllFine(after)
  <2>1. after.stack = st.stack /\ after.place = st.place /\ after.content = st.content /\ after.spoiled = st.spoiled
    BY <1>3, Zenon DEF SameScene
  <2> SUFFICES ASSUME NEW p \in Pixel \ st.spoiled, NEW w, Front(st.stack, st.place, p, w)
               PROVE  FineAt(after, p, w)
    BY <2>1, Zenon DEF AllFine
  <2>2. FineAt(st, p, w)
    BY <1>5, Zenon DEF AllFine
  <2>3. st.dirty \subseteq after.dirty /\ st.dirtylines \subseteq after.dirtylines
    BY <1>3, Zenon
  <2>4. QED
    BY <1>3, <2>1, <2>2, <2>3, FineStays, Zenon
<1>6. QED
  BY <1>1, <1>4, <1>5, Zenon

\* WindowTop
LEMMA WindowTopIs ==
    ASSUME NEW st, Sound(st), AllFine(st), NEW win \in Range(st.stack)
    PROVE  \E after :
            /\ after = WindowTop(st, win) /\ Sound(after) /\ AllFine(after)
            /\ after.stack # <<>> /\ after.stack[1] = win /\ Range(after.stack) = Range(st.stack)
            /\ after.place = st.place /\ after.screen = st.screen /\ after.spoiled = st.spoiled
            /\ after.dirty \subseteq st.dirty \cup {win} /\ after.clip = SetClip(st.place[win])
            /\ \A p, w : w # win /\ Front(after.stack, st.place, p, w) => Front(st.stack, st.place, p, w)
<1>1. /\ st \in PictureStates /\ st.stack \in Stacks /\ st.dirty \subseteq st.dirtylines
      /\ st.dirtylines \subseteq Range(st.stack) /\ Sized(st)
  BY Zenon DEF Sound
<1>2. PICK s \in Stacks : s = st.stack
  BY <1>1, Zenon
<1>3. win \in Frames /\ win \in Range(s)
  BY <1>2 DEF Stacks, Range
<1>4. PICK r \in Rect : r = st.place[win]
  BY <1>1, <1>3, StateIs, Zenon
<1>5. CASE win = st.stack[1]
  <2>1. WindowTop(st, win) = Clipped(st, r)
    BY <1>4, <1>5, Zenon DEF WindowTop, Top
  <2>2. PICK after : after = Clipped(st, r)
    BY Zenon
  <2>3. /\ after \in PictureStates /\ SameScene(st, after) /\ after.clip = SetClip(r)
        /\ after.dirty = st.dirty /\ after.dirtylines = st.dirtylines /\ after.screen = st.screen
    BY <1>1, <2>2, ClippedIs, Zenon
  <2>4. Sound(after) /\ AllFine(after)
    BY <2>2, FineClipped, Zenon
  <2>5. s # <<>>
    BY <1>3 DEF Range
  <2>6. QED
    BY <1>2, <1>4, <1>5, <2>1, <2>2, <2>3, <2>4, <2>5, Zenon DEF SameScene
<1>6. CASE win # st.stack[1]
  <2>1. PICK t \in Stacks : /\ t = <<win>> \o Without(s, win) /\ Range(t) = Range(s) /\ t # <<>> /\ t[1] = win
                            /\ t \in Seq(Frames)
    <3>1. PICK u \in Stacks : u = Without(s, win) /\ Range(u) = Range(s) \ {win}
      BY <1>3, WithoutIs, Zenon
    <3>2. win \notin Range(u)
      BY <3>1, Zenon
    <3>3. PICK t \in Stacks : t = <<win>> \o u /\ Range(t) = Range(u) \cup {win} /\ t # <<>> /\ t[1] = win
      BY <1>3, <3>2, PutInFront, Zenon
    <3>4. t \in Seq(Frames)
      BY <3>3 DEF Stacks
    <3>5. Range(t) = Range(s)
      <4>1. ASSUME NEW v PROVE v \in Range(t) <=> v \in Range(s)
        BY <1>3, <3>1, <3>3, Zenon
      <4>2. QED
        BY <4>1, Zenon
    <3>6. QED
      BY <3>1, <3>3, <3>4, <3>5, Zenon
  <2>2. PICK raised : raised = [st EXCEPT !.stack = t]
    BY Zenon
  <2>3. /\ raised \in PictureStates /\ raised.stack = t /\ raised.place = st.place /\ raised.old = st.old
        /\ raised.content = st.content /\ raised.spoiled = st.spoiled /\ raised.screen = st.screen
        /\ raised.dirty = st.dirty /\ raised.dirtylines = st.dirtylines
    BY <1>1, <2>1, <2>2 DEF PictureStates
  <2>4. PICK marked \in PictureStates :
            /\ marked = Marked(raised, win) /\ SameScene(raised, marked) /\ marked.screen = raised.screen
            /\ marked.dirty = raised.dirty \cup {win} /\ marked.dirtylines = raised.dirtylines \cup {win}
    BY <1>3, <2>3, MarkedIs, Zenon
  <2>5. /\ SameScene(raised, marked) /\ marked.screen = st.screen
        /\ marked.dirty = st.dirty \cup {win} /\ marked.dirtylines = st.dirtylines \cup {win}
    BY <2>3, <2>4, Zenon
  <2>6. /\ marked.stack = t /\ marked.place = st.place /\ marked.old = st.old /\ marked.content = st.content
        /\ marked.spoiled = st.spoiled
    BY <2>3, <2>5, Zenon DEF SameScene
  <2>7. Sound(marked)
    <3>1. marked.dirty \subseteq marked.dirtylines /\ marked.dirtylines \subseteq Range(marked.stack)
      BY <1>1, <1>2, <1>3, <2>1, <2>5, <2>6, Zenon
    <3>2. Sized(marked)
      BY <1>1, <1>2, <2>1, <2>6, Zenon DEF Sized
    <3>3. QED
      BY <2>1, <2>6, <3>1, <3>2, Zenon DEF Sound
  <2>8. \A p, w : w # win /\ Front(t, st.place, p, w) => Front(st.stack, st.place, p, w)
    BY <1>2, <1>3, <2>1, FrontWhenRaised, Zenon
  <2>9. AllFine(marked)
    <3> SUFFICES ASSUME NEW p \in Pixel \ st.spoiled, NEW w, Front(t, st.place, p, w)
                 PROVE  FineAt(marked, p, w)
      BY <2>6, Zenon DEF AllFine
    <3>1. CASE w = win
      <4>1. w # Desktop
        BY <1>3, <3>1, PaintingAssumption DEF Desktop
      <4>2. QED
        BY <2>5, <3>1, <4>1, Zenon DEF FineAt
    <3>2. CASE w # win
      <4>1. FineAt(st, p, w)
        BY <2>8, <3>2, Zenon DEF AllFine
      <4>2. st.dirty \subseteq marked.dirty /\ st.dirtylines \subseteq marked.dirtylines
        BY <2>5, Zenon
      <4>3. QED
        BY <2>5, <2>6, <4>1, <4>2, FineStays, Zenon
    <3>3. QED
      BY <3>1, <3>2, Zenon
  <2>10. WindowTop(st, win) = Clipped(marked, r)
    BY <1>2, <1>4, <1>6, <2>1, <2>2, <2>4, Zenon DEF WindowTop, Top
  <2>11. PICK after : after = Clipped(marked, r)
    BY Zenon
  <2>12. /\ SameScene(marked, after) /\ after.clip = SetClip(r)
         /\ after.dirty = marked.dirty /\ after.screen = marked.screen
    BY <2>11, ClippedIs, Zenon
  <2>13. Sound(after) /\ AllFine(after)
    BY <2>7, <2>9, <2>11, FineClipped, Zenon
  <2>14. /\ after.stack = t /\ after.place = st.place /\ after.spoiled = st.spoiled /\ after.screen = st.screen
         /\ after.dirty = st.dirty \cup {win}
    BY <2>5, <2>6, <2>12, Zenon DEF SameScene
  <2>15. QED
    BY <1>2, <1>4, <2>1, <2>8, <2>10, <2>11, <2>12, <2>13, <2>14, Zenon
<1>7. QED
  BY <1>5, <1>6, Zenon

\* A column on a byte boundary is a column.
LEMMA AlignedIs == ASSUME NEW x \in Int PROVE Aligned(x) \in Int
<1>1. Step8 \in Nat \ {0}
  BY PaintingAssumption
<1>2. x % Step8 \in Int
  BY <1>1
<1>3. QED
  BY <1>2 DEF Aligned

\* A window is made whole.
LEMMA CreatedIs == ASSUME NEW p \in Points PROVE CreatedAt(p) \in Rect /\ Whole(CreatedAt(p))
<1>1. p[1] \in Int /\ p[2] \in Int
  BY PaintingAssumption
<1>2. WINBORDER \in Int /\ WINTITLEBAR \in Int /\ ContentW \in Int /\ ContentH \in Int
  BY PaintingAssumption
<1>3. Aligned(p[1]) \in Int
  BY <1>1, AlignedIs
<1>4. PICK x \in Int, y \in Int, w \in Int, h \in Int :
        /\ x = Aligned(p[1]) - WINBORDER /\ y = p[2] - WINTITLEBAR
        /\ w = ContentW + 2 * WINBORDER /\ h = ContentH + WINTITLEBAR + WINBORDER
  <2>1. /\ Aligned(p[1]) - WINBORDER \in Int /\ p[2] - WINTITLEBAR \in Int
        /\ ContentW + 2 * WINBORDER \in Int /\ ContentH + WINTITLEBAR + WINBORDER \in Int
    BY <1>1, <1>2, <1>3
  <2>2. QED
    BY <2>1, Zenon
<1>5. CreatedAt(p) = RectOf(x, y, w, h)
  BY <1>4, Zenon DEF CreatedAt
<1>6. QED
  <2>1. /\ RectOf(x, y, w, h) \in Rect
        /\ RectOf(x, y, w, h).w = w /\ RectOf(x, y, w, h).h = h
    BY RectType
  <2>2. QED
    BY <1>4, <1>5, <2>1, Zenon DEF Whole

\* WindowCreate
LEMMA WindowCreateIs ==
    ASSUME NEW st, Sound(st), AllFine(st), NEW win \in Frames, win \notin Range(st.stack), NEW p \in Points
    PROVE  Sound(WindowCreate(st, win, p)) /\ AllFine(WindowCreate(st, win, p))
<1>1. /\ st \in PictureStates /\ st.stack \in Stacks /\ st.dirty \subseteq st.dirtylines
      /\ st.dirtylines \subseteq Range(st.stack) /\ Sized(st)
  BY Zenon DEF Sound
<1>2. PICK s \in Stacks : s = st.stack
  BY <1>1, Zenon
<1>3. PICK r \in Rect : r = CreatedAt(p) /\ Whole(r)
  BY CreatedIs, Zenon
<1>4. PICK t \in Stacks : /\ t = <<win>> \o s /\ Range(t) = Range(s) \cup {win} /\ t # <<>> /\ t[1] = win
                          /\ t \in Seq(Frames)
  <2>1. PICK t \in Stacks : t = <<win>> \o s /\ Range(t) = Range(s) \cup {win} /\ t # <<>> /\ t[1] = win
    BY <1>2, PutInFront, Zenon
  <2>2. t \in Seq(Frames)
    BY <2>1 DEF Stacks
  <2>3. QED
    BY <2>1, <2>2, Zenon
<1>5. PICK made : made = [st EXCEPT !.stack = t, !.place[win] = r, !.old[win] = r]
  BY Zenon
<1>6. /\ made \in PictureStates /\ made.stack = t /\ made.content = st.content
      /\ made.place = [st.place EXCEPT ![win] = r] /\ made.old = [st.old EXCEPT ![win] = r]
      /\ made.spoiled = st.spoiled /\ made.screen = st.screen
      /\ made.dirty = st.dirty /\ made.dirtylines = st.dirtylines
  BY <1>1, <1>4, <1>5 DEF PictureStates
<1>7. PICK marked \in PictureStates :
        /\ marked = Marked(made, win) /\ SameScene(made, marked) /\ marked.screen = made.screen
        /\ marked.dirty = made.dirty \cup {win} /\ marked.dirtylines = made.dirtylines \cup {win}
  <2>1. made \in PictureStates
    BY <1>6, Zenon
  <2>2. QED
    BY <2>1, MarkedIs, Zenon
<1>8. /\ marked.stack = t /\ marked.place = made.place /\ marked.old = made.old /\ marked.content = st.content
      /\ marked.spoiled = st.spoiled /\ marked.screen = st.screen
      /\ marked.dirty = st.dirty \cup {win} /\ marked.dirtylines = st.dirtylines \cup {win}
  BY <1>6, <1>7, Zenon DEF SameScene
<1>9. /\ marked.place[win] = r /\ marked.old[win] = r
      /\ \A v \in Range(s) : marked.place[v] = st.place[v] /\ marked.old[v] = st.old[v]
  <2>1. st.place \in [Frames -> Rect] /\ st.old \in [Frames -> Rect]
    BY <1>1 DEF PictureStates
  <2>2. \A v \in Range(s) : v # win /\ v \in Frames
    BY <1>2 DEF Stacks, Range
  <2>3. QED
    BY <1>6, <1>8, <2>1, <2>2
<1>10. Sound(marked)
  <2>1. marked.dirty \subseteq marked.dirtylines /\ marked.dirtylines \subseteq Range(marked.stack)
    BY <1>1, <1>2, <1>4, <1>8, Zenon
  <2>2. Sized(marked)
    BY <1>1, <1>2, <1>3, <1>4, <1>8, <1>9, Zenon DEF Sized
  <2>3. QED
    BY <1>4, <1>8, <2>1, <2>2, Zenon DEF Sound
<1>11. AllFine(marked)
  <2> SUFFICES ASSUME NEW q \in Pixel \ st.spoiled, NEW w, Front(t, marked.place, q, w)
               PROVE  FineAt(marked, q, w)
    BY <1>8, Zenon DEF AllFine
  <2>1. CASE w = win
    <3>1. w # Desktop
      BY <2>1, PaintingAssumption DEF Desktop
    <3>2. QED
      BY <1>8, <2>1, <3>1, Zenon DEF FineAt
  <2>2. CASE w # win
    <3>1. Front(s, st.place, q, w)
      BY <1>2, <1>4, <1>9, <2>2, FrontWhenOpened, Zenon
    <3>2. FineAt(st, q, w)
      BY <1>2, <3>1, Zenon DEF AllFine
    <3>3. st.dirty \subseteq marked.dirty /\ st.dirtylines \subseteq marked.dirtylines
      BY <1>8, Zenon
    <3>4. w # Desktop => w \in Range(s)
      BY <3>1, FrontIs, Zenon DEF IsFront
    <3>5. w # Desktop => marked.place[w] = st.place[w] /\ marked.content[w] = st.content[w]
      BY <1>8, <1>9, <3>4, Zenon
    <3>6. QED
      BY <1>8, <3>2, <3>3, <3>5, FineStays, Zenon
  <2>3. QED
    BY <2>1, <2>2, Zenon
<1>12. WindowCreate(st, win, p) = Clipped(marked, r)
  <2>1. WindowCreate(st, win, p) = WindowTop(marked, win)
    BY <1>2, <1>3, <1>4, <1>5, <1>7, Zenon DEF WindowCreate
  <2>2. WindowTop(marked, win) = Clipped(marked, r)
    BY <1>4, <1>8, <1>9, Zenon DEF WindowTop, Top
  <2>3. QED
    BY <2>1, <2>2, Zenon
<1>13. QED
  BY <1>10, <1>11, <1>12, FineClipped, Zenon

\* A window closed: elsewhere than on its own pixels the front is as before.
LEMMA FrontWhenClosed ==
    ASSUME NEW s \in Stacks, NEW win \in Range(s), NEW place, NEW p, ~Within(p, place[win]),
           NEW w, Front(Without(s, win), place, p, w)
    PROVE  Front(s, place, p, w)
<1>1. PICK r \in Stacks : r = Without(s, win) /\ Range(r) = Range(s) \ {win}
  BY WithoutIs, Zenon
<1>2. IsFront(r, place, p, w)
  BY <1>1, FrontIs, Zenon
<1>3. CASE w = Desktop
  <2>1. IsFront(s, place, p, w)
    BY <1>1, <1>2, <1>3, Zenon DEF IsFront
  <2>2. QED
    BY <2>1, FrontIs, Zenon
<1>4. CASE w # Desktop
  <2>1. w \in Range(r) /\ w \in Range(s) /\ w # win /\ Within(p, place[w])
    BY <1>1, <1>2, <1>4, Zenon DEF IsFront
  <2>2. ASSUME NEW v \in Range(s), Ahead(s, v, w) PROVE ~Within(p, place[v])
    <3>1. CASE v = win
      BY <3>1, Zenon
    <3>2. CASE v # win
      <4>1. Ahead(r, v, w) /\ v \in Range(r)
        BY <1>1, <2>1, <2>2, <3>2, WithoutIs, Zenon
      <4>2. QED
        BY <1>2, <1>4, <4>1, Zenon DEF IsFront
    <3>3. QED
      BY <3>1, <3>2, Zenon
  <2>3. QED
    BY <1>4, <2>1, <2>2, FrontIs, Zenon DEF IsFront
<1>5. QED
  BY <1>3, <1>4, Zenon

\* WindowDestroy
LEMMA WindowDestroyIs ==
    ASSUME NEW st, Sound(st), AllFine(st), st.dirty = {}, NEW win \in Range(st.stack)
    PROVE  /\ Sound(WindowDestroy(st, win)) /\ AllFine(WindowDestroy(st, win))
           /\ WindowDestroy(st, win).dirty = {}
<1>1. /\ st \in PictureStates /\ st.stack \in Stacks /\ st.dirty \subseteq st.dirtylines
      /\ st.dirtylines \subseteq Range(st.stack) /\ Sized(st)
  BY Zenon DEF Sound
<1>2. PICK s \in Stacks : s = st.stack /\ win \in Range(s)
  BY <1>1, Zenon
<1>3. win \in Frames
  BY <1>2 DEF Stacks, Range
<1>4. PICK r \in Rect : r = st.place[win]
  BY <1>1, <1>3, StateIs, Zenon
<1>5. PICK t \in Stacks : t = Without(s, win) /\ Range(t) = Range(s) \ {win} /\ t \in Seq(Frames)
  <2>1. PICK t \in Stacks : t = Without(s, win) /\ Range(t) = Range(s) \ {win}
    BY <1>2, WithoutIs, Zenon
  <2>2. t \in Seq(Frames)
    BY <2>1 DEF Stacks
  <2>3. QED
    BY <2>1, <2>2, Zenon
<1>6. PICK rest : rest = [st EXCEPT !.stack = t, !.dirty = @ \ {win}, !.dirtylines = @ \ {win}]
  BY Zenon
<1>7. /\ rest \in PictureStates /\ rest.stack = t /\ rest.place = st.place /\ rest.old = st.old
      /\ rest.content = st.content /\ rest.spoiled = st.spoiled /\ rest.screen = st.screen
      /\ rest.dirty = st.dirty \ {win} /\ rest.dirtylines = st.dirtylines \ {win}
  BY <1>1, <1>5, <1>6 DEF PictureStates
<1>8. rest.dirty = {}
  BY <1>7
<1>9. PICK topped \in PictureStates :
        /\ topped = IF t = <<>> THEN rest ELSE WindowTop(rest, Top(rest))
        /\ SameScene(rest, topped) /\ topped.dirty = rest.dirty /\ topped.dirtylines = rest.dirtylines
        /\ topped.screen = rest.screen
  <2>1. CASE t = <<>>
    BY <1>7, <2>1, Zenon DEF SameScene
  <2>2. CASE t # <<>>
    <3>1. t[1] \in Frames
      BY <1>5, <2>2
    <3>2. PICK x \in Rect : x = rest.place[t[1]]
      BY <1>7, <3>1, StateIs, Zenon
    <3>3. WindowTop(rest, Top(rest)) = Clipped(rest, x)
      BY <1>7, <3>2, Zenon DEF WindowTop, Top
    <3>4. QED
      BY <1>7, <2>2, <3>3, ClippedIs, Zenon
  <2>3. QED
    BY <2>1, <2>2, Zenon
<1>10. PICK clipped \in PictureStates :
        /\ clipped = Clipped(topped, r) /\ clipped.clip = SetClip(r)
        /\ SameScene(topped, clipped) /\ clipped.dirty = topped.dirty /\ clipped.dirtylines = topped.dirtylines
        /\ clipped.screen = topped.screen
  BY ClippedIs, Zenon
<1>11. /\ SameScene(rest, clipped) /\ clipped.dirty = {} /\ clipped.dirtylines = st.dirtylines \ {win}
       /\ clipped.screen = st.screen
  BY <1>7, <1>8, <1>9, <1>10, Zenon DEF SameScene
<1>12. PICK painted : painted = Paint(clipped, 1, r, "forced") /\ ForcedPaint(clipped, painted, r)
  <2>1. ForcedPaint(clipped, Paint(clipped, 1, r, "forced"), r)
    BY ForcedIs, Zenon
  <2>2. QED
    BY <2>1, Zenon
<1>13. PICK met : painted.dirty = {} \ met /\ painted.dirtylines = (st.dirtylines \ {win}) \ met
  BY <1>11, <1>12, Zenon DEF ForcedPaint
<1> DEFINE missed == UNION {Pixels(st.place[w]) : w \in rest.dirtylines \ painted.dirtylines}
           lost == missed \ Pixels(r)
<1>14. PICK after : after = [painted EXCEPT !.spoiled = @ \cup lost]
  BY Zenon
<1>15. WindowDestroy(st, win) = after
  <2>1. rest = [st EXCEPT !.stack = Without(@, win), !.dirty = @ \ {win}, !.dirtylines = @ \ {win}]
    BY <1>2, <1>5, <1>6, Zenon
  <2>2. painted = Paint(Clipped(IF rest.stack = <<>> THEN rest ELSE WindowTop(rest, Top(rest)), st.place[win]),
                        1, st.place[win], "forced")
    BY <1>4, <1>7, <1>9, <1>10, <1>12, Zenon
  <2>3. after = [painted EXCEPT !.spoiled = @ \cup (missed \ Pixels(st.place[win]))]
    BY <1>4, <1>14, Zenon
  <2> HIDE DEF lost
  <2>4. QED
    BY <2>1, <2>2, <2>3, Zenon DEF WindowDestroy
<1>16. lost \subseteq Pixel
  BY DEF Pixels
<1>17. ASSUME NEW p \in Pixel, p \notin lost, ~Within(p, r), NEW w \in Range(t), Within(p, st.place[w]), w \in st.dirtylines
       PROVE  w \in painted.dirtylines
  <2>1. w \in Frames /\ w # win
    BY <1>3, <1>5 DEF Range
  <2>2. st.place[w] \in Rect
    BY <1>1, <2>1, StateIs, Zenon
  <2>3. p \notin Pixels(r) /\ p \in Pixels(st.place[w])
    BY <1>17, <2>2, WithinIs, Zenon
  <2>4. w \in rest.dirtylines
    BY <1>7, <1>17, <2>1, Zenon
  <2>5. QED
    BY <1>17, <2>3, <2>4, Zenon
<1> HIDE DEF lost
<1>18. /\ after \in PictureStates /\ after.stack = painted.stack /\ after.place = painted.place /\ after.old = painted.old
       /\ after.content = painted.content /\ after.screen = painted.screen /\ after.spoiled = painted.spoiled \cup lost
       /\ after.dirty = painted.dirty /\ after.dirtylines = painted.dirtylines
  <2>1. painted \in PictureStates
    BY <1>12, Zenon DEF ForcedPaint
  <2>2. QED
    BY <1>14, <1>16, <2>1 DEF PictureStates
<1>19. /\ after.stack = t /\ after.place = st.place /\ after.old = st.old /\ after.content = st.content
       /\ after.spoiled = st.spoiled \cup lost
       /\ clipped.stack = t /\ clipped.place = st.place /\ clipped.content = st.content
  BY <1>7, <1>11, <1>12, <1>18, Zenon DEF ForcedPaint, SameScene
<1>20. after.dirty = {}
  BY <1>13, <1>18
<1>21. Sound(after)
  <2>1. after.dirtylines \subseteq Range(after.stack)
    BY <1>1, <1>2, <1>5, <1>13, <1>18, <1>19, Zenon
  <2>2. Sized(after)
    BY <1>1, <1>2, <1>5, <1>19, Zenon DEF Sized
  <2>3. QED
    BY <1>18, <1>19, <1>20, <2>1, <2>2, Zenon DEF Sound
<1>22. AllFine(after)
  <2> SUFFICES ASSUME NEW p \in Pixel \ (st.spoiled \cup lost), NEW w, Front(t, st.place, p, w)
               PROVE  FineAt(after, p, w)
    BY <1>19, Zenon DEF AllFine
  <2>1. (InText(after, p, w) <=> InText(st, p, w)) /\ Due(after, p, w) = Due(st, p, w) /\ Due(clipped, p, w) = Due(st, p, w)
    BY <1>19, Zenon DEF InText, Due
  <2>2. CASE Within(p, r)
    <3>1. Within(p, clipped.clip)
      BY <1>10, <2>2, ClipIs, Zenon
    <3>2. after.screen[p] = IF w # Desktop THEN Due(st, p, w) ELSE Grey
      <4>1. ForcedShow(clipped, painted, r, p)
        BY <1>12, Zenon DEF ForcedPaint
      <4>2. CASE w = Desktop
        BY <1>18, <1>19, <2>2, <3>1, <4>1, <4>2, Zenon DEF ForcedShow
      <4>3. CASE w # Desktop
        BY <1>18, <1>19, <2>1, <2>2, <4>1, <4>3, Zenon DEF ForcedShow
      <4>4. QED
        BY <4>2, <4>3, Zenon
    <3>3. QED
      BY <2>1, <3>2, Zenon DEF FineAt
  <2>3. CASE ~Within(p, r)
    <3>1. after.screen[p] = st.screen[p]
      BY <1>11, <1>12, <1>18, <2>3, Zenon DEF ForcedPaint, ForcedShow
    <3>2. Front(s, st.place, p, w)
      BY <1>2, <1>4, <1>5, <2>3, FrontWhenClosed, Zenon
    <3>3. FineAt(st, p, w)
      BY <1>2, <3>2, Zenon DEF AllFine
    <3>4. CASE w = Desktop
      BY <3>1, <3>3, <3>4, Zenon DEF FineAt
    <3>5. CASE w # Desktop
      <4>1. w \in Range(t) /\ Within(p, st.place[w])
        BY <1>5, <3>5, FrontIs, Zenon DEF IsFront
      <4>2. st.screen[p] = Due(st, p, w) \/ (w \in st.dirtylines /\ InText(st, p, w) /\ st.screen[p][1] = w)
        BY <3>3, <3>5, Zenon DEF FineAt
      <4>3. w \in st.dirtylines => w \in after.dirtylines
        BY <1>17, <1>18, <2>3, <4>1, Zenon
      <4>4. QED
        BY <2>1, <3>1, <3>5, <4>2, <4>3, Zenon DEF FineAt
    <3>6. QED
      BY <3>4, <3>5, Zenon
  <2>4. QED
    BY <2>2, <2>3, Zenon
<1>23. QED
  BY <1>15, <1>20, <1>21, <1>22, Zenon

\* Where no window is, the desktop shows.
DesktopGrey(st) == \A p \in Pixel \ st.spoiled : Front(st.stack, st.place, p, Desktop) => st.screen[p] = Grey

\* The desktop is in front where no window is.
LEMMA DesktopFront ==
    ASSUME NEW s \in Stacks, NEW place, NEW p
    PROVE  Front(s, place, p, Desktop) <=> \A v \in Range(s) : ~Within(p, place[v])
BY FrontIs, Zenon DEF IsFront

\* A minimized window stands where the whole one stood.
LEMMA SmallInWhole ==
    ASSUME NEW a \in Rect, NEW b \in Rect, a.x = b.x, a.y = b.y, Small(a), Whole(b), NEW p \in Pixel, Within(p, a)
    PROVE  Within(p, b)
<1>1. /\ WINBORDER \in Nat \ {0} /\ WINTITLEBAR \in Nat \ {0} /\ ContentW \in Nat \ {0} /\ ContentH \in Nat \ {0}
      /\ MinimizedW \in Nat /\ MinimizedW <= ContentW + 2 * WINBORDER
  BY PaintingAssumption
<1>2. p[1] \in Int /\ p[2] \in Int /\ a.x \in Int /\ a.y \in Int /\ b.x \in Int /\ b.y \in Int
  BY PixelIs, RectIs
<1>3. a.x <= p[1] /\ p[1] < a.x + MinimizedW /\ a.y <= p[2] /\ p[2] < a.y + WINTITLEBAR
  BY Zenon DEF Within, Small
<1>4. b.w = ContentW + 2 * WINBORDER /\ b.h = ContentH + WINTITLEBAR + WINBORDER
  BY Zenon DEF Whole
<1>5. b.x <= p[1] /\ p[1] < b.x + b.w /\ b.y <= p[2] /\ p[2] < b.y + b.h
  BY <1>1, <1>2, <1>3, <1>4
<1>6. QED
  BY <1>5, Zenon DEF Within

\* A whole window is not a minimized one.
LEMMA WholeIsOpen == ASSUME NEW r \in Rect, Whole(r) PROVE ~Minimized(r)
<1>1. WINBORDER \in Nat \ {0} /\ WINTITLEBAR \in Nat /\ ContentH \in Nat \ {0}
  BY PaintingAssumption
<1>2. r.h = ContentH + WINTITLEBAR + WINBORDER
  BY Zenon DEF Whole
<1>3. QED
  BY <1>1, <1>2 DEF Minimized

\* What a forced repaint leaves of a sound state.
LEMMA ForcedSound ==
    ASSUME NEW st, Sound(st), NEW rect \in Rect
    PROVE  /\ ForcedPaint(st, Paint(st, 1, rect, "forced"), rect)
           /\ Sound(Paint(st, 1, rect, "forced"))
<1>1. st \in PictureStates
  BY Zenon DEF Sound
<1>2. PICK after : after = Paint(st, 1, rect, "forced") /\ ForcedPaint(st, after, rect)
  <2>1. ForcedPaint(st, Paint(st, 1, rect, "forced"), rect)
    BY <1>1, ForcedIs, Zenon
  <2>2. QED
    BY <2>1, Zenon
<1>3. PICK met : after.dirty = st.dirty \ met /\ after.dirtylines = st.dirtylines \ met
  BY <1>2, Zenon DEF ForcedPaint
<1>4. after \in PictureStates /\ SameScene(st, after)
  BY <1>2, Zenon DEF ForcedPaint
<1>5. Sound(after)
  BY <1>3, <1>4, SoundAfter, Zenon
<1>6. QED
  BY <1>2, <1>5, Zenon

\* "repaint everything": every window's part of the screen is right then, and
\* the desktop's where it was right or the clip reaches.
LEMMA AllPainted ==
    ASSUME NEW st, Sound(st),
           \A p \in Pixel \ st.spoiled : Front(st.stack, st.place, p, Desktop) => st.screen[p] = Grey \/ Within(p, st.clip)
    PROVE  Sound(Paint(st, 1, screenrect, "forced")) /\ AllFine(Paint(st, 1, screenrect, "forced"))
<1>1. PICK rect \in Rect : rect = screenrect /\ \A p \in Pixel : Within(p, rect)
  BY ScreenHas, Zenon
<1>2. PICK after : after = Paint(st, 1, rect, "forced") /\ ForcedPaint(st, after, rect) /\ Sound(after)
  <2>1. ForcedPaint(st, Paint(st, 1, rect, "forced"), rect) /\ Sound(Paint(st, 1, rect, "forced"))
    BY ForcedSound, Zenon
  <2>2. QED
    BY <2>1, Zenon
<1>3. SameScene(st, after)
  BY <1>2, Zenon DEF ForcedPaint
<1>4. ASSUME NEW p \in Pixel \ st.spoiled, NEW w, Front(st.stack, st.place, p, w) PROVE FineAt(after, p, w)
  <2>1. ForcedShow(st, after, rect, p) /\ Within(p, rect)
    BY <1>1, <1>2, Zenon DEF ForcedPaint
  <2>2. CASE w = Desktop
    <3>1. after.screen[p] = IF Within(p, st.clip) THEN Grey ELSE st.screen[p]
      BY <1>4, <2>1, <2>2, Zenon DEF ForcedShow
    <3>2. QED
      BY <1>4, <2>2, <3>1, Zenon DEF FineAt
  <2>3. CASE w # Desktop
    <3>1. Due(after, p, w) = Due(st, p, w)
      BY <1>3, Zenon DEF SameScene, Due, InText
    <3>2. QED
      BY <1>4, <2>1, <2>3, <3>1, Zenon DEF ForcedShow, FineAt
  <2>4. QED
    BY <2>2, <2>3, Zenon
<1>5. AllFine(after)
  BY <1>3, <1>4, Zenon DEF AllFine, SameScene
<1>6. QED
  BY <1>1, <1>2, <1>5, Zenon

\* "Refresh" leaves nothing behind.
LEMMA RefreshIs ==
    ASSUME NEW st, Sound(st)
    PROVE  LET all == [Paint([st EXCEPT !.clip = screenrect], 1, screenrect, "forced") EXCEPT !.spoiled = {}]
           IN  Sound(all) /\ AllFine(all)
<1>1. PICK rect \in Rect : rect = screenrect /\ \A p \in Pixel : Within(p, rect)
  BY ScreenHas, Zenon
<1>2. PICK clipped : clipped = [st EXCEPT !.clip = rect]
  BY Zenon
<1>3. st \in PictureStates
  BY Zenon DEF Sound
<1>4. /\ clipped \in PictureStates /\ clipped.stack = st.stack /\ clipped.place = st.place /\ clipped.old = st.old
      /\ clipped.dirty = st.dirty /\ clipped.dirtylines = st.dirtylines /\ clipped.clip = rect
  BY <1>2, <1>3 DEF PictureStates
<1>5. Sound(clipped)
  BY <1>4, Zenon DEF Sound, Sized
<1>6. PICK after : after = Paint(clipped, 1, rect, "forced") /\ ForcedPaint(clipped, after, rect) /\ Sound(after)
  <2>1. ForcedPaint(clipped, Paint(clipped, 1, rect, "forced"), rect) /\ Sound(Paint(clipped, 1, rect, "forced"))
    BY <1>5, ForcedSound, Zenon
  <2>2. QED
    BY <2>1, Zenon
<1>7. after \in PictureStates
  BY <1>6, Zenon DEF Sound
<1>8. PICK all : all = [after EXCEPT !.spoiled = {}]
  BY Zenon
<1>9. /\ all \in PictureStates /\ all.stack = after.stack /\ all.place = after.place /\ all.old = after.old
      /\ all.content = after.content /\ all.screen = after.screen /\ all.spoiled = {}
      /\ all.dirty = after.dirty /\ all.dirtylines = after.dirtylines
  BY <1>7, <1>8 DEF PictureStates
<1>10. Sound(all)
  BY <1>6, <1>9, Zenon DEF Sound, Sized
<1>11. SameScene(clipped, after)
  BY <1>6, Zenon DEF ForcedPaint
<1>12. ASSUME NEW p \in Pixel, NEW w, Front(all.stack, all.place, p, w) PROVE FineAt(all, p, w)
  <2>1. ForcedShow(clipped, after, rect, p) /\ Within(p, rect) /\ Front(clipped.stack, clipped.place, p, w)
    BY <1>1, <1>6, <1>9, <1>11, <1>12, Zenon DEF ForcedPaint, SameScene
  <2>2. CASE w = Desktop
    <3>1. after.screen[p] = Grey
      BY <1>4, <2>1, <2>2, Zenon DEF ForcedShow
    <3>2. QED
      BY <1>9, <2>2, <3>1, Zenon DEF FineAt
  <2>3. CASE w # Desktop
    <3>1. Due(all, p, w) = Due(clipped, p, w)
      BY <1>9, <1>11, Zenon DEF SameScene, Due, InText
    <3>2. after.screen[p] = Due(clipped, p, w)
      BY <2>1, <2>3, Zenon DEF ForcedShow
    <3>3. QED
      BY <1>9, <2>3, <3>1, <3>2, Zenon DEF FineAt
  <2>4. QED
    BY <2>2, <2>3, Zenon
<1>13. AllFine(all)
  BY <1>12, Zenon DEF AllFine
<1>14. QED
  BY <1>1, <1>2, <1>6, <1>8, <1>10, <1>13, Zenon

\* A forced repaint never takes the desktop away where it shows.
LEMMA GreyStays ==
    ASSUME NEW st, NEW after, NEW rect, ForcedPaint(st, after, rect), NEW p \in Pixel,
           Front(st.stack, st.place, p, Desktop), st.screen[p] = Grey \/ (Within(p, rect) /\ Within(p, st.clip))
    PROVE  after.screen[p] = Grey
<1>1. ForcedShow(st, after, rect, p)
  BY Zenon DEF ForcedPaint
<1>2. CASE Within(p, rect)
  BY <1>1, <1>2, Zenon DEF ForcedShow
<1>3. CASE ~Within(p, rect)
  BY <1>1, <1>3, Zenon DEF ForcedShow
<1>4. QED
  BY <1>2, <1>3, Zenon

\* WindowMin
LEMMA WindowMinIs ==
    ASSUME NEW st, Sound(st), DesktopGrey(st), st.stack # <<>>
    PROVE  Sound(WindowMin(st)) /\ DesktopGrey(WindowMin(st))
<1>1. /\ st \in PictureStates /\ st.stack \in Stacks /\ st.dirty \subseteq st.dirtylines
      /\ st.dirtylines \subseteq Range(st.stack) /\ Sized(st)
  BY Zenon DEF Sound
<1>2. PICK win \in Range(st.stack) : win = Top(st) /\ win \in Frames
  <2>1. st.stack \in Seq(Frames)
    BY <1>1 DEF Stacks
  <2>2. 1 \in DOMAIN st.stack /\ st.stack[1] \in Frames
    BY <2>1
  <2>3. QED
    BY <2>2, Zenon DEF Top, Range
<1>3. PICK r \in Rect, o \in Rect :
        r = st.place[win] /\ o = st.old[win] /\ Whole(o) /\ (Whole(r) \/ Small(r))
  BY <1>1, <1>2, StateIs, Zenon DEF Sized
<1>4. r.x \in Int /\ r.y \in Int /\ o.w \in Int /\ o.h \in Int
  BY RectIs
<1>5. st.place \in [Frames -> Rect] /\ st.old \in [Frames -> Rect]
  BY <1>1 DEF PictureStates
<1>6. \A v \in Range(st.stack) : v \in Frames
  BY <1>1 DEF Stacks, Range
<1>7. CASE Minimized(r)
  <2>1. PICK full \in Rect : full = RectOf(r.x, r.y, o.w, o.h) /\ full.x = r.x /\ full.y = r.y /\ Whole(full)
    <3>1. /\ RectOf(r.x, r.y, o.w, o.h) \in Rect
          /\ RectOf(r.x, r.y, o.w, o.h).x = r.x /\ RectOf(r.x, r.y, o.w, o.h).y = r.y
          /\ RectOf(r.x, r.y, o.w, o.h).w = o.w /\ RectOf(r.x, r.y, o.w, o.h).h = o.h
      <4>1. PICK x \in Int, y \in Int, w \in Int, h \in Int : x = r.x /\ y = r.y /\ w = o.w /\ h = o.h
        BY <1>4, Zenon
      <4>2. /\ RectOf(x, y, w, h) \in Rect
            /\ RectOf(x, y, w, h).x = x /\ RectOf(x, y, w, h).y = y
            /\ RectOf(x, y, w, h).w = w /\ RectOf(x, y, w, h).h = h
        BY DEF Rect, RectOf
      <4>3. QED
        BY <4>1, <4>2, Zenon
    <3>2. QED
      BY <1>3, <3>1, Zenon DEF Whole
  <2>2. Small(r)
    BY <1>3, <1>7, WholeIsOpen, Zenon
  <2>3. PICK grown : grown = [st EXCEPT !.place[win] = full]
    BY Zenon
  <2>4. /\ grown \in PictureStates /\ grown.stack = st.stack /\ grown.place = [st.place EXCEPT ![win] = full]
        /\ grown.old = st.old /\ grown.spoiled = st.spoiled /\ grown.screen = st.screen
        /\ grown.dirty = st.dirty /\ grown.dirtylines = st.dirtylines
    BY <1>1, <1>2, <2>3 DEF PictureStates
  <2>5. grown.place[win] = full /\ \A v \in Range(st.stack) : v # win => grown.place[v] = st.place[v]
    BY <1>2, <1>5, <1>6, <2>4
  <2>6. Sized(grown)
    BY <1>1, <2>1, <2>4, <2>5, Zenon DEF Sized
  <2>7. Sound(grown)
    BY <1>1, <2>4, <2>6, Zenon DEF Sound
  <2>8. PICK after : after = Paint(grown, 1, o, "forced") /\ ForcedPaint(grown, after, o) /\ Sound(after)
    <3>1. ForcedPaint(grown, Paint(grown, 1, o, "forced"), o) /\ Sound(Paint(grown, 1, o, "forced"))
      BY <2>7, ForcedSound, Zenon
    <3>2. QED
      BY <3>1, Zenon
  <2>9. WindowMin(st) = after
    <3>1. full = RectOf(st.place[win].x, st.place[win].y, st.old[win].w, st.old[win].h) /\ Minimized(st.place[win])
      BY <1>3, <1>7, <2>1, Zenon
    <3>2. QED
      BY <1>2, <1>3, <2>3, <2>8, <3>1, Zenon DEF WindowMin
  <2>10. after.stack = st.stack /\ after.place = grown.place /\ after.spoiled = st.spoiled
    BY <2>4, <2>8, Zenon DEF ForcedPaint, SameScene
  <2>11. ASSUME NEW p \in Pixel \ st.spoiled, Front(st.stack, grown.place, p, Desktop) PROVE after.screen[p] = Grey
    <3>1. \A v \in Range(st.stack) : ~Within(p, grown.place[v])
      BY <1>1, <2>11, DesktopFront, Zenon
    <3>2. ~Within(p, r)
      <4>1. ~Within(p, full)
        BY <1>2, <2>5, <3>1, Zenon
      <4>2. Within(p, r) => Within(p, full)
        BY <1>3, <2>1, <2>2, SmallInWhole
      <4>3. QED
        BY <4>1, <4>2, Zenon
    <3>3. \A v \in Range(st.stack) : ~Within(p, st.place[v])
      BY <1>3, <2>5, <3>1, <3>2, Zenon
    <3>4. st.screen[p] = Grey
      BY <1>1, <3>3, DesktopFront, Zenon DEF DesktopGrey
    <3>5. QED
      <4>1. Front(grown.stack, grown.place, p, Desktop) /\ grown.screen[p] = Grey
        BY <2>4, <2>11, <3>4, Zenon
      <4>2. QED
        BY <2>8, <4>1, GreyStays, Zenon
  <2>12. QED
    BY <2>8, <2>9, <2>10, <2>11, Zenon DEF DesktopGrey
<1>8. CASE ~Minimized(r)
  <2>1. WINTITLEBAR \in Int /\ MinimizedW \in Int
    BY PaintingAssumption
  <2>2. PICK small \in Rect : small = RectOf(r.x, r.y, MinimizedW, WINTITLEBAR) /\ Small(small)
    <3>1. /\ RectOf(r.x, r.y, MinimizedW, WINTITLEBAR) \in Rect
          /\ RectOf(r.x, r.y, MinimizedW, WINTITLEBAR).w = MinimizedW
          /\ RectOf(r.x, r.y, MinimizedW, WINTITLEBAR).h = WINTITLEBAR
      <4>1. PICK x \in Int, y \in Int : x = r.x /\ y = r.y
        BY <1>4, Zenon
      <4>2. /\ RectOf(x, y, MinimizedW, WINTITLEBAR) \in Rect
            /\ RectOf(x, y, MinimizedW, WINTITLEBAR).w = MinimizedW
            /\ RectOf(x, y, MinimizedW, WINTITLEBAR).h = WINTITLEBAR
        BY <2>1, RectType
      <4>3. QED
        BY <4>1, <4>2, Zenon
    <3>2. QED
      BY <3>1, Zenon DEF Small
  <2>3. Whole(r)
    BY <1>3, <1>8, Zenon DEF Small, Minimized
  <2> DEFINE hasty == Pixels(r) \ Pixels(st.clip)
  <2>4. hasty \subseteq Pixel
    BY DEF Pixels
  <2>5. \A p \in Pixel : p \in hasty <=> Within(p, r) /\ ~Within(p, st.clip)
    <3>1. st.clip \in Rect
      BY <1>1, StateIs, Zenon
    <3>2. QED
      BY <3>1, WithinIs, Zenon
  <2> HIDE DEF hasty
  <2>6. PICK shrunk : shrunk = [st EXCEPT !.place[win] = small, !.old[win] = r, !.spoiled = @ \cup hasty]
    BY Zenon
  <2>7. /\ shrunk \in PictureStates /\ shrunk.stack = st.stack /\ shrunk.place = [st.place EXCEPT ![win] = small]
        /\ shrunk.old = [st.old EXCEPT ![win] = r] /\ shrunk.spoiled = st.spoiled \cup hasty
        /\ shrunk.screen = st.screen /\ shrunk.clip = st.clip
        /\ shrunk.dirty = st.dirty /\ shrunk.dirtylines = st.dirtylines
    BY <1>1, <1>2, <2>4, <2>6 DEF PictureStates
  <2>8. /\ shrunk.place[win] = small /\ shrunk.old[win] = r
        /\ \A v \in Range(st.stack) : v # win => shrunk.place[v] = st.place[v] /\ shrunk.old[v] = st.old[v]
    BY <1>2, <1>5, <1>6, <2>7
  <2>9. Sized(shrunk)
    BY <1>1, <2>2, <2>3, <2>7, <2>8, Zenon DEF Sized
  <2>10. Sound(shrunk)
    BY <1>1, <2>7, <2>9, Zenon DEF Sound
  <2>11. PICK after : after = Paint(shrunk, 1, r, "forced") /\ ForcedPaint(shrunk, after, r) /\ Sound(after)
    <3>1. ForcedPaint(shrunk, Paint(shrunk, 1, r, "forced"), r) /\ Sound(Paint(shrunk, 1, r, "forced"))
      BY <2>10, ForcedSound, Zenon
    <3>2. QED
      BY <3>1, Zenon
  <2>12. WindowMin(st) = after
    <3>1. shrunk = [st EXCEPT !.place[win] = small, !.old[win] = r, !.spoiled = @ \cup (Pixels(r) \ Pixels(st.clip))]
      BY <2>6, Zenon DEF hasty
    <3>2. small = RectOf(st.place[win].x, st.place[win].y, MinimizedW, WINTITLEBAR) /\ ~Minimized(st.place[win])
      BY <1>3, <1>8, <2>2, Zenon
    <3>3. QED
      BY <1>2, <1>3, <2>11, <3>1, <3>2, Zenon DEF WindowMin
  <2>13. after.stack = st.stack /\ after.place = shrunk.place /\ after.spoiled = st.spoiled \cup hasty
    BY <2>7, <2>11, Zenon DEF ForcedPaint, SameScene
  <2>14. ASSUME NEW p \in Pixel \ (st.spoiled \cup hasty), Front(st.stack, shrunk.place, p, Desktop)
         PROVE  after.screen[p] = Grey
    <3>1. \A v \in Range(st.stack) : ~Within(p, shrunk.place[v])
      BY <1>1, <2>14, DesktopFront, Zenon
    <3>2. CASE Within(p, r)
      <4>1. Front(shrunk.stack, shrunk.place, p, Desktop) /\ Within(p, shrunk.clip)
        BY <2>5, <2>7, <2>14, <3>2, Zenon
      <4>2. QED
        BY <2>11, <3>2, <4>1, GreyStays, Zenon
    <3>3. CASE ~Within(p, r)
      <4>1. \A v \in Range(st.stack) : ~Within(p, st.place[v])
        BY <1>3, <2>8, <3>1, <3>3, Zenon
      <4>2. st.screen[p] = Grey
        BY <1>1, <4>1, DesktopFront, Zenon DEF DesktopGrey
      <4>3. QED
        <5>1. Front(shrunk.stack, shrunk.place, p, Desktop) /\ shrunk.screen[p] = Grey
          BY <2>7, <2>14, <4>2, Zenon
        <5>2. QED
          BY <2>11, <5>1, GreyStays, Zenon
    <3>4. QED
      BY <3>2, <3>3, Zenon
  <2>15. QED
    BY <2>11, <2>12, <2>13, <2>14, Zenon DEF DesktopGrey
<1>9. QED
  BY <1>7, <1>8, Zenon

-----------------------------------------------------------------------------
\* The mouse

\* A pixel shows something of the window in front, whatever it is.
OwnedBy(shown, w) == IF w = Desktop THEN shown = Grey ELSE shown[1] = w

\* While a window is dragged the others own their pixels; once it has moved, it
\* does so too.
DragFine(st, moved) ==
    \A p \in Pixel \ st.spoiled : \A w :
        Front(st.stack, st.place, p, w) /\ (w # Desktop => moved \/ w # st.stack[1]) => OwnedBy(st.screen[p], w)

\* Those behind the front window have painted these areas.
Behind(st, after, areas) ==
    /\ after \in PictureStates /\ SameScene(st, after) /\ after.clip = st.clip
    /\ after.dirty = st.dirty /\ after.dirtylines = st.dirtylines
    /\ \A p \in Pixel :
        /\ ~Covered(p, areas) => after.screen[p] = st.screen[p]
        /\ \A w : Covered(p, areas) /\ FrontFrom(st.stack, st.place, 2, p, w) => OwnedBy(after.screen[p], w)

\* What a window draws during a drag is its own.
LEMMA DraggedOwns ==
    ASSUME NEW st, NEW w, NEW p, Within(p, st.clip), NEW was
    PROVE  OwnedBy(Shown(st, "dragged", w, p, was), w)
<1>1. CASE w = Desktop
  BY <1>1, Zenon DEF Shown, OwnedBy
<1>2. CASE w # Desktop
  <2>1. "dragged" # "dirty"
    OBVIOUS
  <2>2. Shown(st, "dragged", w, p, was) = <<w, ShadeOf(st, w, "dragged")>> \/ Shown(st, "dragged", w, p, was) = <<w, "frame">>
    BY <1>2, <2>1, Zenon DEF Shown
  <2>3. Shown(st, "dragged", w, p, was)[1] = w
    BY <2>2
  <2>4. QED
    BY <1>2, <2>3, Zenon DEF OwnedBy
<1>3. QED
  BY <1>1, <1>2, Zenon

\* Painting the areas a dragged window has left, one after the other.
LEMMA UncoveredIs ==
    ASSUME NEW st \in PictureStates, st.stack # <<>>, NEW areas \in Seq(Rect),
           \A p \in Pixel : Covered(p, areas) => Within(p, st.clip)
    PROVE  Behind(st, LeftBehind(st, areas), areas)
<1>1. PICK k \in Nat : k = Len(areas) /\ DOMAIN areas = 1 .. k
  OBVIOUS
<1>2. \A j \in 1 .. k : areas[j] \in Rect
  BY <1>1
<1> DEFINE V == {q \in PictureStates : q.stack = st.stack}
           way == [j \in 1 .. k |-> [q \in V |-> Paint(q, 2, areas[j], "dragged")]]
           Is(h) == h = [n \in 0 .. k |-> IF n = 0 THEN st ELSE Paint(h[n - 1], 2, areas[n], "dragged")]
<1>3. ASSUME NEW q \in V, NEW j \in 1 .. k
      PROVE  Repainted(q, Paint(q, 2, areas[j], "dragged"), 2, areas[j], "dragged") /\ Paint(q, 2, areas[j], "dragged") \in V
  <2>1. q \in PictureStates /\ q.stack = st.stack
    OBVIOUS
  <2>2. 2 \in 1 .. Len(q.stack) + 1
    BY <2>1, StateIs
  <2>3. PICK a \in Rect : a = areas[j]
    BY <1>2, Zenon
  <2>4. Repainted(q, Paint(q, 2, a, "dragged"), 2, a, "dragged")
    BY <2>1, <2>2, PaintIs, HowsAre, Zenon
  <2>5. QED
    BY <2>1, <2>3, <2>4, Zenon DEF Repainted
<1>4. PICK g \in [0 .. k -> V] : g[0] = st /\ \A j \in 1 .. k : g[j] = way[j][g[j - 1]]
  <2>1. Recursive(k, V)
    BY <1>1, RecursionIs, Zenon
  <2>2. way \in [1 .. k -> [V -> V]]
    BY <1>3, Zenon
  <2>3. st \in V
    OBVIOUS
  <2>4. QED
    BY <2>1, <2>2, <2>3, Zenon DEF Recursive
<1>5. ASSUME NEW j \in 1 .. k PROVE j \in 0 .. k /\ j - 1 \in 0 .. k /\ j # 0
  BY <1>1
<1>6. ASSUME NEW j \in 0 .. k PROVE g[j] \in V
  BY <1>4, Zenon
<1>7. ASSUME NEW j \in 1 .. k PROVE g[j] = Paint(g[j - 1], 2, areas[j], "dragged")
  BY <1>4, <1>5, <1>6, Zenon
<1>8. g = [j \in 0 .. k |-> g[j]] /\ Tabled(g, k)
  BY <1>4, Zenon DEF Tabled
<1>9. Is(g)
  <2>1. ASSUME NEW n \in 0 .. k PROVE g[n] = IF n = 0 THEN st ELSE Paint(g[n - 1], 2, areas[n], "dragged")
    <3>1. n # 0 => n \in 1 .. k
      OBVIOUS
    <3>2. QED
      BY <1>4, <1>7, <3>1, Zenon
  <2>2. QED
    BY <1>8, <2>1, Zenon
<1>10. ASSUME NEW h, Is(h) PROVE h = g
  <2>1. Tabled(h, k)
    BY <1>10, Zenon DEF Tabled
  <2>2. 0 \in 0 .. k
    BY <1>1
  <2>3. h[0] = g[0]
    BY <1>4, <1>10, <2>2, Zenon
  <2>4. \A j \in 1 .. k : h[j - 1] = g[j - 1] => h[j] = g[j]
    BY <1>5, <1>7, <1>10, Zenon
  <2> HIDE DEF Is
  <2>5. QED
    BY <1>1, <1>8, <2>1, <2>3, <2>4, SameRecursion, Zenon
<1>11. (CHOOSE h : Is(h)) = g
  <2>1. Is(CHOOSE h : Is(h))
    BY <1>9, Zenon
  <2>2. QED
    BY <1>10, <2>1, Zenon
<1>12. LeftBehind(st, areas) = g[k]
  <2>1. LeftBehind(st, areas) = (CHOOSE h : Is(h))[k]
    BY <1>1, Zenon DEF LeftBehind
  <2>2. QED
    BY <1>11, <2>1, Zenon
<1> HIDE DEF Is, way
<1> DEFINE hit(p, n) == \E i \in 1 .. n : Within(p, areas[i])
           Same(q) == /\ SameScene(st, q) /\ q.clip = st.clip
                      /\ q.dirty = st.dirty /\ q.dirtylines = st.dirtylines
           Fine(n) == \A p \in Pixel :
                        /\ ~hit(p, n) => g[n].screen[p] = st.screen[p]
                        /\ \A w : hit(p, n) /\ FrontFrom(st.stack, st.place, 2, p, w) => OwnedBy(g[n].screen[p], w)
           S == {n \in 0 .. k : Same(g[n]) /\ Fine(n)}
<1>13. 0 \in S
  <2>1. 0 \in 0 .. k /\ \A p : ~hit(p, 0)
    BY <1>1
  <2>2. QED
    BY <1>4, <2>1, Zenon DEF SameScene
<1>14. ASSUME NEW n \in 1 .. k, n - 1 \in S PROVE n \in S
  <2>1. PICK q \in V, r \in V, a \in Rect :
            q = g[n - 1] /\ r = g[n] /\ a = areas[n] /\ Same(q) /\ Repainted(q, r, 2, a, "dragged")
    BY <1>2, <1>3, <1>5, <1>6, <1>7, <1>14, Zenon
  <2>2. "dragged" # "forced"
    OBVIOUS
  <2>3. Same(r)
    BY <2>1, <2>2, Zenon DEF Repainted, SameScene
  <2>4. Fine(n - 1)
    BY <1>14, Zenon
  <2>5. ASSUME NEW p \in Pixel
        PROVE  /\ ~hit(p, n) => r.screen[p] = st.screen[p]
               /\ \A w : hit(p, n) /\ FrontFrom(st.stack, st.place, 2, p, w) => OwnedBy(r.screen[p], w)
    <3>1. hit(p, n) <=> hit(p, n - 1) \/ Within(p, a)
      <4>1. \A i : i \in 1 .. n <=> i \in 1 .. n - 1 \/ i = n
        BY <1>1
      <4>2. QED
        BY <2>1, <4>1, Zenon
    <3>2. hit(p, n) => Within(p, st.clip)
      <4>1. \A i \in 1 .. n : i \in 1 .. k
        BY <1>1
      <4>2. QED
        BY <1>1, <4>1, Zenon DEF Covered
    <3> HIDE DEF hit
    <3>3. CASE ~Within(p, a)
      <4>1. r.screen[p] = q.screen[p]
        BY <2>1, <3>3, Zenon DEF Repainted
      <4>2. QED
        BY <2>1, <2>4, <3>1, <3>3, <4>1, Zenon
    <3>4. CASE Within(p, a)
      <4>1. ASSUME NEW w, FrontFrom(st.stack, st.place, 2, p, w) PROVE OwnedBy(r.screen[p], w)
        <5>1. q.stack = st.stack /\ q.place = st.place /\ q.clip = st.clip
          BY <2>1, Zenon DEF SameScene
        <5>2. r.screen[p] = Shown(q, "dragged", w, p, q.screen[p])
          BY <2>1, <3>4, <4>1, <5>1, Zenon DEF Repainted
        <5>3. PICK was : was = q.screen[p]
          BY Zenon
        <5>4. Within(p, q.clip)
          BY <3>1, <3>2, <3>4, <5>1, Zenon
        <5>5. OwnedBy(Shown(q, "dragged", w, p, was), w)
          BY <5>4, DraggedOwns
        <5>6. QED
          BY <5>2, <5>3, <5>5, Zenon
      <4>2. QED
        BY <3>1, <3>4, <4>1, Zenon
    <3>5. QED
      BY <3>3, <3>4, Zenon
  <2>6. QED
    BY <1>5, <2>1, <2>3, <2>5, Zenon
<1> HIDE DEF S
<1>15. \A n \in 0 .. k : n \in S
  BY <1>1, <1>13, <1>14, CountUp, Zenon
<1>16. k \in 0 .. k
  BY <1>1
<1>17. Same(g[k]) /\ Fine(k) /\ g[k] \in PictureStates
  <2>1. Same(g[k]) /\ Fine(k)
    BY <1>15, <1>16, Zenon DEF S
  <2>2. g[k] \in V
    BY <1>6, <1>16, Zenon
  <2>3. QED
    BY <2>1, <2>2, Zenon
<1>18. \A p : hit(p, k) <=> Covered(p, areas)
  BY <1>1, Zenon DEF Covered
<1> HIDE DEF hit
<1>19. QED
  BY <1>12, <1>17, <1>18, Zenon DEF Behind

\* A window moved: where it neither was nor is, the front is as before.
LEMMA FrontWhenMoved ==
    ASSUME NEW s \in Stacks, NEW win \in Range(s), NEW place, NEW new, NEW p,
           \A v \in Range(s) : v # win => new[v] = place[v],
           ~Within(p, new[win]), ~Within(p, place[win]), NEW w, Front(s, new, p, w)
    PROVE  w # win /\ Front(s, place, p, w)
<1>1. IsFront(s, new, p, w)
  BY FrontIs, Zenon
<1>2. win \in Frames
  BY DEF Stacks, Range
<1>3. win # Desktop
  BY <1>2, PaintingAssumption DEF Desktop
<1>4. \A v \in Range(s) : Within(p, place[v]) <=> Within(p, new[v])
  BY Zenon
<1>5. w # win
  BY <1>1, <1>3, Zenon DEF IsFront
<1>6. IsFront(s, place, p, w)
  <2>1. CASE w = Desktop
    BY <1>1, <1>4, <2>1, Zenon DEF IsFront
  <2>2. CASE w # Desktop
    BY <1>1, <1>4, <2>2, Zenon DEF IsFront
  <2>3. QED
    BY <2>1, <2>2, Zenon
<1>7. QED
  BY <1>5, <1>6, FrontIs, Zenon

\* The window that is dragged, in its new place.
Dragged(st, x, y) ==
    LET moved == WindowMove(st, x, y)
        left == RectAreasOutside(st.place[Top(st)], moved.place[Top(st)])
        clipped == Clipped(LeftBehind(moved, left), moved.place[Top(st)])
    IN  [clipped EXCEPT !.screen = Render(clipped, @, Top(st), clipped.clip, "dragged")]

\* "repaint only difference of old and new" leaves no trail.
LEMMA DraggedIs ==
    ASSUME NEW st, Sound(st), st.stack # <<>>, st.dirty \subseteq {Top(st)}, NEW m, DragFine(st, m),
           NEW x \in Int, NEW y \in Int, Moves(st, x, y)
    PROVE  /\ Sound(Dragged(st, x, y)) /\ Dragged(st, x, y).stack = st.stack
           /\ Dragged(st, x, y).dirty \subseteq {Top(st)} /\ DragFine(Dragged(st, x, y), TRUE)
<1>1. /\ st \in PictureStates /\ st.stack \in Stacks /\ st.dirty \subseteq st.dirtylines
      /\ st.dirtylines \subseteq Range(st.stack) /\ Sized(st)
  BY Zenon DEF Sound
<1>2. PICK s \in Stacks : s = st.stack /\ s \in Seq(Frames) /\ s # <<>>
  BY <1>1 DEF Stacks
<1>3. PICK win \in Frames : win = Top(st) /\ win = s[1] /\ win \in Range(s) /\ 1 \in 1 .. Len(s)
  <2>1. 1 \in DOMAIN s /\ 1 \in 1 .. Len(s) /\ s[1] \in Frames
    BY <1>2
  <2>2. QED
    BY <1>2, <2>1, Zenon DEF Top, Range
<1>4. PICK r \in Rect : r = st.place[win]
  BY <1>1, StateIs, Zenon
<1>5. PICK z \in Rect : z = RectOf(Aligned(x), y, r.w, r.h) /\ z.w = r.w /\ z.h = r.h
  <2>1. Aligned(x) \in Int /\ r.w \in Int /\ r.h \in Int
    BY AlignedIs, RectIs
  <2>2. PICK a \in Int, b \in Int, c \in Int : a = Aligned(x) /\ b = r.w /\ c = r.h
    BY <2>1, Zenon
  <2>3. RectOf(a, y, b, c) \in Rect /\ RectOf(a, y, b, c).w = b /\ RectOf(a, y, b, c).h = c
    BY RectType
  <2>4. QED
    BY <2>2, <2>3, Zenon
<1>6. PICK clip1 \in PictureStates :
        /\ clip1 = Clipped(st, r) /\ clip1.clip = SetClip(r) /\ SameScene(st, clip1)
        /\ clip1.dirty = st.dirty /\ clip1.dirtylines = st.dirtylines /\ clip1.screen = st.screen
  BY <1>1, ClippedIs, Zenon
<1>7. PICK placed1 : placed1 = [clip1 EXCEPT !.place[win] = z]
  BY Zenon
<1>8. /\ placed1 \in PictureStates /\ placed1.stack = clip1.stack /\ placed1.place = [clip1.place EXCEPT ![win] = z]
      /\ placed1.old = clip1.old /\ placed1.content = clip1.content /\ placed1.spoiled = clip1.spoiled
      /\ placed1.clip = clip1.clip /\ placed1.screen = clip1.screen
      /\ placed1.dirty = clip1.dirty /\ placed1.dirtylines = clip1.dirtylines
  BY <1>7 DEF PictureStates
<1>9. PICK moved \in PictureStates :
        /\ moved = Marked(placed1, win) /\ SameScene(placed1, moved) /\ moved.screen = placed1.screen
        /\ moved.clip = placed1.clip
        /\ moved.dirty = placed1.dirty \cup {win} /\ moved.dirtylines = placed1.dirtylines \cup {win}
  <2>1. placed1 \in PictureStates
    BY <1>8, Zenon
  <2>2. QED
    BY <2>1, MarkedIs, Zenon
<1>10. /\ moved.stack = s /\ moved.old = st.old /\ moved.spoiled = st.spoiled /\ moved.screen = st.screen
       /\ moved.clip = SetClip(r) /\ moved.place = [st.place EXCEPT ![win] = z]
       /\ moved.dirty = st.dirty \cup {win} /\ moved.dirtylines = st.dirtylines \cup {win}
  BY <1>2, <1>6, <1>8, <1>9, Zenon DEF SameScene
<1>11. moved.place[win] = z /\ \A v \in Range(s) : v # win => moved.place[v] = st.place[v]
  <2>1. st.place \in [Frames -> Rect] /\ \A v \in Range(s) : v \in Frames
    BY <1>1, <1>2 DEF PictureStates, Range
  <2>2. QED
    BY <1>10, <2>1
<1>12. WindowMove(st, x, y) = moved
  <2>1. clip1.place[win] = r
    BY <1>4, <1>6, Zenon DEF SameScene
  <2>2. placed1 = [clip1 EXCEPT !.place[win] = RectOf(Aligned(x), y, @.w, @.h)]
    BY <1>5, <1>7, <2>1, Zenon
  <2>3. QED
    BY <1>3, <1>4, <1>6, <1>9, <2>2, Zenon DEF WindowMove
<1>13. Sized(moved)
  <2>1. Whole(st.old[win]) /\ (Whole(z) \/ Small(z))
    BY <1>1, <1>2, <1>3, <1>4, <1>5, Zenon DEF Sized, Whole, Small
  <2>2. QED
    BY <1>1, <1>2, <1>10, <1>11, <2>1, Zenon DEF Sized
<1>14. PICK left \in Seq(Rect) :
        /\ left = RectAreasOutside(r, z)
        /\ \A p \in Pixel : Covered(p, left) <=> Within(p, r) /\ ~Within(p, z)
  <2>1. RectAreasOutside(r, z) \in Seq(Rect)
    BY AreasAre, Zenon
  <2>2. QED
    BY <2>1, AreasAre, Zenon
<1>15. PICK u : u = LeftBehind(moved, left) /\ Behind(moved, u, left)
  <2>1. \A p \in Pixel : Covered(p, left) => Within(p, moved.clip)
    <3>1. \A p \in Pixel : Within(p, SetClip(r)) <=> Within(p, r)
      BY ClipIs, Zenon
    <3>2. moved.clip = SetClip(r)
      BY <1>10, Zenon
    <3>3. \A p \in Pixel : Covered(p, left) => Within(p, r)
      BY <1>14, Zenon
    <3>4. QED
      BY <3>1, <3>2, <3>3, Zenon
  <2>2. moved.stack # <<>>
    BY <1>2, <1>10, Zenon
  <2>3. Behind(moved, LeftBehind(moved, left), left)
    BY <2>1, <2>2, UncoveredIs, Zenon
  <2>4. QED
    BY <2>3, Zenon
<1>16. u \in PictureStates
  BY <1>15, Zenon DEF Behind
<1>17. PICK clip2 \in PictureStates :
        /\ clip2 = Clipped(u, z) /\ clip2.clip = SetClip(z) /\ SameScene(u, clip2)
        /\ clip2.dirty = u.dirty /\ clip2.dirtylines = u.dirtylines /\ clip2.screen = u.screen
  BY <1>16, ClippedIs, Zenon
<1>18. SetClip(z) \in Rect /\ u.screen \in Pictures
  BY <1>16, ClipIs, StateIs, Zenon
<1>19. PICK c \in Rect, pic \in Pictures : c = SetClip(z) /\ pic = u.screen
  BY <1>18, Zenon
<1>20. PICK drawn \in Pictures :
        /\ drawn = Render(clip2, pic, win, c, "dragged")
        /\ \A p \in Pixel : drawn[p] =
                IF Within(p, c) /\ Within(p, clip2.place[win]) THEN Shown(clip2, "dragged", win, p, pic[p]) ELSE pic[p]
  <2>1. /\ Render(clip2, pic, win, c, "dragged") \in Pictures
        /\ \A p \in Pixel : Render(clip2, pic, win, c, "dragged")[p] =
                IF Within(p, c) /\ Within(p, clip2.place[win]) THEN Shown(clip2, "dragged", win, p, pic[p]) ELSE pic[p]
    BY RenderIs, HowsAre
  <2>2. QED
    BY <2>1, Zenon
<1>21. PICK after : after = [clip2 EXCEPT !.screen = drawn]
  BY Zenon
<1>22. drawn \in [Pixel -> Painters \X Shades]
  BY DEF Pictures
<1>23. /\ after \in PictureStates /\ after.stack = clip2.stack /\ after.place = clip2.place /\ after.old = clip2.old
       /\ after.spoiled = clip2.spoiled /\ after.screen = drawn
       /\ after.dirty = clip2.dirty /\ after.dirtylines = clip2.dirtylines
  BY <1>21, <1>22 DEF PictureStates
<1>24. Dragged(st, x, y) = after
  <2>1. moved.place[Top(st)] = z /\ st.place[Top(st)] = r
    BY <1>3, <1>4, <1>11, Zenon
  <2>2. clip2 = Clipped(LeftBehind(WindowMove(st, x, y), RectAreasOutside(st.place[Top(st)], WindowMove(st, x, y).place[Top(st)])),
                        WindowMove(st, x, y).place[Top(st)])
    BY <1>12, <1>14, <1>15, <1>17, <2>1, Zenon
  <2>3. after = [clip2 EXCEPT !.screen = Render(clip2, @, Top(st), clip2.clip, "dragged")]
    BY <1>3, <1>17, <1>19, <1>20, <1>21, Zenon
  <2>4. QED
    BY <2>2, <2>3, Zenon DEF Dragged
<1>25. /\ after.stack = s /\ after.place = moved.place /\ after.old = st.old /\ after.spoiled = st.spoiled
       /\ after.dirty = st.dirty \cup {win} /\ after.dirtylines = st.dirtylines \cup {win}
  <2>1. SameScene(moved, u) /\ u.dirty = moved.dirty /\ u.dirtylines = moved.dirtylines
    BY <1>15, Zenon DEF Behind
  <2>2. /\ u.stack = s /\ u.place = moved.place /\ u.old = st.old /\ u.spoiled = st.spoiled
    BY <1>10, <2>1, Zenon DEF SameScene
  <2>3. u.dirty = st.dirty \cup {win} /\ u.dirtylines = st.dirtylines \cup {win}
    BY <1>10, <2>1, Zenon
  <2>4. /\ clip2.stack = u.stack /\ clip2.place = u.place /\ clip2.old = u.old /\ clip2.spoiled = u.spoiled
    BY <1>17, Zenon DEF SameScene
  <2>5. clip2.dirty = u.dirty /\ clip2.dirtylines = u.dirtylines
    BY <1>17, Zenon
  <2>6. QED
    BY <1>23, <2>2, <2>3, <2>4, <2>5, Zenon
<1>26. Sound(after)
  <2>1. Sized(after)
    BY <1>10, <1>13, <1>25, Zenon DEF Sized
  <2>2. after.dirty \subseteq after.dirtylines /\ after.dirtylines \subseteq Range(after.stack)
    BY <1>1, <1>2, <1>3, <1>25, Zenon
  <2>3. QED
    BY <1>23, <1>25, <2>1, <2>2, Zenon DEF Sound
<1>27. ASSUME NEW p \in Pixel \ st.spoiled, NEW w, Front(s, moved.place, p, w) PROVE OwnedBy(drawn[p], w)
  <2>1. Within(p, c) <=> Within(p, z)
    BY <1>19, ClipIs, Zenon
  <2>2. clip2.place[win] = z
    BY <1>11, <1>15, <1>17, Zenon DEF Behind, SameScene
  <2>3. CASE Within(p, z)
    <3>1. FrontFrom(s, moved.place, 1, p, s[1])
      BY <1>2, <1>3, <1>11, <2>3, FrontIfWithin
    <3>2. FrontFrom(s, moved.place, 1, p, w)
      BY <1>27, Zenon DEF Front
    <3>3. w = win
      BY <1>2, <1>3, <3>1, <3>2, OneIsFront
    <3>4. PICK was : was = pic[p]
      BY Zenon
    <3>5. drawn[p] = Shown(clip2, "dragged", win, p, was)
      BY <1>20, <2>1, <2>2, <2>3, <3>4, Zenon
    <3>6. Within(p, clip2.clip)
      BY <1>17, <1>19, <2>1, <2>3, Zenon
    <3>7. OwnedBy(Shown(clip2, "dragged", win, p, was), win)
      BY <3>6, DraggedOwns
    <3>8. QED
      BY <3>3, <3>5, <3>7, Zenon
  <2>4. CASE ~Within(p, z)
    <3>1. drawn[p] = u.screen[p]
      BY <1>19, <1>20, <2>1, <2>4, Zenon
    <3>2. CASE Within(p, r)
      <4>1. Covered(p, left)
        BY <1>14, <2>4, <3>2, Zenon
      <4>2. ~Within(p, moved.place[s[1]])
        BY <1>3, <1>11, <2>4, Zenon
      <4>3. FrontFrom(s, moved.place, 1, p, w)
        BY <1>27, Zenon DEF Front
      <4>4. FrontFrom(s, moved.place, 2, p, w)
        <5>1. FrontFrom(s, moved.place, 1 + 1, p, w)
          BY <1>2, <1>3, <4>2, <4>3, FrontIfOutside
        <5>2. 1 + 1 = 2
          OBVIOUS
        <5>3. QED
          BY <5>1, <5>2
      <4>5. QED
        BY <1>10, <1>15, <3>1, <4>1, <4>4, Zenon DEF Behind
    <3>3. CASE ~Within(p, r)
      <4>1. ~Covered(p, left)
        BY <1>14, <3>3, Zenon
      <4>2. drawn[p] = st.screen[p]
        BY <1>10, <1>15, <3>1, <4>1, Zenon DEF Behind
      <4>3. w # win /\ Front(s, st.place, p, w)
        BY <1>3, <1>4, <1>11, <1>27, <2>4, <3>3, FrontWhenMoved, Zenon
      <4>4. QED
        BY <1>2, <1>3, <4>2, <4>3, Zenon DEF DragFine
    <3>4. QED
      BY <3>2, <3>3, Zenon
  <2>5. QED
    BY <2>3, <2>4, Zenon
<1>28. DragFine(after, TRUE)
  BY <1>23, <1>25, <1>27, Zenon DEF DragFine
<1>29. after.dirty \subseteq {Top(st)}
  BY <1>3, <1>25, Zenon
<1>30. QED
  BY <1>2, <1>24, <1>25, <1>26, <1>28, <1>29, Zenon

\* The window under the mouse comes to the front; the others keep what they have.
LEMMA PressedIs ==
    ASSUME NEW st, Sound(st), AllFine(st), st.dirty = {}, NEW win \in Range(st.stack)
    PROVE  \E after :
            /\ after = WindowTop(st, win) /\ Sound(after) /\ after.stack # <<>>
            /\ after.dirty \subseteq {after.stack[1]} /\ DragFine(after, FALSE)
<1>1. PICK after :
            /\ after = WindowTop(st, win) /\ Sound(after) /\ AllFine(after)
            /\ after.stack # <<>> /\ after.stack[1] = win /\ Range(after.stack) = Range(st.stack)
            /\ after.place = st.place /\ after.screen = st.screen /\ after.spoiled = st.spoiled
            /\ after.dirty \subseteq st.dirty \cup {win} /\ after.clip = SetClip(st.place[win])
            /\ \A p, w : w # win /\ Front(after.stack, st.place, p, w) => Front(st.stack, st.place, p, w)
  BY WindowTopIs, Zenon
<1>2. win # Desktop
  <2>1. win \in Frames
    BY DEF Sound, Stacks, Range
  <2>2. QED
    BY <2>1, PaintingAssumption DEF Desktop
<1>3. ASSUME NEW p \in Pixel \ st.spoiled, NEW w, Front(after.stack, st.place, p, w), w # win
      PROVE  OwnedBy(st.screen[p], w)
  <2>1. FineAt(st, p, w)
    BY <1>1, <1>3, Zenon DEF AllFine
  <2>2. CASE w = Desktop
    BY <2>1, <2>2, Zenon DEF FineAt, OwnedBy
  <2>3. CASE w # Desktop
    <3>1. st.screen[p] = Due(st, p, w) \/ st.screen[p][1] = w
      BY <2>1, <2>3, Zenon DEF FineAt
    <3>2. Due(st, p, w)[1] = w
      BY DEF Due
    <3>3. QED
      BY <2>3, <3>1, <3>2, Zenon DEF OwnedBy
  <2>4. QED
    BY <2>2, <2>3, Zenon
<1>4. DragFine(after, FALSE)
  BY <1>1, <1>2, <1>3, Zenon DEF DragFine
<1>5. after.dirty \subseteq {after.stack[1]}
  BY <1>1, Zenon
<1>6. QED
  BY <1>1, <1>4, <1>5, Zenon

-----------------------------------------------------------------------------
\* The main loop

Drags == [on : BOOLEAN, x : Int, y : Int, frame : BOOLEAN, cache : BOOLEAN, moved : BOOLEAN]

\* Between two rounds of the loop no frame waits for its repaint and every pixel is
\* right, or its window's text waits; during a drag only the window in front waits.
Holds(st, d) ==
    /\ Sound(st)
    /\ ~d.on => st.dirty = {} /\ AllFine(st)
    /\ d.on => st.stack # <<>> /\ st.dirty \subseteq {st.stack[1]} /\ DragFine(st, d.moved)

\* The inductive invariant of the windows.
PaintingInv == drag \in Drags /\ doings \in 0 .. MaxDoings /\ Holds(Now, drag)

\* States that differ in nothing but the clip and the kept copy of a text.
Alike(st, after) ==
    /\ after \in PictureStates
    /\ after.stack = st.stack /\ after.place = st.place /\ after.old = st.old /\ after.content = st.content
    /\ after.dirty = st.dirty /\ after.dirtylines = st.dirtylines /\ after.screen = st.screen
    /\ after.spoiled = st.spoiled

\* Neither the clip nor the copy says whether a state is right.
LEMMA HoldsAlike ==
    ASSUME NEW st, NEW d, Holds(st, d), NEW after, Alike(st, after)
    PROVE  Holds(after, d)
<1>1. Sound(after)
  <2>1. Sized(after)
    BY Zenon DEF Holds, Alike, Sound, Sized
  <2>2. QED
    BY <2>1, Zenon DEF Holds, Alike, Sound
<1>2. ASSUME AllFine(st) PROVE AllFine(after)
  <2>1. ASSUME NEW p, NEW w, FineAt(st, p, w) PROVE FineAt(after, p, w)
    <3>1. InText(after, p, w) <=> InText(st, p, w)
      BY Zenon DEF Alike, InText
    <3>2. Due(after, p, w) = Due(st, p, w)
      BY <3>1, Zenon DEF Alike, Due
    <3>3. QED
      BY <2>1, <3>1, <3>2, Zenon DEF Alike, FineAt
  <2>2. \A p \in Pixel \ after.spoiled : \A w :
            Front(after.stack, after.place, p, w) => p \in Pixel \ st.spoiled /\ Front(st.stack, st.place, p, w)
    BY Zenon DEF Alike
  <2>3. QED
    BY <1>2, <2>1, <2>2, Zenon DEF AllFine
<1>3. ASSUME NEW m, DragFine(st, m) PROVE DragFine(after, m)
  BY <1>3, Zenon DEF Alike, DragFine
<1>4. QED
  BY <1>1, <1>2, <1>3, Zenon DEF Holds, Alike

\* What an operation gives is what the variables hold afterwards.
LEMMA HoldsAfter ==
    ASSUME NEW st, Holds(st, drag'), drag' \in Drags, SetNow(st)
    PROVE  Holds(Now', drag')
<1>1. st \in PictureStates
  BY Zenon DEF Holds, Sound
<1>2. Alike(st, Now')
  BY <1>1 DEF Alike, Now, SetNow, PictureStates, Drags
<1>3. QED
  BY <1>2, HoldsAlike, Zenon

\* At first there is the desktop alone.
LEMMA PaintingStarts == PaintingInit => PaintingInv
<1> SUFFICES ASSUME PaintingInit PROVE PaintingInv
  OBVIOUS
<1>1. drag \in Drags /\ ~drag.on
  BY DEF PaintingInit, NoDrag, Drags
<1>2. doings \in 0 .. MaxDoings
  BY PaintingAssumption DEF PaintingInit
<1>3. RectOf(0, 0, 0, 0) \in Rect /\ screenrect \in Rect
  BY PaintingAssumption DEF Rect, RectOf, screenrect
<1>4. Grey \in Painters \X Shades
  BY DEF Grey, Painters, Shades
<1>5. PICK st : st = Now
  BY Zenon
<1>6. /\ st.stack = <<>> /\ st.place = placed /\ st.dirty = {} /\ st.dirtylines = {}
      /\ st.screen = [p \in Pixel |-> Grey] /\ st.spoiled = {}
  BY <1>5 DEF Now, PaintingInit
<1>7. st \in PictureStates
  <2>1. placed \in [Frames -> Rect] /\ old \in [Frames -> Rect] /\ content \in [Frames -> Texts] /\ cliprect \in Rect
    BY <1>3 DEF PaintingInit, Texts
  <2>2. pixels \in [Pixel -> Painters \X Shades]
    BY <1>4, Zenon DEF PaintingInit
  <2>3. stack \in Seq(Frames) /\ dirty \in SUBSET Frames /\ dirtylines \in SUBSET Frames /\ spoiled \in SUBSET Pixel
    BY DEF PaintingInit
  <2>4. drag.cache \in BOOLEAN
    BY <1>1 DEF Drags
  <2>5. QED
    BY <1>5, <2>1, <2>2, <2>3, <2>4 DEF Now, PictureStates
<1>8. Range(st.stack) = {} /\ st.stack \in Stacks
  BY <1>6 DEF Range, Stacks
<1>9. Sound(st)
  BY <1>6, <1>7, <1>8, Zenon DEF Sound, Sized
<1>10. ASSUME NEW p \in Pixel \ st.spoiled, NEW w, Front(st.stack, st.place, p, w) PROVE FineAt(st, p, w)
  <2>1. IsFront(st.stack, st.place, p, w)
    BY <1>8, <1>10, FrontIs, Zenon
  <2>2. w = Desktop
    BY <1>8, <2>1, Zenon DEF IsFront
  <2>3. QED
    BY <1>6, <2>2, Zenon DEF FineAt
<1>11. QED
  BY <1>1, <1>2, <1>5, <1>6, <1>9, <1>10, Zenon DEF PaintingInv, Holds, AllFine

\* A program's output: its window shows the old text until the repaint.
LEMMA WrittenIs ==
    ASSUME NEW st, Sound(st), AllFine(st), NEW win \in Range(st.stack), NEW text,
           NEW after \in PictureStates, after.content = [st.content EXCEPT ![win] = text],
           after.stack = st.stack, after.place = st.place, after.old = st.old, after.dirty = st.dirty,
           after.dirtylines = st.dirtylines \cup {win}, after.screen = st.screen, after.spoiled = st.spoiled
    PROVE  Sound(after) /\ AllFine(after)
<1>1. Sound(after)
  <2>1. Sized(after)
    BY Zenon DEF Sound, Sized
  <2>2. after.dirty \subseteq after.dirtylines /\ after.dirtylines \subseteq Range(after.stack)
    BY Zenon DEF Sound
  <2>3. QED
    BY <2>1, <2>2, Zenon DEF Sound
<1>2. ASSUME NEW p, NEW w \in Range(st.stack) \cup {Desktop}, FineAt(st, p, w) PROVE FineAt(after, p, w)
  <2>1. InText(after, p, w) <=> InText(st, p, w)
    BY Zenon DEF InText
  <2>2. CASE w = Desktop
    BY <1>2, <2>2, Zenon DEF FineAt
  <2>3. CASE w = win /\ w # Desktop
    <3>1. Due(st, p, w)[1] = w /\ (~InText(st, p, w) => Due(after, p, w) = Due(st, p, w))
      BY <2>1 DEF Due
    <3>2. QED
      BY <1>2, <2>1, <2>3, <3>1, Zenon DEF FineAt
  <2>4. CASE w # win /\ w # Desktop
    <3>1. w \in Frames /\ st.content \in [Frames -> Texts]
      BY <2>4 DEF Sound, Stacks, Range, PictureStates
    <3>2. after.content[w] = st.content[w]
      BY <2>4, <3>1
    <3>3. Due(after, p, w) = Due(st, p, w)
      BY <2>1, <3>2, Zenon DEF Due
    <3>4. QED
      BY <1>2, <2>1, <2>4, <3>3, Zenon DEF FineAt
  <2>5. QED
    BY <2>2, <2>3, <2>4, Zenon
<1>3. ASSUME NEW p \in Pixel \ after.spoiled, NEW w, Front(after.stack, after.place, p, w) PROVE FineAt(after, p, w)
  <2>1. Front(st.stack, st.place, p, w) /\ p \in Pixel \ st.spoiled
    BY <1>3, Zenon
  <2>2. FineAt(st, p, w)
    BY <2>1, Zenon DEF AllFine
  <2>3. IsFront(st.stack, st.place, p, w)
    BY <2>1, FrontIs, Zenon DEF Sound
  <2>4. w \in Range(st.stack) \cup {Desktop}
    BY <2>3, Zenon DEF IsFront
  <2>5. QED
    BY <1>2, <2>2, <2>4, Zenon
<1>4. QED
  BY <1>1, <1>3, Zenon DEF AllFine

\* A step that sets the variables to a sound state keeps the invariant.
LEMMA PaintingStep ==
    ASSUME NEW st, SetNow(st), Holds(st, drag'), drag' \in Drags, doings' \in 0 .. MaxDoings
    PROVE  PaintingInv'
<1>1. Holds(Now', drag')
  BY HoldsAfter, Zenon
<1>2. QED
  BY <1>1, Zenon DEF PaintingInv

\* What is said of the doings.
LEMMA AnotherCounts == ASSUME doings \in 0 .. MaxDoings, Another PROVE doings' \in 0 .. MaxDoings
BY PaintingAssumption DEF Another

\* The record of the variables.
LEMMA NowFields ==
    /\ Now.stack = stack /\ Now.place = placed /\ Now.old = old /\ Now.content = content
    /\ Now.dirty = dirty /\ Now.dirtylines = dirtylines /\ Now.clip = cliprect
    /\ Now.screen = pixels /\ Now.cache = drag.cache /\ Now.spoiled = spoiled
BY DEF Now

\* Each step keeps the invariant: a program writes,
LEMMA WriteLineKeeps == ASSUME PaintingInv, NEW win \in Frames, WriteLine(win) PROVE PaintingInv'
<1>1. PICK st : st = Now /\ Sound(st) /\ AllFine(st) /\ st.dirty = {} /\ win \in Range(st.stack)
  BY NowFields, Zenon DEF PaintingInv, Holds, WriteLine
<1>2. PICK text \in Texts : content' = [content EXCEPT ![win] = text]
  <2>1. content' = [content EXCEPT ![win] = IF content[win] = "text0" THEN "text1" ELSE "text0"]
    BY DEF WriteLine
  <2>2. "text1" \in Texts /\ "text0" \in Texts
    BY DEF Texts
  <2>3. QED
    BY <2>1, <2>2
<1>3. st \in PictureStates /\ content' = [st.content EXCEPT ![win] = text] /\ dirtylines' = st.dirtylines \cup {win}
  BY <1>1, <1>2, NowFields, Zenon DEF Sound, WriteLine
<1>4. PICK c \in [Frames -> Texts], d \in SUBSET Frames :
        c = [st.content EXCEPT ![win] = text] /\ d = st.dirtylines \cup {win}
  <2>1. [st.content EXCEPT ![win] = text] \in [Frames -> Texts] /\ st.dirtylines \cup {win} \in SUBSET Frames
    BY <1>2, <1>3 DEF PictureStates
  <2>2. QED
    BY <2>1, Zenon
<1>5. PICK after : after = [st EXCEPT !.content = c, !.dirtylines = d]
  BY Zenon
<1>6. /\ after \in PictureStates /\ after.content = c /\ after.dirtylines = d
      /\ after.stack = st.stack /\ after.place = st.place /\ after.old = st.old /\ after.dirty = st.dirty
      /\ after.screen = st.screen /\ after.spoiled = st.spoiled /\ after.clip = st.clip
  BY <1>3, <1>5 DEF PictureStates
<1>7. Sound(after) /\ AllFine(after)
  <2>1. after.content = [st.content EXCEPT ![win] = text] /\ after.dirtylines = st.dirtylines \cup {win}
    BY <1>4, <1>6, Zenon
  <2>2. QED
    BY <1>1, <1>6, <2>1, WrittenIs, Zenon
<1>8. SetNow(after)
  <2>1. content' = after.content /\ dirtylines' = after.dirtylines
    BY <1>3, <1>4, <1>6, Zenon
  <2>2. /\ after.stack = stack /\ after.place = placed /\ after.old = old /\ after.dirty = dirty
        /\ after.screen = pixels /\ after.spoiled = spoiled /\ after.clip = cliprect
    BY <1>1, <1>6, NowFields, Zenon
  <2>3. QED
    BY <2>1, <2>2, Zenon DEF SetNow, WriteLine
<1>9. Holds(after, drag') /\ drag' \in Drags /\ doings' \in 0 .. MaxDoings
  <2>1. drag' = drag /\ ~drag.on /\ doings' \in 0 .. MaxDoings
    BY AnotherCounts DEF PaintingInv, WriteLine
  <2>2. QED
    BY <1>1, <1>6, <1>7, <2>1, Zenon DEF Holds, PaintingInv
<1>10. QED
  BY <1>8, <1>9, PaintingStep, Zenon

\* what waits is repainted,
LEMMA RepaintDamageKeeps == ASSUME PaintingInv, RepaintDamage PROVE PaintingInv'
<1>1. PICK st : st = Now /\ Sound(st) /\ AllFine(st)
  BY Zenon DEF PaintingInv, Holds, RepaintDamage
<1>2. PICK after : after = RepaintDirty(st) /\ Sound(after) /\ AllFine(after) /\ after.dirty = {}
  BY <1>1, RepaintDirtyIs, Zenon
<1>3. SetNow(after) /\ drag' = drag /\ doings' = doings /\ ~drag.on
  BY <1>1, <1>2, Zenon DEF RepaintDamage
<1>4. Holds(after, drag') /\ drag' \in Drags /\ doings' \in 0 .. MaxDoings
  BY <1>2, <1>3, Zenon DEF Holds, PaintingInv
<1>5. QED
  BY <1>3, <1>4, PaintingStep, Zenon

\* a window is opened,
LEMMA OpenKeeps == ASSUME PaintingInv, NEW win \in Frames, NEW p \in Points, Open(win, p) PROVE PaintingInv'
<1>1. PICK st : st = Now /\ Sound(st) /\ AllFine(st) /\ win \notin Range(st.stack)
  BY NowFields, Zenon DEF PaintingInv, Holds, Open
<1>2. PICK made : made = WindowCreate(st, win, p) /\ Sound(made) /\ AllFine(made)
  BY <1>1, WindowCreateIs, Zenon
<1>3. PICK after : after = RepaintDirty(made) /\ Sound(after) /\ AllFine(after) /\ after.dirty = {}
  BY <1>2, RepaintDirtyIs, Zenon
<1>4. SetNow(after) /\ drag' = drag /\ ~drag.on
  BY <1>1, <1>2, <1>3, Zenon DEF Open
<1>5. doings' \in 0 .. MaxDoings
  BY AnotherCounts DEF PaintingInv, Open
<1>6. Holds(after, drag') /\ drag' \in Drags
  BY <1>3, <1>4, Zenon DEF Holds, PaintingInv
<1>7. QED
  BY <1>4, <1>5, <1>6, PaintingStep, Zenon

\* or closed,
LEMMA CloseKeeps == ASSUME PaintingInv, NEW win \in Frames, Close(win) PROVE PaintingInv'
<1>1. PICK st : st = Now /\ Sound(st) /\ AllFine(st) /\ st.dirty = {} /\ win \in Range(st.stack)
  BY NowFields, Zenon DEF PaintingInv, Holds, Close
<1>2. PICK after : after = WindowDestroy(st, win) /\ Sound(after) /\ AllFine(after) /\ after.dirty = {}
  BY <1>1, WindowDestroyIs, Zenon
<1>3. SetNow(after) /\ drag' = drag /\ ~drag.on
  BY <1>1, <1>2, Zenon DEF Close
<1>4. doings' \in 0 .. MaxDoings
  BY AnotherCounts DEF PaintingInv, Close
<1>5. Holds(after, drag') /\ drag' \in Drags
  BY <1>2, <1>3, Zenon DEF Holds, PaintingInv
<1>6. QED
  BY <1>3, <1>4, <1>5, PaintingStep, Zenon

\* the screen is drawn anew,
LEMMA RefreshKeeps == ASSUME PaintingInv, Refresh PROVE PaintingInv'
<1>1. PICK st : st = Now /\ Sound(st)
  BY Zenon DEF PaintingInv, Holds
<1>2. PICK all :
        /\ all = [Paint([st EXCEPT !.clip = screenrect], 1, screenrect, "forced") EXCEPT !.spoiled = {}]
        /\ Sound(all) /\ AllFine(all)
  BY <1>1, RefreshIs, Zenon
<1>3. PICK after : after = RepaintDirty(all) /\ Sound(after) /\ AllFine(after) /\ after.dirty = {}
  BY <1>2, RepaintDirtyIs, Zenon
<1>4. SetNow(after) /\ drag' = drag /\ doings' = doings /\ ~drag.on
  BY <1>1, <1>2, <1>3, Zenon DEF Refresh
<1>5. Holds(after, drag') /\ drag' \in Drags /\ doings' \in 0 .. MaxDoings
  BY <1>3, <1>4, Zenon DEF Holds, PaintingInv
<1>6. QED
  BY <1>4, <1>5, PaintingStep, Zenon

\* the mouse goes down on a window,
LEMMA PressKeeps == ASSUME PaintingInv, NEW p \in Points, Press(p) PROVE PaintingInv'
<1> DEFINE under == {i \in DOMAIN stack : RectContainsPoint(placed[stack[i]], p)}
           first == CHOOSE i \in under : \A j \in under : i <= j
           text == ContentRect(placed[stack[first]])
<1>1. ~drag.on /\ under # {} /\ Another
  BY Zenon DEF Press
<1>2. PICK st : st = Now /\ Sound(st) /\ AllFine(st) /\ st.dirty = {} /\ st.stack = stack /\ st.place = placed
  BY <1>1, NowFields, Zenon DEF PaintingInv, Holds
<1>3. st \in PictureStates /\ stack \in Seq(Frames) /\ st.place \in Places
  BY <1>2, StateIs, Zenon DEF Sound
<1>4. first \in DOMAIN stack
  <2>1. under \in SUBSET Nat
    BY <1>3
  <2> HIDE DEF under
  <2>2. \E m \in under : \A j \in under : m <= j
    BY <1>1, <2>1, LeastNatural, Zenon
  <2>3. first \in under
    BY <2>2, Zenon
  <2>4. QED
    BY <2>3, Zenon DEF under
<1>5. PICK win \in Range(st.stack) : win = stack[first] /\ win \in Frames
  <2>1. PICK i \in DOMAIN stack : i = first
    BY <1>4, Zenon
  <2>2. stack[i] \in Frames /\ stack[i] \in Range(stack)
    BY <1>3 DEF Range
  <2>3. QED
    BY <1>2, <2>1, <2>2, Zenon
<1>6. PICK cache \in BOOLEAN :
        /\ SetNow(IF cache THEN Clipped(WindowTop(Now, stack[first]), RectOf(0, 0, text.w, text.h))
                  ELSE WindowTop(Now, stack[first]))
        /\ drag' = [on |-> TRUE, x |-> p[1] - placed[stack[first]].x, y |-> p[2] - placed[stack[first]].y,
                    frame |-> ~RectContainsPoint(text, p), cache |-> cache, moved |-> FALSE]
  BY Zenon DEF Press
<1>7. PICK r \in Rect : r = placed[win] /\ r = placed[stack[first]]
  BY <1>2, <1>3, <1>5, StateIs, Zenon
<1>8. ContentRect(r) \in Rect
  BY ContentRectIs, Zenon
<1>9. PICK t \in Rect : t = text
  BY <1>7, <1>8, Zenon
<1> HIDE DEF first, text, under
<1>10. PICK bounds \in Rect : bounds = RectOf(0, 0, text.w, text.h)
  <2>1. t.w \in Int /\ t.h \in Int
    BY RectIs
  <2>2. RectOf(0, 0, t.w, t.h) \in Rect
    BY <2>1 DEF Rect, RectOf
  <2>3. QED
    BY <1>9, <2>2, Zenon
<1>11. drag' \in Drags /\ drag'.on /\ drag'.moved = FALSE
  <2>1. p[1] \in Int /\ p[2] \in Int
    BY PaintingAssumption
  <2>2. r.x \in Int /\ r.y \in Int
    BY RectIs
  <2>3. PICK a \in Int, b \in Int : a = p[1] - placed[stack[first]].x /\ b = p[2] - placed[stack[first]].y
    BY <1>7, <2>1, <2>2
  <2>4. PICK f \in BOOLEAN : f = ~RectContainsPoint(text, p)
    BY DEF RectContainsPoint
  <2>5. drag' = [on |-> TRUE, x |-> a, y |-> b, frame |-> f, cache |-> cache, moved |-> FALSE]
    BY <1>6, <2>3, <2>4, Zenon
  <2>6. QED
    BY <2>5 DEF Drags
<1>12. doings' \in 0 .. MaxDoings
  BY <1>1, AnotherCounts DEF PaintingInv
<1>13. PICK topped :
        /\ topped = WindowTop(st, win) /\ Sound(topped) /\ topped.stack # <<>>
        /\ topped.dirty \subseteq {topped.stack[1]} /\ DragFine(topped, FALSE)
  BY <1>2, <1>5, PressedIs, Zenon
<1>14. Holds(topped, drag')
  BY <1>11, <1>13, Zenon DEF Holds
<1>15. CASE ~cache
  <2>1. SetNow(topped)
    BY <1>2, <1>5, <1>6, <1>13, <1>15, Zenon
  <2>2. QED
    BY <1>11, <1>12, <1>14, <2>1, PaintingStep, Zenon
<1>16. CASE cache
  <2>1. PICK after : after = Clipped(topped, bounds)
    BY Zenon
  <2>2. Alike(topped, after)
    BY <1>13, <2>1, ClippedIs, Zenon DEF Alike, SameScene, Sound
  <2>3. Holds(after, drag')
    BY <1>14, <2>2, HoldsAlike, Zenon
  <2>4. SetNow(after)
    BY <1>2, <1>5, <1>6, <1>10, <1>13, <1>16, <2>1, Zenon
  <2>5. QED
    BY <1>11, <1>12, <2>3, <2>4, PaintingStep, Zenon
<1>17. QED
  BY <1>15, <1>16, Zenon

\* drags it,
LEMMA DragKeeps == ASSUME PaintingInv, NEW p \in Points, Drag(p) PROVE PaintingInv'
<1>1. PICK st : /\ st = Now /\ Sound(st) /\ st.stack # <<>> /\ st.dirty \subseteq {st.stack[1]}
                /\ DragFine(st, drag.moved) /\ st.stack = stack /\ st.place = placed
  BY NowFields, Zenon DEF PaintingInv, Holds, Drag
<1>2. PICK x \in Int, y \in Int : x = p[1] - drag.x /\ y = p[2] - drag.y
  BY PaintingAssumption DEF PaintingInv, Drags
<1>3. drag \in Drags /\ drag.on /\ doings \in 0 .. MaxDoings
  BY Zenon DEF PaintingInv, Drag
<1>4. Top(st) = stack[1]
  BY <1>1, Zenon DEF Top
<1>5. CASE Moves(st, x, y)
  <2>1. PICK after :
            /\ after = Dragged(st, x, y) /\ Sound(after) /\ after.stack = st.stack
            /\ after.dirty \subseteq {Top(st)} /\ DragFine(after, TRUE)
    BY <1>1, <1>2, <1>4, <1>5, DraggedIs, Zenon
  <2>2. PICK moved : moved = WindowMove(st, x, y)
    BY Zenon
  <2>3. PICK clipped : clipped = Clipped(LeftBehind(moved, RectAreasOutside(placed[stack[1]], moved.place[stack[1]])),
                                         moved.place[stack[1]])
    BY Zenon
  <2>4. after = [clipped EXCEPT !.screen = Render(clipped, @, stack[1], clipped.clip, "dragged")]
    BY <1>1, <1>4, <2>1, <2>2, <2>3, Zenon DEF Dragged
  <2>5. SetNow(after) /\ drag' = [drag EXCEPT !.moved = TRUE] /\ doings' = doings
    BY <1>1, <1>2, <1>5, <2>2, <2>3, <2>4, Zenon DEF Drag
  <2>6. drag' \in Drags /\ drag'.on /\ drag'.moved = TRUE
    BY <1>3, <2>5 DEF Drags
  <2>7. Holds(after, drag')
    BY <1>1, <1>4, <2>1, <2>6, Zenon DEF Holds
  <2>8. QED
    BY <1>3, <2>5, <2>6, <2>7, PaintingStep, Zenon
<1>6. CASE ~Moves(st, x, y)
  <2>1. st \in PictureStates /\ st.place[Top(st)] \in Rect
    <3>1. st \in PictureStates /\ st.stack[1] \in Frames
      BY <1>1 DEF Sound, PictureStates
    <3>2. QED
      BY <3>1, StateIs, Zenon DEF Top
  <2>2. PICK r \in Rect : r = st.place[Top(st)]
    BY <2>1, Zenon
  <2>3. PICK after : after = Clipped(st, r)
    BY Zenon
  <2>4. WindowMove(st, x, y) = after
    BY <1>6, <2>2, <2>3, Zenon DEF WindowMove
  <2>5. SetNow(after) /\ drag' = drag /\ doings' = doings
    BY <1>1, <1>2, <1>6, <2>4, Zenon DEF Drag
  <2>6. Alike(st, after)
    BY <2>1, <2>3, ClippedIs, Zenon DEF Alike, SameScene
  <2>7. Holds(st, drag)
    BY <1>1, Zenon DEF PaintingInv
  <2>8. Holds(after, drag')
    BY <2>5, <2>6, <2>7, HoldsAlike, Zenon
  <2>9. QED
    BY <1>3, <2>5, <2>8, PaintingStep, Zenon
<1>7. QED
  BY <1>5, <1>6, Zenon

\* lets it go, perhaps having minimized it,
LEMMA ReleaseKeeps == ASSUME PaintingInv, Release PROVE PaintingInv'
<1>1. PICK st : st = Now /\ Sound(st) /\ st.stack # <<>> /\ DragFine(st, drag.moved)
  BY Zenon DEF PaintingInv, Holds, Release
<1>2. DesktopGrey(st)
  BY <1>1, Zenon DEF DragFine, DesktopGrey, OwnedBy
<1>3. PICK left :
        /\ left = IF drag.x < Corner /\ drag.y < Corner THEN WindowMin(st) ELSE st
        /\ Sound(left) /\ DesktopGrey(left)
  <2>1. Sound(WindowMin(st)) /\ DesktopGrey(WindowMin(st))
    BY <1>1, <1>2, WindowMinIs, Zenon
  <2>2. QED
    BY <1>1, <1>2, <2>1, Zenon
<1>4. PICK all : all = Paint(left, 1, screenrect, "forced") /\ Sound(all) /\ AllFine(all)
  BY <1>3, AllPainted, Zenon DEF DesktopGrey
<1>5. PICK after : after = RepaintDirty(all) /\ Sound(after) /\ AllFine(after) /\ after.dirty = {}
  BY <1>4, RepaintDirtyIs, Zenon
<1>6. SetNow(after) /\ drag' = NoDrag /\ doings' = doings
  BY <1>1, <1>3, <1>4, <1>5, Zenon DEF Release
<1>7. drag' \in Drags /\ ~drag'.on
  BY <1>6 DEF NoDrag, Drags
<1>8. Holds(after, drag')
  BY <1>5, <1>7, Zenon DEF Holds
<1>9. doings' \in 0 .. MaxDoings
  BY <1>6, Zenon DEF PaintingInv
<1>10. QED
  BY <1>6, <1>7, <1>8, <1>9, PaintingStep, Zenon

\* or nothing happens.
LEMMA PaintingStutters == ASSUME PaintingInv, UNCHANGED paintvars PROVE PaintingInv'
<1>1. PICK st : st = Now /\ Holds(st, drag)
  BY Zenon DEF PaintingInv
<1>2. SetNow(st) /\ drag' = drag /\ doings' = doings
  BY <1>1, NowFields, Zenon DEF SetNow, paintvars
<1>3. QED
  BY <1>1, <1>2, PaintingStep, Zenon DEF PaintingInv

\* So it holds at all times.
LEMMA PaintingIsKept == PaintingSpec => []PaintingInv
<1>1. PaintingInit => PaintingInv
  BY PaintingStarts
<1>2. ASSUME PaintingInv, [PaintingNext]_paintvars PROVE PaintingInv'
  <2>1. ASSUME NEW win \in Frames, WriteLine(win) PROVE PaintingInv'
    BY <1>2, <2>1, WriteLineKeeps, Zenon
  <2>2. ASSUME NEW win \in Frames, Close(win) PROVE PaintingInv'
    BY <1>2, <2>2, CloseKeeps, Zenon
  <2>3. CASE RepaintDamage
    BY <1>2, <2>3, RepaintDamageKeeps, Zenon
  <2>4. ASSUME NEW win \in Frames, NEW p \in Points, Open(win, p) PROVE PaintingInv'
    BY <1>2, <2>4, OpenKeeps, Zenon
  <2>5. CASE Refresh
    BY <1>2, <2>5, RefreshKeeps, Zenon
  <2>6. ASSUME NEW p \in Points, Press(p) PROVE PaintingInv'
    BY <1>2, <2>6, PressKeeps, Zenon
  <2>7. ASSUME NEW p \in Points, Drag(p) PROVE PaintingInv'
    BY <1>2, <2>7, DragKeeps, Zenon
  <2>8. CASE Release
    BY <1>2, <2>8, ReleaseKeeps, Zenon
  <2>9. CASE UNCHANGED paintvars
    BY <1>2, <2>9, PaintingStutters, Zenon
  <2>10. QED
    BY <1>2, <2>1, <2>2, <2>3, <2>4, <2>5, <2>6, <2>7, <2>8, <2>9, Zenon DEF PaintingNext
<1>3. QED
  BY <1>1, <1>2, PTL DEF PaintingSpec

\* InFront is the front of the stack.
LEMMA InFrontIs ==
    ASSUME stack \in Seq(Frames), placed \in [Frames -> Rect], NEW p \in Pixel
    PROVE  Front(stack, placed, p, InFront(p))
<1> DEFINE over == {i \in DOMAIN stack : p \in Pixels(placed[stack[i]])}
           first == CHOOSE i \in over : \A j \in over : i <= j
<1>1. DOMAIN stack = 1 .. Len(stack) /\ \A i \in 1 .. Len(stack) : stack[i] \in Frames /\ placed[stack[i]] \in Rect
  OBVIOUS
<1>2. \A i \in 1 .. Len(stack) : p \in Pixels(placed[stack[i]]) <=> Within(p, placed[stack[i]])
  BY <1>1, WithinIs, Zenon
<1>3. \A i : i \in over <=> i \in 1 .. Len(stack) /\ Within(p, placed[stack[i]])
  BY <1>1, <1>2, Zenon
<1>4. over \in SUBSET Nat
  BY <1>1
<1>5. InFront(p) = IF over = {} THEN Desktop ELSE stack[first]
  BY DEF InFront
<1> HIDE DEF over
<1>6. CASE over = {}
  BY <1>3, <1>5, <1>6, Zenon DEF Front, FrontFrom
<1>7. CASE over # {}
  <2>1. \E m \in over : \A j \in over : m <= j
    BY <1>4, <1>7, LeastNatural, Zenon
  <2>2. first \in over /\ \A j \in over : first <= j
    BY <2>1, Zenon
  <2> HIDE DEF first
  <2>3. QED
    BY <1>3, <1>5, <1>7, <2>2, Zenon DEF Front, FrontFrom
<1>8. QED
  BY <1>6, <1>7, Zenon

\* What the invariant is for.
LEMMA PaintingIsRight == ASSUME PaintingInv PROVE WindowsAreRight
<1>1. PICK st : st = Now /\ Sound(st) /\ Holds(st, drag)
  BY Zenon DEF PaintingInv, Holds
<1>2. /\ st.stack = stack /\ st.place = placed /\ st.old = old /\ st.content = content
      /\ st.dirty = dirty /\ st.dirtylines = dirtylines /\ st.clip = cliprect
      /\ st.screen = pixels /\ st.spoiled = spoiled
  BY <1>1, NowFields, Zenon
<1>3. st \in PictureStates
  BY <1>1, Zenon DEF Sound
<1>4. PaintingTypeOK
  <2>1. stack \in Seq(Frames) /\ \A i, j \in DOMAIN stack : stack[i] = stack[j] => i = j
    BY <1>1, <1>2 DEF Sound, Stacks
  <2>2. dirty \subseteq Range(stack) /\ dirtylines \subseteq Range(stack)
    BY <1>1, <1>2, Zenon DEF Sound
  <2>3. placed \in [Frames -> Rect] /\ old \in [Frames -> Rect] /\ content \in [Frames -> Texts] /\ cliprect \in Rect
        /\ pixels \in [Pixel -> Painters \X Shades] /\ spoiled \subseteq Pixel
    BY <1>2, <1>3 DEF PictureStates
  <2>4. QED
    BY <2>1, <2>2, <2>3, Zenon DEF PaintingTypeOK, PaintingInv, Drags
<1>5. ASSUME NEW p \in Pixel PROVE Front(st.stack, st.place, p, InFront(p)) /\ InFront(p) \in Frames \cup {Desktop}
  <2>1. Front(stack, placed, p, InFront(p))
    BY <1>4, InFrontIs, Zenon DEF PaintingTypeOK
  <2>2. IsFront(st.stack, st.place, p, InFront(p))
    BY <1>1, <1>2, <2>1, FrontIs, Zenon DEF Sound
  <2>3. InFront(p) = Desktop \/ InFront(p) \in Range(st.stack)
    BY <2>2, Zenon DEF IsFront
  <2>4. \A w \in Range(st.stack) : w \in Frames
    BY <1>2, <1>4 DEF PaintingTypeOK, Range
  <2>5. QED
    BY <1>2, <2>1, <2>3, <2>4, Zenon
<1>6. ASSUME ~drag.on, NEW p \in Pixel \ spoiled, InFront(p) \notin dirty \cup dirtylines PROVE pixels[p] = Truth(p)
  <2>1. PICK w \in Frames \cup {Desktop} : w = InFront(p) /\ Front(st.stack, st.place, p, w)
    BY <1>5, Zenon
  <2>2. FineAt(st, p, w)
    BY <1>1, <1>2, <1>6, <2>1, Zenon DEF Holds, AllFine
  <2>3. CASE w = Desktop
    BY <1>2, <2>1, <2>2, <2>3, Zenon DEF FineAt, Truth
  <2>4. CASE w # Desktop
    <3>1. pixels[p] = Due(st, p, w)
      BY <1>2, <1>6, <2>1, <2>2, <2>4, Zenon DEF FineAt
    <3>2. PICK r \in Rect : r = ContentRect(placed[w])
      <4>1. placed[w] \in Rect
        BY <1>4, <2>4 DEF PaintingTypeOK
      <4>2. QED
        BY <4>1, ContentRectIs, Zenon
    <3>3. p \in Pixels(ContentRect(placed[w])) <=> InText(st, p, w)
      BY <1>2, <3>2, WithinIs, Zenon DEF InText
    <3>4. QED
      BY <1>2, <2>1, <2>4, <3>1, <3>3, Zenon DEF Due, Truth
  <2>5. QED
    BY <2>3, <2>4, Zenon
<1>7. ASSUME drag.on, drag.moved, NEW p \in Pixel \ spoiled PROVE pixels[p][1] = InFront(p)
  <2>1. PICK w : w = InFront(p) /\ Front(st.stack, st.place, p, w)
    BY <1>5, Zenon
  <2>2. OwnedBy(pixels[p], w)
    BY <1>1, <1>2, <1>7, <2>1, Zenon DEF Holds, DragFine
  <2>3. Grey[1] = Desktop
    BY DEF Grey
  <2>4. QED
    BY <2>1, <2>2, <2>3, Zenon DEF OwnedBy
<1>8. QED
  BY <1>4, <1>6, <1>7, Zenon DEF WindowsAreRight, ScreenIsRight, DragLeavesNoTrail

\* Whatever the mouse does, every pixel shows what is in front there, but for
\* windows that wait for their repaint and what a hasty click has spoiled.
THEOREM PictureIsTrue == PaintingSpec => []WindowsAreRight
BY PaintingIsKept, PaintingIsRight, PTL

=============================================================================
