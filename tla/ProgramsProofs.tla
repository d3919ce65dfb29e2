---------------------------- MODULE ProgramsProofs ----------------------------
(***************************************************************************)
(* Proofs about programs that share nothing: the game asteronix, for every *)
(* number of rocks, bullets and frames (what is removed leaves no image    *)
(* behind); the disk defragmenter's search for free blocks, for every map; *)
(* the terminal, for every size of its window (the screen shows the        *)
(* buffer); the converter to ELF, for every executable (its file describes *)
(* itself); and the keyboard's events, for every set of keys and size of   *)
(* the ring (what is typed is what the terminal writes).                   *)
(*                                                                         *)
(* The images on a page are counted; what makes the count right is where   *)
(* the images of each rock and bullet can be at each point of the frame's  *)
(* loops.  IInv says so: what is drawn in this frame, what was erased in   *)
(* it, and what neither loop has reached yet are told apart, because an    *)
(* element that moves into a gap goes from the last kind to the loop's     *)
(* current place.  A terminal is followed through what each control        *)
(* sequence is composed of: lines drawn, moved, cleared and written to.  A *)
(* converter's file is taken piece by piece.  The words that the keyboard's *)
(* ring holds, or will hold, are followed as a reader would read them: they *)
(* lead from what it knows now over every character still owed.            *)
(***************************************************************************)
EXTENDS Asteronix, Defrag, Terminal, UniflexToElf, KeyEvents, NumberLemmas, FiniteSetTheorems, SequenceTheorems, TLAPS

Pages == {0, 1}
Image == [state : Nat, old : SUBSET Pages]
LoopNames == {"frame", "big", "medium", "drawbig", "drawmedium", "bullets", "ship", "flip"}

TypeInv ==
    /\ bigrocks \in Seq(Image) /\ mediumrocks \in Seq(Image) /\ bullets \in Seq(Image)
    /\ aship \in [state : Nat, old : SUBSET Pages, cooldown : Nat]
    /\ respawn \in BOOLEAN
    /\ pindex \in Pages
    /\ images \in [Pages -> Int]
    /\ looping \in LoopNames
    /\ elem \in Nat \ {0}

\* Element e of an array whose loop `loop' is followed by the loops `later':
\* that loop has been at it in this frame.
Passed(e, loop, later) == looping \in later \/ (looping = loop /\ e < elem)

\* A rock that was drawn in this frame is on this page if it can be hit.  One
\* that was erased and not yet drawn is not on it, and when it is about to be
\* removed on no page.  Before that what is dying is on this page at most.
RockIsWhere(rock, erased, drawn) ==
    /\ rock.state # DEAD
    /\ drawn => (pindex \in rock.old <=> rock.state >= ALIVE)
    /\ erased /\ ~drawn => pindex \notin rock.old /\ (rock.state = DYING_FINISH => rock.old = {})
    /\ ~erased => (rock.state < ALIVE => rock.old \subseteq {pindex})

BigIsWhere(r) ==
    RockIsWhere(bigrocks[r], Passed(r, "big", {"medium", "drawbig", "drawmedium", "bullets", "ship", "flip"}),
                             Passed(r, "drawbig", {"drawmedium", "bullets", "ship", "flip"}))

MediumIsWhere(r) ==
    RockIsWhere(mediumrocks[r], Passed(r, "medium", {"drawbig", "drawmedium", "bullets", "ship", "flip"}),
                                Passed(r, "drawmedium", {"bullets", "ship", "flip"}))

BigInv == \A r \in DOMAIN bigrocks : BigIsWhere(r)
MediumInv == \A r \in DOMAIN mediumrocks : MediumIsWhere(r)

\* A bullet that is not drawn again is not on this page; when it is about to be
\* removed it can only be on the page its last loop will erase.
BulletIsWhere(bullet, done) ==
    /\ bullet.state # DEAD
    /\ done /\ bullet.state < ALIVE => pindex \notin bullet.old
    /\ ~done /\ bullet.state = DYING_FINISH => bullet.old \subseteq {pindex}

BulletsInv == \A b \in DOMAIN bullets : BulletIsWhere(bullets[b], Passed(b, "bullets", {"ship", "flip"}))

ShipInv ==
    /\ aship.state = DEAD => respawn
    /\ looping \notin {"frame", "flip"} => pindex \notin aship.old

IInv == TypeInv /\ BigInv /\ MediumInv /\ BulletsInv /\ ShipInv /\ NoGhosts /\ ArraysHold

-----------------------------------------------------------------------------
\* The count of images

On(p, s) == IF p \in s.old THEN 1 ELSE 0
Count(seq, p) == Cardinality(Holders(seq, p))

\* A page is held by finitely many elements of an array.
LEMMA CountType ==
    ASSUME NEW seq \in Seq(Image), NEW p
    PROVE  IsFiniteSet(Holders(seq, p)) /\ Count(seq, p) \in Nat
<1>1. IsFiniteSet(1 .. Len(seq))
  BY FS_Interval
<1>2. Holders(seq, p) \in SUBSET (1 .. Len(seq))
  BY DEF Holders
<1>3. IsFiniteSet(Holders(seq, p))
  BY <1>1, <1>2, FS_Subset
<1>4. QED
  BY <1>3, FS_CardinalityType DEF Count

\* An element that changes changes the count by its own images.
LEMMA CountPut ==
    ASSUME NEW seq \in Seq(Image), NEW e \in DOMAIN seq, NEW s \in Image, NEW p
    PROVE  /\ [seq EXCEPT ![e] = s] \in Seq(Image)
           /\ Count([seq EXCEPT ![e] = s], p) = Count(seq, p) - On(p, seq[e]) + On(p, s)
<1> DEFINE H == Holders(seq, p)
           K == Holders([seq EXCEPT ![e] = s], p)
<1>1. IsFiniteSet(H) /\ Count(seq, p) = Cardinality(H) /\ Cardinality(H) \in Nat
  BY CountType DEF Count
<1>2. [seq EXCEPT ![e] = s] \in Seq(Image) /\ DOMAIN [seq EXCEPT ![e] = s] = DOMAIN seq
  OBVIOUS
<1>3. p \in s.old => K = H \cup {e}
  BY <1>2 DEF Holders
<1>4. p \notin s.old => K = H \ {e}
  BY <1>2 DEF Holders
<1>5. e \in H <=> p \in seq[e].old
  BY DEF Holders
<1> HIDE DEF H, K
<1>6. Cardinality(H \cup {e}) = IF e \in H THEN Cardinality(H) ELSE Cardinality(H) + 1
  BY <1>1, FS_AddElement
<1>7. Cardinality(H \ {e}) = IF e \in H THEN Cardinality(H) - 1 ELSE Cardinality(H)
  BY <1>1, FS_RemoveElement
<1>8. Count([seq EXCEPT ![e] = s], p) = Cardinality(K)
  BY DEF Count, K
<1>9. On(p, seq[e]) = (IF e \in H THEN 1 ELSE 0) /\ On(p, s) = (IF p \in s.old THEN 1 ELSE 0)
  BY <1>5 DEF On
<1>10. CASE p \in s.old
  <2>1. Cardinality(K) = IF e \in H THEN Cardinality(H) ELSE Cardinality(H) + 1
    BY <1>3, <1>6, <1>10, Zenon
  <2>2. QED
    BY <1>1, <1>2, <1>8, <1>9, <1>10, <2>1
<1>11. CASE p \notin s.old
  <2>1. Cardinality(K) = IF e \in H THEN Cardinality(H) - 1 ELSE Cardinality(H)
    BY <1>4, <1>7, <1>11, Zenon
  <2>2. QED
    BY <1>1, <1>2, <1>8, <1>9, <1>11, <2>1
<1>12. QED
  BY <1>10, <1>11

\* Elements that have no image change nothing, nor does what keeps the images.
LEMMA CountSame ==
    ASSUME NEW seq \in Seq(Image), NEW longer \in Seq(Image), Len(seq) <= Len(longer), NEW p,
           \A e \in 1 .. Len(seq) : longer[e].old = seq[e].old,
           \A e \in Len(seq) + 1 .. Len(longer) : longer[e].old = {}
    PROVE  Count(longer, p) = Count(seq, p)
<1>1. Holders(longer, p) = Holders(seq, p)
  BY DEF Holders
<1>2. QED
  BY <1>1, Zenon DEF Count

\* An element without images that is removed, the last one moving into its
\* place, takes none along.
LEMMA CountRemoved ==
    ASSUME NEW seq \in Seq(Image), NEW e \in DOMAIN seq, NEW p, p \notin seq[e].old
    PROVE  Count(Removed(seq, e), p) = Count(seq, p)
<1> DEFINE n == Len(seq)
<1>1. PICK t : t = [seq EXCEPT ![e] = seq[n]]
  OBVIOUS
<1>2. n \in DOMAIN seq /\ seq[n] \in Image
  OBVIOUS
<1>3. t \in Seq(Image) /\ Count(t, p) = Count(seq, p) - On(p, seq[e]) + On(p, seq[n])
  BY <1>1, <1>2, CountPut
<1>4. Len(t) = n /\ t[n] = seq[n]
  BY <1>1, <1>2
<1>5. Removed(seq, e) = SubSeq(t, 1, n - 1)
  BY <1>1 DEF Removed
<1>6. Holders(SubSeq(t, 1, n - 1), p) = Holders(t, p) \ {n}
  BY <1>3, <1>4 DEF Holders
<1>7. Cardinality(Holders(t, p) \ {n}) = IF n \in Holders(t, p) THEN Count(t, p) - 1 ELSE Count(t, p)
  BY <1>3, CountType, FS_RemoveElement DEF Count
<1>8. n \in Holders(t, p) <=> p \in seq[n].old
  BY <1>2, <1>3, <1>4 DEF Holders
<1>9. On(p, seq[e]) = 0 /\ On(p, seq[n]) = IF p \in seq[n].old THEN 1 ELSE 0
  BY DEF On
<1>10. Count(seq, p) \in Nat /\ Count(t, p) \in Nat
  BY <1>3, CountType
<1>11. Count(Removed(seq, e), p) = IF p \in seq[n].old THEN Count(t, p) - 1 ELSE Count(t, p)
  BY <1>5, <1>6, <1>7, <1>8, Zenon DEF Count
<1>12. QED
  BY <1>3, <1>9, <1>10, <1>11

\* What Removed leaves: every element but this one, the last one in its place.
LEMMA RemovedIs ==
    ASSUME NEW seq \in Seq(Image), NEW e \in DOMAIN seq
    PROVE  /\ Removed(seq, e) \in Seq(Image)
           /\ Len(Removed(seq, e)) = Len(seq) - 1
           /\ \A r \in DOMAIN Removed(seq, e) :
                /\ r \in DOMAIN seq
                /\ r # e => Removed(seq, e)[r] = seq[r]
                /\ r = e => Removed(seq, e)[r] = seq[Len(seq)] /\ e < Len(seq)
<1>1. PICK t : t = [seq EXCEPT ![e] = seq[Len(seq)]]
  OBVIOUS
<1>2. t \in Seq(Image) /\ Len(t) = Len(seq)
  BY <1>1
<1>3. Removed(seq, e) = SubSeq(t, 1, Len(seq) - 1)
  BY <1>1 DEF Removed
<1>4. QED
  BY <1>1, <1>2, <1>3

\* NoGhosts in these words.
LEMMA GhostsCounted ==
    /\ NoGhosts <=> \A p \in Pages :
          images[p] = Count(bigrocks, p) + Count(mediumrocks, p) + Count(bullets, p) + On(p, aship)
    /\ NoGhosts' <=> \A p \in Pages :
          images'[p] = Count(bigrocks', p) + Count(mediumrocks', p) + Count(bullets', p) + On(p, aship')
BY DEF NoGhosts, Pages, Count, On

\* Undrawing takes an image from this page if there was one.
LEMMA ErasedImagesIs ==
    ASSUME TypeInv, NEW s
    PROVE  /\ ErasedImages(s) \in [Pages -> Int]
           /\ \A p \in Pages : ErasedImages(s)[p] = images[p] - (IF p = pindex THEN On(p, s) ELSE 0)
BY DEF TypeInv, ErasedImages, On

\* What was undrawn is not on this page, and on the other as before.
LEMMA ErasedHereIs ==
    ASSUME TypeInv, NEW s \in Image
    PROVE  /\ ErasedHere(s) = [state |-> s.state, old |-> s.old \ {pindex}]
           /\ ErasedHere(s) \in Image
<1>1. PICK p : p = pindex
  OBVIOUS
<1>2. ErasedHere(s) = [s EXCEPT !.old = @ \ {p}]
  BY <1>1 DEF ErasedHere
<1>3. [s EXCEPT !.old = @ \ {p}] = [state |-> s.state, old |-> s.old \ {p}]
  BY DEF Image
<1>4. [state |-> s.state, old |-> s.old \ {p}] \in Image
  BY DEF Image
<1>5. QED
  BY <1>1, <1>2, <1>3, <1>4

-----------------------------------------------------------------------------
\* One step of each loop

\* The other elements are as far behind the loops as before.
LEMMA PassedOn ==
    ASSUME TypeInv, looping' = looping, elem' = elem + 1, NEW loop, NEW later, NEW r \in Nat, r # elem
    PROVE  Passed(r, loop, later)' <=> Passed(r, loop, later)
BY DEF TypeInv, Passed

\* The counts of an array are numbers.
LEMMA Counts ==
    ASSUME TypeInv, NEW p \in Pages
    PROVE  /\ Count(bigrocks, p) \in Nat /\ Count(mediumrocks, p) \in Nat /\ Count(bullets, p) \in Nat
           /\ images[p] \in Int
BY CountType DEF TypeInv

\* An explosion fills up the bullets with new ones, as far as there is room.
LEMMA BoomIs ==
    ASSUME NEW into \in Seq(Image), Len(into) <= MAXBULLETS
    PROVE  /\ makeboom(into) \in Seq(Image)
           /\ Len(into) <= Len(makeboom(into)) /\ Len(makeboom(into)) <= MAXBULLETS
           /\ \A b \in 1 .. Len(into) : makeboom(into)[b] = into[b]
           /\ \A b \in Len(into) + 1 .. Len(makeboom(into)) :
                 makeboom(into)[b].state >= ALIVE /\ makeboom(into)[b].old = {}
<1>1. MAXBULLETS \in Nat /\ BoomBullets \in Nat /\ BoomLife \in Nat
  BY AsteronixAssumption
<1>2. PICK n : n = IF MAXBULLETS - Len(into) > BoomBullets THEN BoomBullets ELSE MAXBULLETS - Len(into)
  OBVIOUS
<1>3. n \in Nat /\ Len(into) + n <= MAXBULLETS
  BY <1>1, <1>2
<1>4. PICK s : s = Sprite(ALIVE + BoomLife)
  OBVIOUS
<1>5. s \in Image /\ s.state >= ALIVE /\ s.old = {}
  BY <1>1, <1>4 DEF Sprite, ALIVE, Image
<1>6. PICK new : new = [b \in 1 .. n |-> s]
  OBVIOUS
<1>7. new \in Seq(Image) /\ Len(new) = n /\ \A b \in 1 .. n : new[b] = s
  BY <1>3, <1>5, <1>6
<1>8. makeboom(into) = into \o new
  BY <1>2, <1>4, <1>6 DEF makeboom
<1>9. into \o new \in Seq(Image) /\ Len(into \o new) = Len(into) + n
  BY <1>7
<1>10. \A b \in 1 .. Len(into) : (into \o new)[b] = into[b]
  BY <1>7
<1>11. \A b \in Len(into) + 1 .. Len(into) + n : (into \o new)[b] = s
  BY <1>3, <1>7
<1>12. QED
  BY <1>3, <1>5, <1>8, <1>9, <1>10, <1>11

\* A rock hits the ship while it is there, or one of the bullets in flight, and
\* only if it can be hit itself.
LEMMA HitsIs ==
    ASSUME TypeInv, NEW rock, NEW what \in Hits(rock)
    PROVE  /\ what # Nothing => rock.state = ALIVE
           /\ what = Ship => aship.state = ALIVE
           /\ what \in DOMAIN bullets => bullets[what].state >= ALIVE
           /\ Ship \notin DOMAIN bullets /\ Nothing # Ship
BY DEF TypeInv, Hits, Nothing, Ship

\* A bullet that was hit begins to die with the images it has.
LEMMA ShotIs ==
    ASSUME TypeInv, NEW what, what \in DOMAIN bullets => bullets[what].state >= ALIVE
    PROVE  /\ Shot(what) \in Seq(Image) /\ Len(Shot(what)) = Len(bullets)
           /\ \A b \in DOMAIN bullets :
                /\ Shot(what)[b].old = bullets[b].old
                /\ Shot(what)[b].state = bullets[b].state \/ Shot(what)[b].state = DYING2
<1>1. ASSUME NEW b \in DOMAIN bullets
      PROVE  /\ (IF b = what THEN [bullets[b] EXCEPT !.state = DYING2] ELSE bullets[b]) \in Image
             /\ (IF b = what THEN [bullets[b] EXCEPT !.state = DYING2] ELSE bullets[b]).old = bullets[b].old
             /\ (IF b = what THEN [bullets[b] EXCEPT !.state = DYING2] ELSE bullets[b]).state \in {bullets[b].state, DYING2}
  <2>1. PICK s : s = bullets[b]
    OBVIOUS
  <2>2. s \in Image
    BY <2>1 DEF TypeInv
  <2>3. [s EXCEPT !.state = DYING2] = [state |-> DYING2, old |-> s.old]
    BY <2>2 DEF Image
  <2>4. [state |-> DYING2, old |-> s.old] \in Image
    BY <2>2 DEF Image, DYING2
  <2>5. QED
    BY <2>1, <2>2, <2>3, <2>4
<1>2. bullets \in Seq(Image) /\ DOMAIN bullets = 1 .. Len(bullets)
  BY DEF TypeInv
<1>3. Shot(what) \in Seq(Image) /\ Len(Shot(what)) = Len(bullets)
  BY <1>1, <1>2 DEF Shot
<1>4. QED
  BY <1>1, <1>3, Zenon DEF Shot

\* The ship begins to die when it is hit.
LEMMA HitIs ==
    ASSUME TypeInv, ShipInv, NEW what, Hit(what), UNCHANGED <<respawn, pindex, looping>>
    PROVE  /\ aship' \in [state : Nat, old : SUBSET Pages, cooldown : Nat]
           /\ aship'.old = aship.old
           /\ ShipInv'
<1>1. PICK s : s = aship
  OBVIOUS
<1>2. s \in [state : Nat, old : SUBSET Pages, cooldown : Nat]
  BY <1>1 DEF TypeInv
<1>3. [s EXCEPT !.state = DYING_START] = [state |-> DYING_START, old |-> s.old, cooldown |-> s.cooldown]
  BY <1>2
<1>4. aship' = s \/ aship' = [state |-> DYING_START, old |-> s.old, cooldown |-> s.cooldown]
  BY <1>1, <1>3 DEF Hit
<1>5. /\ aship' \in [state : Nat, old : SUBSET Pages, cooldown : Nat]
      /\ aship'.old = s.old /\ aship'.state \in {s.state, DYING_START}
  BY <1>2, <1>4 DEF DYING_START
<1>6. QED
  BY <1>1, <1>5 DEF ShipInv, DYING_START, DEAD

\* While rocks are hit no bullet has been looped over: those there are, shot or
\* not, and the new ones of an explosion are where they can be.
LEMMA BulletsHit ==
    ASSUME TypeInv, BulletsInv, Len(bullets) <= MAXBULLETS,
           looping \in {"big", "medium"}, looping' = looping, pindex' = pindex,
           NEW what, what \in DOMAIN bullets => bullets[what].state >= ALIVE,
           bullets' \in {bullets, Shot(what), makeboom(Shot(what))}
    PROVE  /\ bullets' \in Seq(Image) /\ Len(bullets') <= MAXBULLETS
           /\ BulletsInv'
           /\ \A p \in Pages : Count(bullets', p) = Count(bullets, p)
<1>1. /\ Shot(what) \in Seq(Image) /\ Len(Shot(what)) = Len(bullets)
      /\ \A b \in DOMAIN bullets :
            /\ Shot(what)[b].old = bullets[b].old
            /\ Shot(what)[b].state = bullets[b].state \/ Shot(what)[b].state = DYING2
  BY ShotIs
<1>2. PICK shot : shot = Shot(what)
  OBVIOUS
<1>0. PICK boom : boom = makeboom(shot)
  OBVIOUS
<1>3. /\ boom \in Seq(Image)
      /\ Len(shot) <= Len(boom) /\ Len(boom) <= MAXBULLETS
      /\ \A b \in 1 .. Len(shot) : boom[b] = shot[b]
      /\ \A b \in Len(shot) + 1 .. Len(boom) : boom[b].state >= ALIVE /\ boom[b].old = {}
  BY <1>1, <1>2, <1>0, BoomIs
<1>4. bullets \in Seq(Image)
  BY DEF TypeInv
<1>5. /\ bullets' \in Seq(Image) /\ Len(bullets') <= MAXBULLETS
      /\ Len(bullets) <= Len(bullets')
      /\ \A b \in 1 .. Len(bullets) :
            bullets'[b].old = bullets[b].old /\ bullets'[b].state \in {bullets[b].state, DYING2}
      /\ \A b \in Len(bullets) + 1 .. Len(bullets') :
            bullets'[b].state >= ALIVE /\ bullets'[b].old = {}
  <2>1. CASE bullets' = bullets
    BY <1>4, <2>1
  <2>2. CASE bullets' = shot
    BY <1>1, <1>2, <1>4, <2>2
  <2>3. CASE bullets' = boom
    <3>1. Len(boom) >= Len(bullets) /\ Len(shot) = Len(bullets)
      BY <1>1, <1>2, <1>3, <1>4
    <3>2. \A b \in 1 .. Len(bullets) : boom[b].old = bullets[b].old /\ boom[b].state \in {bullets[b].state, DYING2}
      BY <1>1, <1>2, <1>3, <1>4, <3>1
    <3>3. QED
      BY <1>3, <2>3, <3>1, <3>2
  <2>4. QED
    BY <1>2, <1>0, <2>1, <2>2, <2>3
<1>6. BulletsInv'
  <2>1. ASSUME NEW b \in DOMAIN bullets'
        PROVE  /\ bullets'[b].state # DEAD
               /\ bullets'[b].state = DYING_FINISH => bullets'[b].old \subseteq {pindex}
    <3>1. CASE b \in DOMAIN bullets
      <4>1. BulletIsWhere(bullets[b], FALSE)
        BY <3>1 DEF BulletsInv, Passed
      <4>2. QED
        BY <1>4, <1>5, <3>1, <4>1 DEF BulletIsWhere, DEAD, DYING_FINISH, DYING2
    <3>2. CASE b \notin DOMAIN bullets
      BY <1>4, <1>5, <2>1, <3>2 DEF DEAD, DYING_FINISH, ALIVE
    <3>3. QED
      BY <3>1, <3>2
  <2>2. \A b : ~Passed(b, "bullets", {"ship", "flip"})'
    BY DEF Passed
  <2>3. QED
    BY <2>1, <2>2 DEF BulletsInv, BulletIsWhere
<1>7. \A p \in Pages : Count(bullets', p) = Count(bullets, p)
  BY <1>4, <1>5, CountSame
<1>8. QED
  BY <1>5, <1>6, <1>7

\* Two elements behind an array.
LEMMA Joined ==
    ASSUME NEW seq \in Seq(Image), NEW two \in Seq(Image), Len(two) = 2, NEW s, \A i \in 1 .. 2 : two[i] = s
    PROVE  /\ seq \o two \in Seq(Image) /\ Len(seq \o two) = Len(seq) + 2
           /\ \A r \in 1 .. Len(seq) : (seq \o two)[r] = seq[r]
           /\ \A r \in Len(seq) + 1 .. Len(seq) + 2 : (seq \o two)[r] = s
<1>1. /\ seq \o two \in Seq(Image)
      /\ Len(seq \o two) = Len(seq) + Len(two)
      /\ \A i \in 1 .. Len(seq) + Len(two) : (seq \o two)[i] = IF i <= Len(seq) THEN seq[i] ELSE two[i - Len(seq)]
  BY ConcatProperties
<1>2. QED
  BY <1>1

\* Fragments go behind the rocks there are, have no image yet, and fit.
LEMMA FragmentsIs ==
    ASSUME TypeInv, Len(mediumrocks) <= MAXROCKS
    PROVE  /\ Fragments \in Seq(Image)
           /\ Len(mediumrocks) <= Len(Fragments) /\ Len(Fragments) <= MAXROCKS
           /\ \A r \in 1 .. Len(mediumrocks) : Fragments[r] = mediumrocks[r]
           /\ \A r \in Len(mediumrocks) + 1 .. Len(Fragments) :
                 Fragments[r].state >= ALIVE /\ Fragments[r].old = {}
<1>1. MAXROCKS \in Nat /\ Immortal \in Nat
  BY AsteronixAssumption
<1>2. PICK s : s = Sprite(ALIVE + Immortal)
  OBVIOUS
<1>3. s \in Image /\ s.state >= ALIVE /\ s.old = {}
  BY <1>1, <1>2 DEF Sprite, ALIVE, Image
<1>4. mediumrocks \in Seq(Image)
  BY DEF TypeInv
<1>5. PICK two : two = <<s, s>>
  OBVIOUS
<1>6. two \in Seq(Image) /\ Len(two) = 2 /\ \A i \in 1 .. 2 : two[i] = s
  BY <1>3, <1>5
<1>7. Fragments = IF Len(mediumrocks) < MAXROCKS - 2 THEN mediumrocks \o two ELSE mediumrocks
  BY <1>2, <1>5 DEF Fragments
<1>8. /\ mediumrocks \o two \in Seq(Image) /\ Len(mediumrocks \o two) = Len(mediumrocks) + 2
      /\ \A r \in 1 .. Len(mediumrocks) : (mediumrocks \o two)[r] = mediumrocks[r]
      /\ \A r \in Len(mediumrocks) + 1 .. Len(mediumrocks) + 2 : (mediumrocks \o two)[r] = s
  BY <1>4, <1>6, Joined
<1>9. QED
  BY <1>1, <1>3, <1>4, <1>7, <1>8

\* A rock that the first loop has erased and perhaps hit is where it can be.
LEMMA ErasedRock ==
    ASSUME TypeInv, NEW rock \in Image, RockIsWhere(rock, FALSE, FALSE),
           NEW state \in Nat, state = rock.state \/ (rock.state = ALIVE /\ state > DYING_FINISH)
    PROVE  LET new == [ErasedHere(rock) EXCEPT !.state = state]
           IN  /\ new \in Image
               /\ new.old = rock.old \ {pindex}
               /\ RockIsWhere(new, TRUE, FALSE)
<1>1. PICK s : s = ErasedHere(rock)
  OBVIOUS
<1>2. s = [state |-> rock.state, old |-> rock.old \ {pindex}] /\ s \in Image
  BY <1>1, ErasedHereIs
<1>3. PICK new : new = [s EXCEPT !.state = state]
  OBVIOUS
<1>4. new = [state |-> state, old |-> rock.old \ {pindex}] /\ new \in Image
  BY <1>2, <1>3 DEF Image
<1>5. RockIsWhere(new, TRUE, FALSE)
  BY <1>4 DEF RockIsWhere, ALIVE, DEAD, DYING_FINISH, Image
<1>6. new.old = rock.old \ {pindex}
  BY <1>4
<1>7. QED
  BY <1>1, <1>3, <1>4, <1>5, <1>6, Zenon

\* A big rock is erased, and falls to pieces if it is hit.
LEMMA HitBigKeeps == IInv /\ HitBigRock => IInv'
<1> SUFFICES ASSUME IInv, HitBigRock
             PROVE  IInv'
  OBVIOUS
<1> USE DEF IInv
<1>1. PICK rock : rock = bigrocks[elem]
  OBVIOUS
<1>2. elem \in DOMAIN bigrocks /\ elem \in Nat /\ rock \in Image /\ bigrocks \in Seq(Image) /\ mediumrocks \in Seq(Image)
  BY <1>1 DEF HitBigRock, TypeInv
<1>3. /\ looping = "big" /\ images' = ErasedImages(rock) /\ elem' = elem + 1
      /\ UNCHANGED <<respawn, gameoverman, pindex, looping>>
  BY <1>1 DEF HitBigRock
<1>4. PICK what \in Hits(rock) :
         /\ bigrocks' = [bigrocks EXCEPT ![elem] = [ErasedHere(rock) EXCEPT !.state = IF what = Nothing THEN @ ELSE DYING_START]]
         /\ mediumrocks' = IF what = Nothing THEN mediumrocks ELSE Fragments
         /\ Hit(what)
         /\ bullets' = Shot(what)
  BY <1>1 DEF HitBigRock
<1>5. /\ what # Nothing => rock.state = ALIVE
      /\ what \in DOMAIN bullets => bullets[what].state >= ALIVE
  BY HitsIs
<1>6. PICK state : state = IF what = Nothing THEN rock.state ELSE DYING_START
  OBVIOUS
<1>7. PICK new : new = [ErasedHere(rock) EXCEPT !.state = state]
  OBVIOUS
<1>8. new \in Image /\ new.old = rock.old \ {pindex} /\ RockIsWhere(new, TRUE, FALSE)
  <2>1. RockIsWhere(rock, FALSE, FALSE)
    BY <1>1, <1>2, <1>3 DEF BigInv, BigIsWhere, Passed, RockIsWhere
  <2>2. state \in Nat /\ (state = rock.state \/ (rock.state = ALIVE /\ state > DYING_FINISH))
    BY <1>2, <1>5, <1>6 DEF Image, DYING_START, DYING_FINISH
  <2>3. QED
    BY <1>2, <1>7, <2>1, <2>2, ErasedRock
<1>9. bigrocks' = [bigrocks EXCEPT ![elem] = new]
  <2>1. ErasedHere(rock).state = rock.state
    BY <1>2, ErasedHereIs
  <2>2. QED
    BY <1>4, <1>6, <1>7, <2>1
<1>10. bullets' \in Seq(Image) /\ Len(bullets') <= MAXBULLETS /\ BulletsInv' /\ \A p \in Pages : Count(bullets', p) = Count(bullets, p)
  BY <1>3, <1>4, <1>5, BulletsHit DEF ArraysHold
<1>11. aship' \in [state : Nat, old : SUBSET Pages, cooldown : Nat] /\ aship'.old = aship.old /\ ShipInv'
  BY <1>3, <1>4, HitIs
<1>12. /\ mediumrocks' \in Seq(Image)
       /\ Len(mediumrocks) <= Len(mediumrocks') /\ Len(mediumrocks') <= MAXROCKS
       /\ \A r \in 1 .. Len(mediumrocks) : mediumrocks'[r] = mediumrocks[r]
       /\ \A r \in Len(mediumrocks) + 1 .. Len(mediumrocks') :
             mediumrocks'[r].state >= ALIVE /\ mediumrocks'[r].old = {}
  <2>1. CASE what = Nothing
    BY <1>2, <1>4, <2>1 DEF ArraysHold
  <2>2. CASE what # Nothing
    BY <1>4, <2>2, FragmentsIs DEF ArraysHold
  <2>3. QED
    BY <2>1, <2>2
<1>13. TypeInv'
  <2>1. bigrocks' \in Seq(Image)
    BY <1>2, <1>8, <1>9
  <2>2. images' \in [Pages -> Int]
    BY <1>3, ErasedImagesIs
  <2>3. QED
    BY <1>3, <1>10, <1>11, <1>12, <2>1, <2>2 DEF TypeInv
<1>14. BigInv'
  <2> SUFFICES ASSUME NEW r \in DOMAIN bigrocks'
               PROVE  BigIsWhere(r)'
    BY DEF BigInv
  <2>1. r \in DOMAIN bigrocks /\ r \in Nat
    BY <1>2, <1>9
  <2>2. CASE r = elem
    BY <1>2, <1>3, <1>8, <1>9, <2>2 DEF BigIsWhere, RockIsWhere, Passed
  <2>3. CASE r # elem
    <3>1. BigIsWhere(r) /\ bigrocks'[r] = bigrocks[r]
      BY <1>2, <1>9, <2>1, <2>3 DEF BigInv
    <3>2. \A loop, later : Passed(r, loop, later)' <=> Passed(r, loop, later)
      BY <1>3, <2>1, <2>3, PassedOn
    <3>3. QED
      BY <1>3, <3>1, <3>2 DEF BigIsWhere, RockIsWhere
  <2>4. QED
    BY <2>2, <2>3
<1>15. MediumInv'
  <2>1. ASSUME NEW r \in DOMAIN mediumrocks'
        PROVE  mediumrocks'[r].state # DEAD /\ (mediumrocks'[r].state < ALIVE => mediumrocks'[r].old \subseteq {pindex})
    <3>1. CASE r \in 1 .. Len(mediumrocks)
      <4>1. RockIsWhere(mediumrocks[r], FALSE, FALSE)
        BY <1>2, <1>3, <3>1 DEF MediumInv, MediumIsWhere, Passed, RockIsWhere
      <4>2. QED
        BY <1>12, <3>1, <4>1 DEF RockIsWhere
    <3>2. CASE r \notin 1 .. Len(mediumrocks)
      <4>1. r \in Len(mediumrocks) + 1 .. Len(mediumrocks')
        BY <1>2, <1>12, <2>1, <3>2
      <4>2. mediumrocks'[r].state \in Nat
        <5>1. mediumrocks'[r] \in Image
          BY <1>12, <2>1, ElementOfSeq
        <5>2. QED
          BY <5>1 DEF Image
      <4>3. QED
        BY <1>12, <4>1, <4>2 DEF ALIVE, DEAD
    <3>3. QED
      BY <3>1, <3>2
  <2>2. \A r : ~Passed(r, "medium", {"drawbig", "drawmedium", "bullets", "ship", "flip"})'
               /\ ~Passed(r, "drawmedium", {"bullets", "ship", "flip"})'
    BY <1>3 DEF Passed
  <2>3. QED
    BY <1>3, <2>1, <2>2 DEF MediumInv, MediumIsWhere, RockIsWhere
<1>16. NoGhosts'
  <2> SUFFICES ASSUME NEW p \in Pages
               PROVE  images'[p] = Count(bigrocks', p) + Count(mediumrocks', p) + Count(bullets', p) + On(p, aship')
    BY GhostsCounted
  <2>1. images'[p] = images[p] - (IF p = pindex THEN On(p, rock) ELSE 0)
    BY <1>3, ErasedImagesIs
  <2>2. Count(bigrocks', p) = Count(bigrocks, p) - On(p, rock) + On(p, new)
    <3>1. Count([bigrocks EXCEPT ![elem] = new], p) = Count(bigrocks, p) - On(p, bigrocks[elem]) + On(p, new)
      BY <1>2, <1>8, CountPut
    <3>2. QED
      BY <1>1, <1>9, <3>1, Zenon
  <2>3. Count(mediumrocks', p) = Count(mediumrocks, p)
    BY <1>2, <1>12, CountSame
  <2>4. Count(bullets', p) = Count(bullets, p)
    BY <1>10
  <2>5. On(p, new) = (IF p = pindex THEN 0 ELSE On(p, rock)) /\ On(p, aship') = On(p, aship)
    BY <1>8, <1>11 DEF On
  <2>6. images[p] = Count(bigrocks, p) + Count(mediumrocks, p) + Count(bullets, p) + On(p, aship)
    BY GhostsCounted
  <2>7. On(p, rock) \in Nat /\ On(p, aship) \in Nat
    BY DEF On
  <2>8. Count(bigrocks, p) \in Nat /\ Count(mediumrocks, p) \in Nat /\ Count(bullets, p) \in Nat /\ images[p] \in Int
    BY Counts
  <2>9. On(p, new) \in Nat
    BY DEF On
  <2>10. QED
    BY <2>1, <2>2, <2>3, <2>4, <2>5, <2>6, <2>7, <2>8, <2>9
<1>17. ArraysHold'
  BY <1>10, <1>12 DEF ArraysHold
<1>18. QED
  BY <1>10, <1>11, <1>13, <1>14, <1>15, <1>16, <1>17

\* A medium rock is erased, and bursts if it is hit.
LEMMA HitMediumKeeps == IInv /\ HitMediumRock => IInv'
<1> SUFFICES ASSUME IInv, HitMediumRock
             PROVE  IInv'
  OBVIOUS
<1> USE DEF IInv
<1>1. PICK rock : rock = mediumrocks[elem]
  OBVIOUS
<1>2. elem \in DOMAIN mediumrocks /\ elem \in Nat /\ rock \in Image /\ mediumrocks \in Seq(Image)
  BY <1>1 DEF HitMediumRock, TypeInv
<1>3. /\ looping = "medium" /\ images' = ErasedImages(rock) /\ elem' = elem + 1
      /\ UNCHANGED <<bigrocks, respawn, gameoverman, pindex, looping>>
  BY <1>1 DEF HitMediumRock
<1>4. PICK what \in Hits(rock) :
         /\ mediumrocks' = [mediumrocks EXCEPT ![elem] = [ErasedHere(rock) EXCEPT !.state = IF what = Nothing THEN @ ELSE MediumDies]]
         /\ Hit(what)
         /\ bullets' = IF what = Nothing THEN bullets ELSE makeboom(Shot(what))
  BY <1>1 DEF HitMediumRock
<1>5. /\ what # Nothing => rock.state = ALIVE
      /\ what \in DOMAIN bullets => bullets[what].state >= ALIVE
  BY HitsIs
<1>6. PICK state : state = IF what = Nothing THEN rock.state ELSE MediumDies
  OBVIOUS
<1>7. PICK new : new = [ErasedHere(rock) EXCEPT !.state = state]
  OBVIOUS
<1>8. new \in Image /\ new.old = rock.old \ {pindex} /\ RockIsWhere(new, TRUE, FALSE)
  <2>1. RockIsWhere(rock, FALSE, FALSE)
    BY <1>1, <1>2, <1>3 DEF MediumInv, MediumIsWhere, Passed, RockIsWhere
  <2>2. state \in Nat /\ (state = rock.state \/ (rock.state = ALIVE /\ state > DYING_FINISH))
    BY <1>2, <1>5, <1>6 DEF Image, MediumDies, DYING2, DYING_FINISH
  <2>3. QED
    BY <1>2, <1>7, <2>1, <2>2, ErasedRock
<1>9. mediumrocks' = [mediumrocks EXCEPT ![elem] = new]
  <2>1. ErasedHere(rock).state = rock.state
    BY <1>2, ErasedHereIs
  <2>2. QED
    BY <1>4, <1>6, <1>7, <2>1
<1>10. bullets' \in Seq(Image) /\ Len(bullets') <= MAXBULLETS /\ BulletsInv' /\ \A p \in Pages : Count(bullets', p) = Count(bullets, p)
  BY <1>3, <1>4, <1>5, BulletsHit DEF ArraysHold
<1>11. aship' \in [state : Nat, old : SUBSET Pages, cooldown : Nat] /\ aship'.old = aship.old /\ ShipInv'
  BY <1>3, <1>4, HitIs
<1>12. mediumrocks' \in Seq(Image) /\ Len(mediumrocks') = Len(mediumrocks)
  BY <1>2, <1>8, <1>9
<1>13. TypeInv'
  <2>1. images' \in [Pages -> Int]
    BY <1>3, ErasedImagesIs
  <2>2. QED
    BY <1>3, <1>10, <1>11, <1>12, <2>1 DEF TypeInv
<1>14. MediumInv'
  <2> SUFFICES ASSUME NEW r \in DOMAIN mediumrocks'
               PROVE  MediumIsWhere(r)'
    BY DEF MediumInv
  <2>1. r \in DOMAIN mediumrocks /\ r \in Nat
    BY <1>2, <1>9
  <2>2. CASE r = elem
    BY <1>2, <1>3, <1>8, <1>9, <2>2 DEF MediumIsWhere, RockIsWhere, Passed
  <2>3. CASE r # elem
    <3>1. MediumIsWhere(r) /\ mediumrocks'[r] = mediumrocks[r]
      BY <1>2, <1>9, <2>1, <2>3 DEF MediumInv
    <3>2. \A loop, later : Passed(r, loop, later)' <=> Passed(r, loop, later)
      BY <1>3, <2>1, <2>3, PassedOn
    <3>3. QED
      BY <1>3, <3>1, <3>2 DEF MediumIsWhere, RockIsWhere
  <2>4. QED
    BY <2>2, <2>3
<1>15. BigInv'
  <2>1. \A r : /\ Passed(r, "big", {"medium", "drawbig", "drawmedium", "bullets", "ship", "flip"})
               /\ Passed(r, "big", {"medium", "drawbig", "drawmedium", "bullets", "ship", "flip"})'
               /\ ~Passed(r, "drawbig", {"drawmedium", "bullets", "ship", "flip"})
               /\ ~Passed(r, "drawbig", {"drawmedium", "bullets", "ship", "flip"})'
    BY <1>3 DEF Passed
  <2>2. QED
    BY <1>3, <2>1 DEF BigInv, BigIsWhere, RockIsWhere
<1>16. NoGhosts'
  <2> SUFFICES ASSUME NEW p \in Pages
               PROVE  images'[p] = Count(bigrocks', p) + Count(mediumrocks', p) + Count(bullets', p) + On(p, aship')
    BY GhostsCounted
  <2>1. images'[p] = images[p] - (IF p = pindex THEN On(p, rock) ELSE 0)
    BY <1>3, ErasedImagesIs
  <2>2. Count(mediumrocks', p) = Count(mediumrocks, p) - On(p, rock) + On(p, new)
    <3>1. Count([mediumrocks EXCEPT ![elem] = new], p) = Count(mediumrocks, p) - On(p, mediumrocks[elem]) + On(p, new)
      BY <1>2, <1>8, CountPut
    <3>2. QED
      BY <1>1, <1>9, <3>1, Zenon
  <2>3. Count(bigrocks', p) = Count(bigrocks, p)
    BY <1>3
  <2>4. Count(bullets', p) = Count(bullets, p)
    BY <1>10
  <2>5. On(p, new) = (IF p = pindex THEN 0 ELSE On(p, rock)) /\ On(p, aship') = On(p, aship)
    BY <1>8, <1>11 DEF On
  <2>6. images[p] = Count(bigrocks, p) + Count(mediumrocks, p) + Count(bullets, p) + On(p, aship)
    BY GhostsCounted
  <2>7. On(p, rock) \in Nat /\ On(p, aship) \in Nat
    BY DEF On
  <2>8. Count(bigrocks, p) \in Nat /\ Count(mediumrocks, p) \in Nat /\ Count(bullets, p) \in Nat /\ images[p] \in Int
    BY Counts
  <2>9. On(p, new) \in Nat
    BY DEF On
  <2>10. QED
    BY <2>1, <2>2, <2>3, <2>4, <2>5, <2>6, <2>7, <2>8, <2>9
<1>17. ArraysHold'
  BY <1>10, <1>12 DEF ArraysHold
<1>18. QED
  BY <1>10, <1>11, <1>13, <1>14, <1>15, <1>16, <1>17

\* A frame begins: the ship is erased.
LEMMA FrameKeeps == IInv /\ Frame => IInv'
<1> SUFFICES ASSUME IInv, Frame
             PROVE  IInv'
  OBVIOUS
<1> USE DEF IInv
<1>1. /\ looping = "frame" /\ looping' = "big" /\ elem' = 1
      /\ aship' = ErasedHere(aship) /\ images' = ErasedImages(aship)
      /\ UNCHANGED <<bigrocks, mediumrocks, bullets, respawn, pindex>>
  BY DEF Frame, Loop
<1>2. PICK s : s = aship
  OBVIOUS
<1>3. s \in [state : Nat, old : SUBSET Pages, cooldown : Nat]
  BY <1>2 DEF TypeInv
<1>4. aship' = [state |-> s.state, old |-> s.old \ {pindex}, cooldown |-> s.cooldown]
  <2>1. PICK q : q = pindex
    OBVIOUS
  <2>2. aship' = [s EXCEPT !.old = @ \ {q}]
    BY <1>1, <1>2, <2>1 DEF ErasedHere
  <2>3. [s EXCEPT !.old = @ \ {q}] = [state |-> s.state, old |-> s.old \ {q}, cooldown |-> s.cooldown]
    BY <1>3
  <2>4. QED
    BY <2>1, <2>2, <2>3
<1>5. /\ aship' \in [state : Nat, old : SUBSET Pages, cooldown : Nat]
      /\ aship'.old = aship.old \ {pindex} /\ aship'.state = aship.state
  BY <1>2, <1>3, <1>4
<1>6. TypeInv'
  <2>1. images' \in [Pages -> Int]
    BY <1>1, ErasedImagesIs
  <2>2. QED
    BY <1>1, <1>5, <2>1 DEF TypeInv, LoopNames
<1>7. BigInv' /\ MediumInv'
  <2>1. \A r \in Nat \ {0} :
           /\ ~Passed(r, "big", {"medium", "drawbig", "drawmedium", "bullets", "ship", "flip"})'
           /\ ~Passed(r, "drawbig", {"drawmedium", "bullets", "ship", "flip"})'
           /\ ~Passed(r, "medium", {"drawbig", "drawmedium", "bullets", "ship", "flip"})'
           /\ ~Passed(r, "drawmedium", {"bullets", "ship", "flip"})'
           /\ ~Passed(r, "big", {"medium", "drawbig", "drawmedium", "bullets", "ship", "flip"})
           /\ ~Passed(r, "drawbig", {"drawmedium", "bullets", "ship", "flip"})
           /\ ~Passed(r, "medium", {"drawbig", "drawmedium", "bullets", "ship", "flip"})
           /\ ~Passed(r, "drawmedium", {"bullets", "ship", "flip"})
    BY <1>1 DEF Passed
  <2>2. \A r \in DOMAIN bigrocks : r \in Nat \ {0}
    BY DEF TypeInv
  <2>3. \A r \in DOMAIN mediumrocks : r \in Nat \ {0}
    BY DEF TypeInv
  <2>4. BigInv'
    BY <1>1, <2>1, <2>2 DEF BigInv, BigIsWhere, RockIsWhere
  <2>5. MediumInv'
    BY <1>1, <2>1, <2>3 DEF MediumInv, MediumIsWhere, RockIsWhere
  <2>6. QED
    BY <2>4, <2>5
<1>8. BulletsInv'
  BY <1>1 DEF BulletsInv, BulletIsWhere, Passed
<1>9. ShipInv'
  BY <1>1, <1>5 DEF ShipInv
<1>10. NoGhosts'
  <2> SUFFICES ASSUME NEW p \in Pages
               PROVE  images'[p] = Count(bigrocks', p) + Count(mediumrocks', p) + Count(bullets', p) + On(p, aship')
    BY GhostsCounted
  <2>1. images'[p] = images[p] - (IF p = pindex THEN On(p, aship) ELSE 0)
    BY <1>1, ErasedImagesIs
  <2>2. On(p, aship') = (IF p = pindex THEN 0 ELSE On(p, aship)) /\ On(p, aship) \in Nat
    BY <1>5 DEF On
  <2>3. images[p] = Count(bigrocks, p) + Count(mediumrocks, p) + Count(bullets, p) + On(p, aship)
    BY GhostsCounted
  <2>4. Count(bigrocks, p) \in Nat /\ Count(mediumrocks, p) \in Nat /\ Count(bullets, p) \in Nat /\ images[p] \in Int
    BY Counts
  <2>5. Count(bigrocks', p) = Count(bigrocks, p) /\ Count(mediumrocks', p) = Count(mediumrocks, p) /\ Count(bullets', p) = Count(bullets, p)
    BY <1>1
  <2>6. QED
    BY <2>1, <2>2, <2>3, <2>4, <2>5
<1>11. ArraysHold'
  BY <1>1 DEF ArraysHold
<1>12. QED
  BY <1>6, <1>7, <1>8, <1>9, <1>10, <1>11

\* One step of a loop that draws: whatever becomes of the element, the loop's
\* place stays right, and the page holds one image more exactly when one is
\* drawn.
LEMMA DrawRockIs ==
    ASSUME TypeInv, NEW rocks \in Seq(Image), NEW next, elem <= Len(rocks),
           \A r \in DOMAIN rocks : RockIsWhere(rocks[r], TRUE, r < elem),
           LET rock == rocks[elem]
               aged == [rock EXCEPT !.state = @ - 1]
           IN  IF rock.state >= ALIVE
               THEN /\ next = [rocks EXCEPT ![elem] = Drawn(IF rock.state > ALIVE THEN aged ELSE rock)]
                    /\ images' = DrawnImages(rock)
                    /\ elem' = elem + 1
               ELSE /\ UNCHANGED images
                    /\ IF aged.state = DEAD
                       THEN next = Removed(rocks, elem) /\ UNCHANGED elem
                       ELSE next = [rocks EXCEPT ![elem] = aged] /\ elem' = elem + 1
    PROVE  /\ next \in Seq(Image) /\ Len(next) <= Len(rocks)
           /\ images' \in [Pages -> Int]
           /\ \A p \in Pages : images'[p] - Count(next, p) = images[p] - Count(rocks, p)
           /\ elem' \in Nat \ {0}
           /\ \A r \in DOMAIN next : RockIsWhere(next[r], TRUE, r < elem')
<1>1. elem \in Nat \ {0} /\ elem \in DOMAIN rocks /\ images \in [Pages -> Int] /\ pindex \in Pages
  BY DEF TypeInv
<1>2. PICK rock : rock = rocks[elem]
  OBVIOUS
<1>3. rock \in Image /\ RockIsWhere(rock, TRUE, FALSE)
  BY <1>1, <1>2 DEF RockIsWhere
<1>4. rock.state \in Nat \ {0} /\ pindex \notin rock.old
  BY <1>3 DEF RockIsWhere, Image, DEAD
<1>5. PICK aged : aged = [rock EXCEPT !.state = @ - 1]
  OBVIOUS
<1>6. aged = [state |-> rock.state - 1, old |-> rock.old] /\ aged \in Image
  BY <1>3, <1>4, <1>5 DEF Image
<1>7. \A r \in DOMAIN rocks : r \in Nat /\ rocks[r] \in Image
  OBVIOUS
\* An element is changed in its place: the others are behind the loop as before.
<1>8. ASSUME NEW s \in Image, next = [rocks EXCEPT ![elem] = s], elem' = elem + 1, RockIsWhere(s, TRUE, TRUE)
      PROVE  /\ next \in Seq(Image) /\ Len(next) = Len(rocks)
             /\ \A p : Count(next, p) = Count(rocks, p) - On(p, rock) + On(p, s)
             /\ \A r \in DOMAIN next : RockIsWhere(next[r], TRUE, r < elem')
  <2>1. next \in Seq(Image) /\ Len(next) = Len(rocks)
    BY <1>1, <1>8
  <2>2. \A p : Count(next, p) = Count(rocks, p) - On(p, rock) + On(p, s)
    BY <1>1, <1>2, <1>8, CountPut
  <2>3. ASSUME NEW r \in DOMAIN next
        PROVE  RockIsWhere(next[r], TRUE, r < elem')
    <3>1. r \in DOMAIN rocks /\ r \in Nat
      BY <1>8
    <3>2. CASE r = elem
      BY <1>1, <1>8, <3>1, <3>2 DEF RockIsWhere
    <3>3. CASE r # elem
      BY <1>1, <1>8, <3>1, <3>3 DEF RockIsWhere
    <3>4. QED
      BY <3>2, <3>3
  <2>4. QED
    BY <2>1, <2>2, <2>3
<1>9. CASE rock.state >= ALIVE
  <2>1. PICK base : base = IF rock.state > ALIVE THEN aged ELSE rock
    OBVIOUS
  <2>2. base \in Image /\ base.old = rock.old /\ base.state >= ALIVE
    BY <1>3, <1>6, <1>9, <2>1 DEF ALIVE, Image
  <2>3. PICK s : s = [base EXCEPT !.old = @ \cup {pindex}]
    OBVIOUS
  <2>4. s = [state |-> base.state, old |-> base.old \cup {pindex}] /\ s \in Image
    <3>1. PICK o : o = base.old \cup {pindex}
      OBVIOUS
    <3>2. s = [base EXCEPT !.old = o] /\ base \in Image
      BY <2>2, <2>3, <3>1
    <3>3. [base EXCEPT !.old = o] = [state |-> base.state, old |-> o]
      BY <3>2 DEF Image
    <3>4. [state |-> base.state, old |-> o] \in Image
      BY <1>1, <2>2, <3>1 DEF Image
    <3>5. QED
      BY <3>1, <3>2, <3>3, <3>4
  <2>5. RockIsWhere(s, TRUE, TRUE)
    BY <2>2, <2>4 DEF RockIsWhere, ALIVE, DEAD
  <2>6. next = [rocks EXCEPT ![elem] = s] /\ images' = DrawnImages(rock) /\ elem' = elem + 1
    BY <1>2, <1>5, <1>9, <2>1, <2>3, Zenon DEF Drawn
  <2>7. /\ next \in Seq(Image) /\ Len(next) = Len(rocks)
        /\ \A p : Count(next, p) = Count(rocks, p) - On(p, rock) + On(p, s)
        /\ \A r \in DOMAIN next : RockIsWhere(next[r], TRUE, r < elem')
    BY <1>8, <2>4, <2>5, <2>6
  <2>8. images' = [images EXCEPT ![pindex] = @ + 1]
    BY <2>6 DEF DrawnImages
  <2>9. ASSUME NEW p \in Pages
        PROVE  images'[p] - Count(next, p) = images[p] - Count(rocks, p)
    <3>1. On(p, s) = IF p = pindex THEN 1 ELSE On(p, rock)
      BY <2>2, <2>4 DEF On
    <3>2. p = pindex => On(p, rock) = 0
      BY <1>4 DEF On
    <3>3. On(p, rock) \in Nat /\ Count(rocks, p) \in Nat
      BY CountType DEF On
    <3>4. images'[p] = IF p = pindex THEN images[p] + 1 ELSE images[p]
      BY <1>1, <2>8
    <3>5. Count(next, p) = Count(rocks, p) - On(p, rock) + On(p, s)
      BY <2>7
    <3>6. images[p] \in Int
      BY <1>1
    <3>7. QED
      BY <3>1, <3>2, <3>3, <3>4, <3>5, <3>6
  <2>10. images' \in [Pages -> Int]
    BY <1>1, <2>8
  <2>11. elem' \in Nat \ {0} /\ Len(next) <= Len(rocks)
    BY <1>1, <2>6, <2>7
  <2>12. QED
    BY <2>7, <2>9, <2>10, <2>11
<1>10. CASE ~(rock.state >= ALIVE) /\ aged.state # DEAD
  <2>1. next = [rocks EXCEPT ![elem] = aged] /\ elem' = elem + 1 /\ images' = images
    BY <1>2, <1>5, <1>10, Zenon
  <2>2. RockIsWhere(aged, TRUE, TRUE)
    BY <1>4, <1>6, <1>10 DEF RockIsWhere, ALIVE
  <2>3. /\ next \in Seq(Image) /\ Len(next) = Len(rocks)
        /\ \A p : Count(next, p) = Count(rocks, p) - On(p, rock) + On(p, aged)
        /\ \A r \in DOMAIN next : RockIsWhere(next[r], TRUE, r < elem')
    BY <1>6, <1>8, <2>1, <2>2
  <2>4. \A p : On(p, aged) = On(p, rock) /\ On(p, rock) \in Nat
    BY <1>6 DEF On
  <2>5. \A p : Count(rocks, p) \in Nat
    BY CountType
  <2>6. \A p : Count(next, p) = Count(rocks, p)
    BY <2>3, <2>4, <2>5
  <2>7. \A p \in Pages : images'[p] - Count(next, p) = images[p] - Count(rocks, p)
    BY <2>1, <2>6
  <2>8. elem' \in Nat \ {0} /\ Len(next) <= Len(rocks) /\ images' \in [Pages -> Int]
    BY <1>1, <2>1, <2>3
  <2>9. QED
    BY <2>3, <2>7, <2>8
<1>11. CASE ~(rock.state >= ALIVE) /\ aged.state = DEAD
  <2>1. next = Removed(rocks, elem) /\ elem' = elem /\ images' = images
    BY <1>2, <1>5, <1>11, Zenon
  <2>2. rock.old = {}
    BY <1>3, <1>4, <1>6, <1>11 DEF RockIsWhere, DEAD, DYING_FINISH
  <2>3. /\ next \in Seq(Image) /\ Len(next) = Len(rocks) - 1
        /\ \A r \in DOMAIN next :
                /\ r \in DOMAIN rocks
                /\ r # elem => next[r] = rocks[r]
                /\ r = elem => next[r] = rocks[Len(rocks)] /\ elem < Len(rocks)
    BY <1>1, <2>1, RemovedIs
  <2>4. \A p : Count(next, p) = Count(rocks, p)
    BY <1>1, <1>2, <2>1, <2>2, CountRemoved
  <2>5. ASSUME NEW r \in DOMAIN next
        PROVE  RockIsWhere(next[r], TRUE, r < elem')
    <3>1. CASE r # elem
      BY <2>1, <2>3, <3>1 DEF RockIsWhere
    <3>2. CASE r = elem
      <4>1. next[r] = rocks[Len(rocks)] /\ elem < Len(rocks) /\ Len(rocks) \in DOMAIN rocks
        BY <1>1, <2>3, <3>2
      <4>2. RockIsWhere(rocks[Len(rocks)], TRUE, FALSE)
        BY <1>1, <4>1 DEF RockIsWhere
      <4>3. QED
        BY <1>1, <2>1, <3>2, <4>1, <4>2 DEF RockIsWhere
    <3>3. QED
      BY <3>1, <3>2
  <2>6. elem' \in Nat \ {0} /\ Len(next) <= Len(rocks) /\ images' \in [Pages -> Int]
    BY <1>1, <2>1, <2>3
  <2>7. \A p \in Pages : images'[p] - Count(next, p) = images[p] - Count(rocks, p)
    BY <2>1, <2>4
  <2>8. QED
    BY <2>3, <2>5, <2>6, <2>7
<1>12. QED
  BY <1>9, <1>10, <1>11

\* The loop that draws the big rocks.
LEMMA DrawBigKeeps == IInv /\ DrawBigRock => IInv'
<1> SUFFICES ASSUME IInv, DrawBigRock
             PROVE  IInv'
  OBVIOUS
<1> USE DEF IInv
<1>1. /\ looping = "drawbig" /\ bigrocks \in Seq(Image)
      /\ UNCHANGED <<bullets, aship, respawn, gameoverman, pindex, looping, mediumrocks>>
  BY DEF DrawBigRock, DrawRock, TypeInv
<1>2. \A r \in DOMAIN bigrocks : RockIsWhere(bigrocks[r], TRUE, r < elem)
  BY <1>1 DEF BigInv, BigIsWhere, Passed, RockIsWhere
<1>3. /\ bigrocks' \in Seq(Image) /\ Len(bigrocks') <= Len(bigrocks)
      /\ images' \in [Pages -> Int]
      /\ \A p \in Pages : images'[p] - Count(bigrocks', p) = images[p] - Count(bigrocks, p)
      /\ elem' \in Nat \ {0}
      /\ \A r \in DOMAIN bigrocks' : RockIsWhere(bigrocks'[r], TRUE, r < elem')
  <2>1. DrawRock(bigrocks)
    BY DEF DrawBigRock
  <2>2. QED
    BY <1>1, <1>2, <2>1, DrawRockIs, Zenon DEF DrawRock
<1>4. TypeInv'
  BY <1>1, <1>3 DEF TypeInv
<1>5. BigInv'
  <2>1. \A r : /\ Passed(r, "big", {"medium", "drawbig", "drawmedium", "bullets", "ship", "flip"})'
               /\ Passed(r, "drawbig", {"drawmedium", "bullets", "ship", "flip"})' <=> r < elem'
    BY <1>1 DEF Passed
  <2>2. QED
    BY <1>1, <1>3, <2>1 DEF BigInv, BigIsWhere, RockIsWhere
<1>6. MediumInv'
  BY <1>1 DEF MediumInv, MediumIsWhere, RockIsWhere, Passed
<1>7. BulletsInv'
  BY <1>1 DEF BulletsInv, BulletIsWhere, Passed
<1>8. ShipInv'
  BY <1>1 DEF ShipInv
<1>9. NoGhosts'
  <2> SUFFICES ASSUME NEW p \in Pages
               PROVE  images'[p] = Count(bigrocks', p) + Count(mediumrocks', p) + Count(bullets', p) + On(p, aship')
    BY GhostsCounted
  <2>1. images'[p] - Count(bigrocks', p) = images[p] - Count(bigrocks, p)
    BY <1>3
  <2>2. images[p] = Count(bigrocks, p) + Count(mediumrocks, p) + Count(bullets, p) + On(p, aship)
    BY GhostsCounted
  <2>3. On(p, aship) \in Nat /\ Count(bigrocks', p) \in Nat /\ images'[p] \in Int
    BY <1>3, CountType DEF On
  <2>4. Count(bigrocks, p) \in Nat /\ Count(mediumrocks, p) \in Nat /\ Count(bullets, p) \in Nat /\ images[p] \in Int
    BY Counts
  <2>5. Count(mediumrocks', p) = Count(mediumrocks, p) /\ Count(bullets', p) = Count(bullets, p) /\ On(p, aship') = On(p, aship)
    BY <1>1
  <2>6. QED
    BY <2>1, <2>2, <2>3, <2>4, <2>5
<1>10. ArraysHold'
  BY <1>1 DEF ArraysHold
<1>11. QED
  BY <1>4, <1>5, <1>6, <1>7, <1>8, <1>9, <1>10

\* The loop that draws the medium rocks.
LEMMA DrawMediumKeeps == IInv /\ DrawMediumRock => IInv'
<1> SUFFICES ASSUME IInv, DrawMediumRock
             PROVE  IInv'
  OBVIOUS
<1> USE DEF IInv
<1>1. /\ looping = "drawmedium" /\ mediumrocks \in Seq(Image)
      /\ UNCHANGED <<bullets, aship, respawn, gameoverman, pindex, looping, bigrocks>>
  BY DEF DrawMediumRock, DrawRock, TypeInv
<1>2. \A r \in DOMAIN mediumrocks : RockIsWhere(mediumrocks[r], TRUE, r < elem)
  BY <1>1 DEF MediumInv, MediumIsWhere, Passed, RockIsWhere
<1>3. /\ mediumrocks' \in Seq(Image) /\ Len(mediumrocks') <= Len(mediumrocks)
      /\ images' \in [Pages -> Int]
      /\ \A p \in Pages : images'[p] - Count(mediumrocks', p) = images[p] - Count(mediumrocks, p)
      /\ elem' \in Nat \ {0}
      /\ \A r \in DOMAIN mediumrocks' : RockIsWhere(mediumrocks'[r], TRUE, r < elem')
  <2>1. DrawRock(mediumrocks)
    BY DEF DrawMediumRock
  <2>2. QED
    BY <1>1, <1>2, <2>1, DrawRockIs, Zenon DEF DrawRock
<1>4. TypeInv'
  BY <1>1, <1>3 DEF TypeInv
<1>5. MediumInv'
  <2>1. \A r : /\ Passed(r, "medium", {"drawbig", "drawmedium", "bullets", "ship", "flip"})'
               /\ Passed(r, "drawmedium", {"bullets", "ship", "flip"})' <=> r < elem'
    BY <1>1 DEF Passed
  <2>2. QED
    BY <1>1, <1>3, <2>1 DEF MediumInv, MediumIsWhere, RockIsWhere
<1>6. BigInv'
  BY <1>1 DEF BigInv, BigIsWhere, RockIsWhere, Passed
<1>7. BulletsInv'
  BY <1>1 DEF BulletsInv, BulletIsWhere, Passed
<1>8. ShipInv'
  BY <1>1 DEF ShipInv
<1>9. NoGhosts'
  <2> SUFFICES ASSUME NEW p \in Pages
               PROVE  images'[p] = Count(bigrocks', p) + Count(mediumrocks', p) + Count(bullets', p) + On(p, aship')
    BY GhostsCounted
  <2>1. images'[p] - Count(mediumrocks', p) = images[p] - Count(mediumrocks, p)
    BY <1>3
  <2>2. images[p] = Count(bigrocks, p) + Count(mediumrocks, p) + Count(bullets, p) + On(p, aship)
    BY GhostsCounted
  <2>3. On(p, aship) \in Nat /\ Count(mediumrocks', p) \in Nat /\ images'[p] \in Int
    BY <1>3, CountType DEF On
  <2>4. QED
    <3>1. Count(bigrocks, p) \in Nat /\ Count(mediumrocks, p) \in Nat /\ Count(bullets, p) \in Nat /\ images[p] \in Int
      BY Counts
    <3>2. Count(bigrocks', p) = Count(bigrocks, p) /\ Count(bullets', p) = Count(bullets, p) /\ On(p, aship') = On(p, aship)
      BY <1>1
    <3>3. QED
      BY <2>1, <2>2, <2>3, <3>1, <3>2
<1>10. ArraysHold'
  <2>1. MAXROCKS \in Nat /\ Len(mediumrocks') \in Nat /\ Len(mediumrocks) \in Nat
    BY <1>1, <1>3, AsteronixAssumption
  <2>2. QED
    BY <1>1, <1>3, <2>1 DEF ArraysHold
<1>11. QED
  BY <1>4, <1>5, <1>6, <1>7, <1>8, <1>9, <1>10

\* A bullet is erased and, unless it is dying, drawn again; one that is gone
\* has no image left.
LEMMA DoBulletKeeps == IInv /\ DoBullet => IInv'
<1> SUFFICES ASSUME IInv, DoBullet
             PROVE  IInv'
  OBVIOUS
<1> USE DEF IInv
<1>1. PICK b : b = bullets[elem]
  OBVIOUS
<1>2. /\ looping = "bullets" /\ elem \in Nat \ {0} /\ elem \in DOMAIN bullets /\ bullets \in Seq(Image) /\ b \in Image
      /\ pindex \in Pages /\ images \in [Pages -> Int]
      /\ UNCHANGED <<bigrocks, mediumrocks, aship, respawn, gameoverman, pindex, looping>>
  BY <1>1 DEF DoBullet, TypeInv
<1>3. \A x \in DOMAIN bullets : BulletIsWhere(bullets[x], x < elem)
  BY <1>2 DEF BulletsInv, BulletIsWhere, Passed
<1>4. b.state \in Nat \ {0} /\ (b.state = DYING_FINISH => b.old \subseteq {pindex})
  <2>1. b.state \in Nat /\ ~(elem < elem)
    BY <1>2 DEF Image
  <2>2. BulletIsWhere(b, FALSE)
    BY <1>1, <1>2, <1>3, <2>1 DEF BulletIsWhere
  <2>3. QED
    BY <2>1, <2>2 DEF BulletIsWhere, DEAD
<1>5. PICK was : was = ErasedHere(b)
  OBVIOUS
<1>6. was = [state |-> b.state, old |-> b.old \ {pindex}] /\ was \in Image
  BY <1>2, <1>5, ErasedHereIs
<1>7. PICK aged : aged = [was EXCEPT !.state = @ - 1]
  OBVIOUS
<1>8. aged = [state |-> b.state - 1, old |-> b.old \ {pindex}] /\ aged \in Image
  <2>1. was \in Image /\ was.state = b.state /\ was.old = b.old \ {pindex} /\ b.state - 1 \in Nat
    BY <1>4, <1>6
  <2>2. aged = [state |-> was.state - 1, old |-> was.old]
    BY <1>7, <2>1 DEF Image
  <2>3. [state |-> was.state - 1, old |-> was.old] \in Image
    BY <2>1 DEF Image
  <2>4. QED
    BY <2>1, <2>2, <2>3
<1>9. PICK clean : clean = ErasedImages(b)
  OBVIOUS
<1>10. clean \in [Pages -> Int] /\ \A p \in Pages : clean[p] = images[p] - (IF p = pindex THEN On(p, b) ELSE 0)
  BY <1>9, ErasedImagesIs
<1>11. \A p : On(p, b) \in Nat /\ Count(bullets, p) \in Nat
  BY <1>2, CountType DEF On
<1>12. IF aged.state >= ALIVE
       THEN /\ bullets' = [bullets EXCEPT ![elem] = Drawn(aged)]
            /\ images' = [clean EXCEPT ![pindex] = @ + 1]
            /\ elem' = elem + 1
       ELSE /\ images' = clean
            /\ IF aged.state = DEAD
               THEN bullets' = Removed(bullets, elem) /\ UNCHANGED elem
               ELSE bullets' = [bullets EXCEPT ![elem] = aged] /\ elem' = elem + 1
  BY <1>1, <1>5, <1>7, <1>9, Zenon DEF DoBullet
\* A bullet is changed in its place: the others are behind the loop as before.
<1>13. ASSUME NEW s \in Image, bullets' = [bullets EXCEPT ![elem] = s], elem' = elem + 1, BulletIsWhere(s, TRUE)
       PROVE  /\ bullets' \in Seq(Image) /\ Len(bullets') = Len(bullets)
              /\ \A p : Count(bullets', p) = Count(bullets, p) - On(p, b) + On(p, s)
              /\ \A x \in DOMAIN bullets' : BulletIsWhere(bullets'[x], x < elem')
  <2>1. bullets' \in Seq(Image) /\ Len(bullets') = Len(bullets)
    BY <1>2, <1>13
  <2>2. \A p : Count([bullets EXCEPT ![elem] = s], p) = Count(bullets, p) - On(p, bullets[elem]) + On(p, s)
    BY <1>2, <1>13, CountPut
  <2>3. \A p : Count(bullets', p) = Count(bullets, p) - On(p, b) + On(p, s)
    BY <1>1, <1>13, <2>2, Zenon
  <2>4. ASSUME NEW x \in DOMAIN bullets'
        PROVE  BulletIsWhere(bullets'[x], x < elem')
    <3>1. x \in DOMAIN bullets /\ x \in Nat
      BY <1>2, <1>13
    <3>2. CASE x = elem
      BY <1>2, <1>13, <3>1, <3>2 DEF BulletIsWhere
    <3>3. CASE x # elem
      BY <1>2, <1>3, <1>13, <3>1, <3>3 DEF BulletIsWhere
    <3>4. QED
      BY <3>2, <3>3
  <2>5. QED
    BY <2>1, <2>3, <2>4
<1>14. /\ bullets' \in Seq(Image) /\ Len(bullets') <= Len(bullets)
       /\ images' \in [Pages -> Int]
       /\ \A p \in Pages : images'[p] - Count(bullets', p) = images[p] - Count(bullets, p)
       /\ elem' \in Nat \ {0}
       /\ \A x \in DOMAIN bullets' : BulletIsWhere(bullets'[x], x < elem')
  <2>1. CASE aged.state >= ALIVE
    <3>1. PICK o : o = aged.old \cup {pindex}
      OBVIOUS
    <3>2. Drawn(aged) = [aged EXCEPT !.old = o]
      BY <3>1 DEF Drawn
    <3>3. [aged EXCEPT !.old = o] = [state |-> aged.state, old |-> o]
      BY <1>8 DEF Image
    <3>4. PICK s : s = [state |-> aged.state, old |-> o]
      OBVIOUS
    <3>5. s \in Image
      BY <1>2, <1>8, <3>1, <3>4 DEF Image
    <3>6. bullets' = [bullets EXCEPT ![elem] = s] /\ elem' = elem + 1 /\ images' = [clean EXCEPT ![pindex] = @ + 1]
      BY <1>12, <2>1, <3>2, <3>3, <3>4
    <3>7. BulletIsWhere(s, TRUE)
      <4>1. s.state \in Nat /\ s.state >= 6
        BY <1>8, <2>1, <3>4 DEF ALIVE, Image
      <4>2. QED
        BY <4>1 DEF BulletIsWhere, ALIVE, DEAD, DYING_FINISH
    <3>8. /\ bullets' \in Seq(Image) /\ Len(bullets') = Len(bullets)
          /\ \A p : Count(bullets', p) = Count(bullets, p) - On(p, b) + On(p, s)
          /\ \A x \in DOMAIN bullets' : BulletIsWhere(bullets'[x], x < elem')
      BY <1>13, <3>5, <3>6, <3>7
    <3>9. ASSUME NEW p \in Pages
          PROVE  images'[p] - Count(bullets', p) = images[p] - Count(bullets, p)
      <4>1. On(p, s) = IF p = pindex THEN 1 ELSE On(p, b)
        BY <1>8, <3>1, <3>4 DEF On
      <4>2. images'[p] = IF p = pindex THEN clean[p] + 1 ELSE clean[p]
        BY <1>2, <1>10, <3>6
      <4>3. clean[p] = images[p] - (IF p = pindex THEN On(p, b) ELSE 0)
        BY <1>10
      <4>4. On(p, b) \in Nat /\ Count(bullets, p) \in Nat /\ images[p] \in Int
        BY <1>2, <1>11
      <4>5. Count(bullets', p) = Count(bullets, p) - On(p, b) + On(p, s)
        BY <3>8
      <4>6. QED
        BY <4>1, <4>2, <4>3, <4>4, <4>5
    <3>10. images' \in [Pages -> Int]
      BY <1>2, <1>10, <3>6
    <3>11. elem' \in Nat \ {0} /\ Len(bullets') <= Len(bullets)
      BY <1>2, <3>6, <3>8
    <3>12. QED
      BY <3>8, <3>9, <3>10, <3>11
  <2>2. CASE ~(aged.state >= ALIVE) /\ aged.state # DEAD
    <3>1. bullets' = [bullets EXCEPT ![elem] = aged] /\ elem' = elem + 1 /\ images' = clean
      BY <1>12, <2>2
    <3>2. BulletIsWhere(aged, TRUE)
      BY <1>8, <2>2 DEF BulletIsWhere
    <3>3. /\ bullets' \in Seq(Image) /\ Len(bullets') = Len(bullets)
          /\ \A p : Count(bullets', p) = Count(bullets, p) - On(p, b) + On(p, aged)
          /\ \A x \in DOMAIN bullets' : BulletIsWhere(bullets'[x], x < elem')
      BY <1>8, <1>13, <3>1, <3>2
    <3>4. ASSUME NEW p \in Pages
          PROVE  images'[p] - Count(bullets', p) = images[p] - Count(bullets, p)
      <4>1. On(p, aged) = IF p = pindex THEN 0 ELSE On(p, b)
        BY <1>8 DEF On
      <4>2. images'[p] = images[p] - (IF p = pindex THEN On(p, b) ELSE 0)
        BY <1>10, <3>1
      <4>3. On(p, b) \in Nat /\ Count(bullets, p) \in Nat /\ images[p] \in Int
        BY <1>2, <1>11
      <4>4. Count(bullets', p) = Count(bullets, p) - On(p, b) + On(p, aged)
        BY <3>3
      <4>5. QED
        BY <4>1, <4>2, <4>3, <4>4
    <3>5. elem' \in Nat \ {0} /\ Len(bullets') <= Len(bullets) /\ images' \in [Pages -> Int]
      BY <1>2, <1>10, <3>1, <3>3
    <3>6. QED
      BY <3>3, <3>4, <3>5
  <2>3. CASE ~(aged.state >= ALIVE) /\ aged.state = DEAD
    <3>1. bullets' = Removed(bullets, elem) /\ elem' = elem /\ images' = clean
      BY <1>12, <2>3
    <3>2. b.old \subseteq {pindex} /\ aged.old = {}
      BY <1>4, <1>8, <2>3 DEF DEAD, DYING_FINISH
    <3>3. /\ bullets' \in Seq(Image) /\ Len(bullets') = Len(bullets) - 1
          /\ \A x \in DOMAIN bullets' :
                  /\ x \in DOMAIN bullets
                  /\ x # elem => bullets'[x] = bullets[x]
                  /\ x = elem => bullets'[x] = bullets[Len(bullets)] /\ elem < Len(bullets)
      BY <1>2, <3>1, RemovedIs
    \* Undrawn, it is an element without images, and that is removed.
    <3>4. PICK seq : seq = [bullets EXCEPT ![elem] = aged]
      OBVIOUS
    <3>5. /\ seq \in Seq(Image) /\ elem \in DOMAIN seq /\ seq[elem] = aged
          /\ \A p : Count(seq, p) = Count(bullets, p) - On(p, b) + On(p, aged)
      <4>1. seq \in Seq(Image) /\ elem \in DOMAIN seq /\ seq[elem] = aged
        BY <1>2, <1>8, <3>4
      <4>2. \A p : Count([bullets EXCEPT ![elem] = aged], p) = Count(bullets, p) - On(p, bullets[elem]) + On(p, aged)
        BY <1>2, <1>8, CountPut
      <4>3. QED
        BY <1>1, <3>4, <4>1, <4>2, Zenon
    <3>6. \A p : Count(Removed(seq, elem), p) = Count(seq, p)
      BY <3>2, <3>5, CountRemoved
    <3>7. Removed(seq, elem) = Removed(bullets, elem)
      <4>1. Len(seq) = Len(bullets) /\ Len(bullets) \in DOMAIN bullets
        BY <1>2, <3>4
      <4>2. CASE elem = Len(bullets)
        <5>1. /\ Removed(seq, elem) \in Seq(Image) /\ Removed(bullets, elem) \in Seq(Image)
              /\ Len(Removed(seq, elem)) = Len(bullets) - 1 /\ Len(Removed(bullets, elem)) = Len(bullets) - 1
              /\ \A r \in DOMAIN Removed(seq, elem) : r # elem => Removed(seq, elem)[r] = seq[r]
              /\ \A r \in DOMAIN Removed(bullets, elem) : r # elem => Removed(bullets, elem)[r] = bullets[r]
          BY <1>2, <3>5, <4>1, RemovedIs
        <5>2. \A r \in 1 .. Len(bullets) - 1 : r # elem /\ seq[r] = bullets[r]
          BY <1>2, <3>4, <4>2
        <5>3. PICK u : u = Removed(seq, elem)
          OBVIOUS
        <5>4. PICK v : v = Removed(bullets, elem)
          OBVIOUS
        <5>5. /\ u \in Seq(Image) /\ v \in Seq(Image) /\ Len(u) = Len(bullets) - 1 /\ Len(v) = Len(u)
              /\ \A r \in DOMAIN u : r # elem => u[r] = seq[r]
              /\ \A r \in DOMAIN v : r # elem => v[r] = bullets[r]
          BY <5>1, <5>3, <5>4, Zenon
        <5>6. \A r \in 1 .. Len(u) : r \in DOMAIN u /\ r \in DOMAIN v /\ r \in 1 .. Len(bullets) - 1
          BY <5>5
        <5>7. \A r \in 1 .. Len(u) : u[r] = v[r]
          BY <5>2, <5>5, <5>6, Zenon
        <5>8. u = v
          BY <5>5, <5>7, SeqEqual
        <5>9. QED
          BY <5>3, <5>4, <5>8, Zenon
      <4>3. CASE elem # Len(bullets)
        BY <1>2, <3>4, <4>1, <4>3 DEF Removed
      <4>4. QED
        BY <4>2, <4>3
    <3>8. ASSUME NEW p \in Pages
          PROVE  images'[p] - Count(bullets', p) = images[p] - Count(bullets, p)
      <4>1. On(p, aged) = 0 /\ (p # pindex => On(p, b) = 0)
        BY <3>2 DEF On
      <4>2. images'[p] = images[p] - (IF p = pindex THEN On(p, b) ELSE 0)
        BY <1>10, <3>1
      <4>3. On(p, b) \in Nat /\ Count(bullets, p) \in Nat /\ images[p] \in Int
        BY <1>2, <1>11
      <4>4. Count(bullets', p) = Count(bullets, p) - On(p, b) + On(p, aged)
        BY <3>1, <3>5, <3>6, <3>7
      <4>5. QED
        BY <4>1, <4>2, <4>3, <4>4
    <3>9. ASSUME NEW x \in DOMAIN bullets'
          PROVE  BulletIsWhere(bullets'[x], x < elem')
      <4>1. CASE x # elem
        BY <1>3, <3>1, <3>3, <4>1 DEF BulletIsWhere
      <4>2. CASE x = elem
        <5>1. bullets'[x] = bullets[Len(bullets)] /\ elem < Len(bullets) /\ Len(bullets) \in DOMAIN bullets
          BY <1>2, <3>3, <4>2
        <5>2. BulletIsWhere(bullets[Len(bullets)], FALSE)
          BY <1>2, <1>3, <5>1 DEF BulletIsWhere
        <5>3. QED
          BY <1>2, <3>1, <4>2, <5>1, <5>2 DEF BulletIsWhere
      <4>3. QED
        BY <4>1, <4>2
    <3>10. elem' \in Nat \ {0} /\ Len(bullets') <= Len(bullets) /\ images' \in [Pages -> Int]
      BY <1>2, <1>10, <3>1, <3>3
    <3>11. QED
      BY <3>3, <3>8, <3>9, <3>10
  <2>4. QED
    BY <2>1, <2>2, <2>3
<1>15. TypeInv'
  BY <1>2, <1>14 DEF TypeInv
<1>16. BigInv' /\ MediumInv'
  BY <1>2 DEF BigInv, BigIsWhere, MediumInv, MediumIsWhere, RockIsWhere, Passed
<1>17. BulletsInv'
  BY <1>2, <1>14 DEF BulletsInv, BulletIsWhere, Passed
<1>18. ShipInv'
  BY <1>2 DEF ShipInv
<1>19. NoGhosts'
  <2> SUFFICES ASSUME NEW p \in Pages
               PROVE  images'[p] = Count(bigrocks', p) + Count(mediumrocks', p) + Count(bullets', p) + On(p, aship')
    BY GhostsCounted
  <2>1. images'[p] - Count(bullets', p) = images[p] - Count(bullets, p)
    BY <1>14
  <2>2. images[p] = Count(bigrocks, p) + Count(mediumrocks, p) + Count(bullets, p) + On(p, aship)
    BY GhostsCounted
  <2>3. On(p, aship) \in Nat /\ Count(bullets', p) \in Nat /\ images'[p] \in Int
    BY <1>14, CountType DEF On
  <2>4. QED
    <3>1. Count(bigrocks, p) \in Nat /\ Count(mediumrocks, p) \in Nat /\ Count(bullets, p) \in Nat /\ images[p] \in Int
      BY Counts
    <3>2. Count(bigrocks', p) = Count(bigrocks, p) /\ Count(mediumrocks', p) = Count(mediumrocks, p) /\ On(p, aship') = On(p, aship)
      BY <1>2
    <3>3. QED
      BY <2>1, <2>2, <2>3, <3>1, <3>2
<1>20. ArraysHold'
  <2>1. MAXBULLETS \in Nat /\ Len(bullets') \in Nat /\ Len(bullets) \in Nat
    BY <1>2, <1>14, AsteronixAssumption
  <2>2. QED
    BY <1>2, <1>14, <2>1 DEF ArraysHold
<1>21. QED
  BY <1>15, <1>16, <1>17, <1>18, <1>19, <1>20

\* One loop follows another when it is through: what it has passed stays
\* passed, and the next has passed nothing.
LEMMA NextLoopKeeps == IInv /\ NextLoop => IInv'
<1> SUFFICES ASSUME IInv, NextLoop
             PROVE  IInv'
  OBVIOUS
<1> USE DEF IInv
<1>1. /\ elem' = 1 /\ UNCHANGED <<bigrocks, mediumrocks, bullets, aship, respawn, gameoverman, pindex, images>>
      /\ \/ looping = "big" /\ elem > Len(bigrocks) /\ looping' = "medium"
         \/ looping = "medium" /\ elem > Len(mediumrocks) /\ looping' = "drawbig"
         \/ looping = "drawbig" /\ elem > Len(bigrocks) /\ looping' = "drawmedium"
         \/ looping = "drawmedium" /\ elem > Len(mediumrocks) /\ looping' = "bullets"
         \/ looping = "bullets" /\ elem > Len(bullets) /\ looping' = "ship"
  BY DEF NextLoop, Loop
<1>2. TypeInv'
  BY <1>1 DEF TypeInv, LoopNames
<1>3. /\ \A r \in DOMAIN bigrocks : r \in Nat \ {0} /\ r <= Len(bigrocks)
      /\ \A r \in DOMAIN mediumrocks : r \in Nat \ {0} /\ r <= Len(mediumrocks)
      /\ \A b \in DOMAIN bullets : b \in Nat \ {0} /\ b <= Len(bullets)
      /\ elem \in Nat
  BY DEF TypeInv
<1>4. BigInv'
  <2> SUFFICES ASSUME NEW r \in DOMAIN bigrocks
               PROVE  BigIsWhere(r)'
    BY <1>1 DEF BigInv
  <2>1. r \in Nat \ {0} /\ r <= Len(bigrocks) /\ Len(bigrocks) \in Nat
    BY <1>3 DEF TypeInv
  <2>2. Passed(r, "big", {"medium", "drawbig", "drawmedium", "bullets", "ship", "flip"})'
          <=> Passed(r, "big", {"medium", "drawbig", "drawmedium", "bullets", "ship", "flip"})
    BY <1>1, <1>3, <2>1 DEF Passed
  <2>3. Passed(r, "drawbig", {"drawmedium", "bullets", "ship", "flip"})'
          <=> Passed(r, "drawbig", {"drawmedium", "bullets", "ship", "flip"})
    BY <1>1, <1>3, <2>1 DEF Passed
  <2>4. QED
    BY <1>1, <2>2, <2>3 DEF BigInv, BigIsWhere, RockIsWhere
<1>5. MediumInv'
  <2> SUFFICES ASSUME NEW r \in DOMAIN mediumrocks
               PROVE  MediumIsWhere(r)'
    BY <1>1 DEF MediumInv
  <2>1. r \in Nat \ {0} /\ r <= Len(mediumrocks) /\ Len(mediumrocks) \in Nat
    BY <1>3 DEF TypeInv
  <2>2. Passed(r, "medium", {"drawbig", "drawmedium", "bullets", "ship", "flip"})'
          <=> Passed(r, "medium", {"drawbig", "drawmedium", "bullets", "ship", "flip"})
    BY <1>1, <1>3, <2>1 DEF Passed
  <2>3. Passed(r, "drawmedium", {"bullets", "ship", "flip"})'
          <=> Passed(r, "drawmedium", {"bullets", "ship", "flip"})
    BY <1>1, <1>3, <2>1 DEF Passed
  <2>4. QED
    BY <1>1, <2>2, <2>3 DEF MediumInv, MediumIsWhere, RockIsWhere
<1>6. BulletsInv'
  <2>1. ASSUME NEW b \in DOMAIN bullets
        PROVE  BulletIsWhere(bullets[b], Passed(b, "bullets", {"ship", "flip"}))'
    <3>1. b \in Nat \ {0} /\ b <= Len(bullets) /\ Len(bullets) \in Nat
      BY <1>3 DEF TypeInv
    <3>2. Passed(b, "bullets", {"ship", "flip"})' <=> Passed(b, "bullets", {"ship", "flip"})
      BY <1>1, <1>3, <3>1 DEF Passed
    <3>3. QED
      BY <1>1, <3>2 DEF BulletsInv, BulletIsWhere
  <2>2. QED
    BY <1>1, <2>1 DEF BulletsInv
<1>7. ShipInv'
  BY <1>1 DEF ShipInv
<1>8. NoGhosts' /\ ArraysHold'
  BY <1>1 DEF NoGhosts, ArraysHold, Holders
<1>9. QED
  BY <1>2, <1>4, <1>5, <1>6, <1>7, <1>8

\* When the ship's turn has come every loop is through, and stays so.
LEMMA LoopsAreThrough ==
    ASSUME looping \in {"ship", "flip"}
    PROVE  \A r :
              /\ Passed(r, "big", {"medium", "drawbig", "drawmedium", "bullets", "ship", "flip"})
              /\ Passed(r, "drawbig", {"drawmedium", "bullets", "ship", "flip"})
              /\ Passed(r, "medium", {"drawbig", "drawmedium", "bullets", "ship", "flip"})
              /\ Passed(r, "drawmedium", {"bullets", "ship", "flip"})
              /\ Passed(r, "bullets", {"ship", "flip"})
BY DEF Passed

\* The rocks stay where they are while the ship has its turn.
LEMMA ShipLeavesRocks ==
    ASSUME IInv, looping = "ship", looping' = "flip", UNCHANGED <<bigrocks, mediumrocks, pindex>>
    PROVE  BigInv' /\ MediumInv'
BY DEF IInv, BigInv, BigIsWhere, MediumInv, MediumIsWhere, RockIsWhere, Passed

\* A new ship is there, or not yet.
LEMMA NewShipKeeps == IInv /\ newship => IInv'
<1> SUFFICES ASSUME IInv, newship
             PROVE  IInv'
  OBVIOUS
<1> USE DEF IInv
<1>1. /\ looping = "ship" /\ looping' = "flip" /\ elem' = 1 /\ respawn
      /\ UNCHANGED <<bigrocks, mediumrocks, bullets, gameoverman, pindex, images>>
      /\ \/ respawn' = FALSE /\ aship' = [aship EXCEPT !.state = ALIVE, !.cooldown = 0]
         \/ respawn' = respawn /\ aship' = aship
  BY DEF newship, Loop
<1>2. PICK s : s = aship
  OBVIOUS
<1>3. s \in [state : Nat, old : SUBSET Pages, cooldown : Nat]
  BY <1>2 DEF TypeInv
<1>4. [s EXCEPT !.state = ALIVE, !.cooldown = 0] = [state |-> ALIVE, old |-> s.old, cooldown |-> 0]
  <2>1. PICK t : t = [s EXCEPT !.state = ALIVE, !.cooldown = 0]
    OBVIOUS
  <2>2. t.state = ALIVE /\ t.old = s.old /\ t.cooldown = 0 /\ DOMAIN t = {"state", "old", "cooldown"}
    BY <1>3, <2>1
  <2>3. t = [f \in {"state", "old", "cooldown"} |-> t[f]]
    BY <2>1, <2>2
  <2>4. QED
    BY <2>1, <2>2, <2>3
<1>5. /\ aship' \in [state : Nat, old : SUBSET Pages, cooldown : Nat] /\ aship'.old = aship.old
      /\ respawn' \in BOOLEAN
      /\ aship'.state = ALIVE \/ (respawn' /\ aship'.state = aship.state)
  <2>1. CASE respawn' = FALSE /\ aship' = [aship EXCEPT !.state = ALIVE, !.cooldown = 0]
    <3>1. aship' = [state |-> ALIVE, old |-> s.old, cooldown |-> 0]
      BY <1>2, <1>4, <2>1
    <3>2. QED
      <4>1. aship' \in [state : Nat, old : SUBSET Pages, cooldown : Nat]
        BY <1>3, <3>1 DEF ALIVE
      <4>2. aship'.old = s.old /\ aship'.state = ALIVE
        BY <3>1
      <4>3. respawn' \in BOOLEAN
        BY <2>1, Zenon
      <4>4. QED
        BY <1>2, <4>1, <4>2, <4>3
  <2>2. CASE respawn' = respawn /\ aship' = aship
    <3>1. respawn' \in BOOLEAN /\ respawn'
      BY <1>1, <2>2, Zenon DEF TypeInv
    <3>2. QED
      BY <1>2, <1>3, <2>2, <3>1
  <2>3. QED
    BY <1>1, <2>1, <2>2
<1>6. TypeInv'
  BY <1>1, <1>5 DEF TypeInv, LoopNames
<1>7. BulletsInv'
  BY <1>1 DEF BulletsInv, BulletIsWhere, Passed
<1>8. ShipInv'
  BY <1>1, <1>5 DEF ShipInv, ALIVE, DEAD
<1>9. NoGhosts' /\ ArraysHold'
  BY <1>1, <1>5 DEF NoGhosts, ArraysHold, Holders
<1>10. QED
  BY <1>1, <1>6, <1>7, <1>8, <1>9, ShipLeavesRocks

\* The pages change places: what is dying is on no other page than the one that
\* is drawn now.
LEMMA FlipKeeps == IInv /\ flip => IInv'
<1> SUFFICES ASSUME IInv, flip
             PROVE  IInv'
  OBVIOUS
<1> USE DEF IInv
<1>1. /\ looping = "flip" /\ looping' = "frame" /\ elem' = 1 /\ pindex' = 1 - pindex
      /\ UNCHANGED <<bigrocks, mediumrocks, bullets, aship, respawn, gameoverman, images>>
  BY DEF flip, Loop
<1>2. pindex' \in Pages /\ \A old \in SUBSET Pages : pindex \notin old => old \subseteq {pindex'}
  BY <1>1 DEF TypeInv, Pages
<1>3. TypeInv'
  BY <1>1, <1>2 DEF TypeInv, LoopNames
<1>4. /\ \A r \in DOMAIN bigrocks : r \in Nat \ {0} /\ bigrocks[r] \in Image
      /\ \A r \in DOMAIN mediumrocks : r \in Nat \ {0} /\ mediumrocks[r] \in Image
      /\ \A b \in DOMAIN bullets : b \in Nat \ {0} /\ bullets[b] \in Image
  BY DEF TypeInv
<1>5. \A r \in Nat \ {0} :
           /\ ~Passed(r, "big", {"medium", "drawbig", "drawmedium", "bullets", "ship", "flip"})'
           /\ ~Passed(r, "drawbig", {"drawmedium", "bullets", "ship", "flip"})'
           /\ ~Passed(r, "medium", {"drawbig", "drawmedium", "bullets", "ship", "flip"})'
           /\ ~Passed(r, "drawmedium", {"bullets", "ship", "flip"})'
           /\ ~Passed(r, "bullets", {"ship", "flip"})'
  BY <1>1 DEF Passed
<1>6. BigInv'
  <2> SUFFICES ASSUME NEW r \in DOMAIN bigrocks
               PROVE  BigIsWhere(r)'
    BY <1>1 DEF BigInv
  <2>1. bigrocks[r].old \in SUBSET Pages /\ bigrocks[r].state \in Nat /\ r \in Nat \ {0}
    BY <1>4 DEF Image
  <2>2. bigrocks[r].state # DEAD /\ (bigrocks[r].state < ALIVE => pindex \notin bigrocks[r].old)
    BY <1>1, <2>1, LoopsAreThrough DEF BigInv, BigIsWhere, RockIsWhere, ALIVE
  <2>3. QED
    BY <1>1, <1>2, <1>5, <2>1, <2>2 DEF BigIsWhere, RockIsWhere
<1>7. MediumInv'
  <2> SUFFICES ASSUME NEW r \in DOMAIN mediumrocks
               PROVE  MediumIsWhere(r)'
    BY <1>1 DEF MediumInv
  <2>1. mediumrocks[r].old \in SUBSET Pages /\ mediumrocks[r].state \in Nat /\ r \in Nat \ {0}
    BY <1>4 DEF Image
  <2>2. mediumrocks[r].state # DEAD /\ (mediumrocks[r].state < ALIVE => pindex \notin mediumrocks[r].old)
    BY <1>1, <2>1, LoopsAreThrough DEF MediumInv, MediumIsWhere, RockIsWhere, ALIVE
  <2>3. QED
    BY <1>1, <1>2, <1>5, <2>1, <2>2 DEF MediumIsWhere, RockIsWhere
<1>8. BulletsInv'
  <2>1. ASSUME NEW b \in DOMAIN bullets
        PROVE  BulletIsWhere(bullets[b], Passed(b, "bullets", {"ship", "flip"}))'
    <3>1. bullets[b].old \in SUBSET Pages /\ bullets[b].state \in Nat /\ b \in Nat \ {0}
      BY <1>4 DEF Image
    <3>2. bullets[b].state # DEAD /\ (bullets[b].state < ALIVE => pindex \notin bullets[b].old)
      BY <1>1, LoopsAreThrough DEF BulletsInv, BulletIsWhere
    <3>3. bullets[b].state = DYING_FINISH => bullets[b].old \subseteq {pindex'}
      <4>1. bullets[b].state = DYING_FINISH => bullets[b].state < ALIVE
        BY DEF DYING_FINISH, ALIVE
      <4>2. QED
        BY <1>2, <3>1, <3>2, <4>1, Zenon
    <3>4. ~Passed(b, "bullets", {"ship", "flip"})' /\ bullets' = bullets
      BY <1>1, <1>5, <3>1
    <3>5. QED
      BY <3>2, <3>3, <3>4, Zenon DEF BulletIsWhere
  <2>2. QED
    BY <1>1, <2>1 DEF BulletsInv
<1>9. ShipInv'
  BY <1>1 DEF ShipInv
<1>10. NoGhosts' /\ ArraysHold'
  BY <1>1 DEF NoGhosts, ArraysHold, Holders
<1>11. QED
  BY <1>3, <1>6, <1>7, <1>8, <1>9, <1>10

\* The ship is drawn and may fire, or goes on dying.
LEMMA DoShipKeeps == IInv /\ doship => IInv'
<1> SUFFICES ASSUME IInv, doship
             PROVE  IInv'
  OBVIOUS
<1> USE DEF IInv
<1>1. /\ looping = "ship" /\ looping' = "flip" /\ elem' = 1 /\ ~respawn
      /\ UNCHANGED <<bigrocks, mediumrocks, gameoverman, pindex>>
      /\ bullets \in Seq(Image) /\ Len(bullets) <= MAXBULLETS
      /\ pindex \in Pages /\ images \in [Pages -> Int]
  BY DEF doship, Loop, TypeInv, ArraysHold
<1>2. PICK s : s = aship
  OBVIOUS
<1>3. s \in [state : Nat, old : SUBSET Pages, cooldown : Nat] /\ s.state # DEAD /\ pindex \notin s.old
  BY <1>1, <1>2 DEF TypeInv, ShipInv
<1>4. Cooldown \in Nat /\ FireLife \in Nat /\ MAXBULLETS \in Nat
  BY AsteronixAssumption
\* The bullets that were there, and perhaps new ones behind them.
<1>5. /\ bullets' \in Seq(Image) /\ Len(bullets) <= Len(bullets') /\ Len(bullets') <= MAXBULLETS
      /\ \A b \in 1 .. Len(bullets) : bullets'[b] = bullets[b]
      /\ \A b \in Len(bullets) + 1 .. Len(bullets') : bullets'[b].state >= ALIVE /\ bullets'[b].old = {}
  <2>1. CASE bullets' = bullets
    BY <1>1, <1>4, <2>1
  <2>2. CASE bullets' = makeboom(bullets)
    BY <1>1, <2>2, BoomIs
  <2>3. CASE Len(bullets) < MAXBULLETS /\ bullets' = Append(bullets, Sprite(ALIVE + FireLife))
    <3>1. PICK new : new = Sprite(ALIVE + FireLife)
      OBVIOUS
    <3>2. new \in Image /\ new.state >= ALIVE /\ new.old = {}
      BY <1>4, <3>1 DEF Sprite, ALIVE, Image
    <3>3. bullets' = Append(bullets, new)
      BY <2>3, <3>1
    <3>4. QED
      BY <1>1, <1>4, <2>3, <3>2, <3>3
  <2>4. QED
    BY <2>1, <2>2, <2>3 DEF doship
\* Drawn on this page when it is there, and one frame nearer its end when not.
<1>6. /\ aship' \in [state : Nat, old : SUBSET Pages, cooldown : Nat]
      /\ images' \in [Pages -> Int] /\ respawn' \in BOOLEAN
      /\ aship'.state = DEAD => respawn'
      /\ \A p \in Pages : images'[p] - On(p, aship') = images[p] - On(p, aship)
  <2>1. CASE s.state = ALIVE
    <3>1. PICK c \in Nat : aship' = [Drawn(s) EXCEPT !.cooldown = c]
      <4>1. Drawn(s).cooldown \in Nat
        BY <1>3 DEF Drawn
      <4>2. (IF Drawn(s).cooldown = 0 THEN 0 ELSE Drawn(s).cooldown - 1) \in Nat
        BY <4>1
      <4>3. \/ aship' = [Drawn(s) EXCEPT !.cooldown = Cooldown]
            \/ aship' = [Drawn(s) EXCEPT !.cooldown = IF Drawn(s).cooldown = 0 THEN 0 ELSE Drawn(s).cooldown - 1]
        <5>1. aship.state = ALIVE /\ aship.state # DEAD /\ aship.state \in Nat
          BY <1>2, <1>3, <2>1
        <5>2. \/ aship' = [Drawn(aship) EXCEPT !.cooldown = Cooldown]
              \/ aship' = [Drawn(aship) EXCEPT !.cooldown = IF @ = 0 THEN 0 ELSE @ - 1]
          BY <5>1, Zenon DEF doship
        <5>3. QED
          BY <1>2, <5>2
      <4>4. QED
        BY <1>4, <4>2, <4>3
    <3>2. PICK o : o = s.old \cup {pindex}
      OBVIOUS
    <3>3. Drawn(s) = [s EXCEPT !.old = o]
      BY <3>2 DEF Drawn
    <3>4. [s EXCEPT !.old = o] = [state |-> s.state, old |-> o, cooldown |-> s.cooldown]
      BY <1>3
    <3>5. aship' = [state |-> s.state, old |-> o, cooldown |-> c]
      BY <3>1, <3>3, <3>4
    <3>6. images' = [images EXCEPT ![pindex] = @ + 1] /\ respawn' = respawn
      <4>1. aship.state = ALIVE /\ aship.state # DEAD
        BY <1>2, <1>3, <2>1
      <4>2. images' = DrawnImages(aship) /\ respawn' = respawn
        BY <4>1, Zenon DEF doship
      <4>3. QED
        BY <4>2 DEF DrawnImages
    <3>7. aship' \in [state : Nat, old : SUBSET Pages, cooldown : Nat]
      BY <1>1, <1>3, <3>2, <3>5
    <3>8. images' \in [Pages -> Int] /\ respawn' \in BOOLEAN
      BY <1>1, <3>6 DEF TypeInv
    <3>9. ASSUME NEW p \in Pages
          PROVE  images'[p] - On(p, aship') = images[p] - On(p, aship)
      <4>1. images'[p] = (IF p = pindex THEN images[p] + 1 ELSE images[p]) /\ images[p] \in Int
        BY <1>1, <3>6
      <4>2. On(p, aship') = (IF p = pindex THEN 1 ELSE On(p, aship))
        BY <1>2, <3>2, <3>5 DEF On
      <4>3. On(p, aship) \in Nat /\ (p = pindex => On(p, aship) = 0)
        BY <1>2, <1>3 DEF On
      <4>4. QED
        BY <4>1, <4>2, <4>3
    <3>10. aship'.state # DEAD
      BY <2>1, <3>5 DEF ALIVE, DEAD
    <3>11. QED
      BY <3>7, <3>8, <3>9, <3>10
  <2>2. CASE s.state # ALIVE
    <3>1. /\ aship' = [s EXCEPT !.state = @ - 1] /\ images' = images
          /\ respawn' = Respawns(s.state) /\ s.state > DEAD
      BY <1>2, <1>3, <2>2 DEF doship
    <3>2. [s EXCEPT !.state = @ - 1] = [state |-> s.state - 1, old |-> s.old, cooldown |-> s.cooldown]
      BY <1>3
    <3>3. s.state - 1 \in Nat
      BY <1>3, <3>1 DEF DEAD
    <3>4. aship' \in [state : Nat, old : SUBSET Pages, cooldown : Nat] /\ aship'.state = s.state - 1 /\ aship'.old = s.old
      BY <1>3, <3>1, <3>2, <3>3
    <3>5. aship'.state = DEAD => respawn'
      <4>1. aship'.state = DEAD => s.state = DYING_FINISH
        BY <1>3, <3>3, <3>4 DEF DEAD, DYING_FINISH
      <4>2. QED
        BY <3>1, <4>1, Zenon DEF Respawns
    <3>6. respawn' \in BOOLEAN
      BY <3>1 DEF Respawns
    <3>7. \A p \in Pages : images'[p] - On(p, aship') = images[p] - On(p, aship)
      BY <1>2, <3>1, <3>4 DEF On
    <3>8. QED
      BY <1>1, <3>1, <3>4, <3>5, <3>6, <3>7
  <2>3. QED
    BY <2>1, <2>2
<1>7. TypeInv'
  BY <1>1, <1>5, <1>6 DEF TypeInv, LoopNames
<1>8. BulletsInv'
  <2>1. ASSUME NEW b \in DOMAIN bullets'
        PROVE  /\ bullets'[b].state # DEAD
               /\ bullets'[b].state < ALIVE => pindex \notin bullets'[b].old
    <3>1. CASE b \in 1 .. Len(bullets)
      <4>1. BulletIsWhere(bullets[b], TRUE)
        BY <1>1, <3>1, LoopsAreThrough DEF BulletsInv, BulletIsWhere
      <4>2. QED
        BY <1>5, <3>1, <4>1 DEF BulletIsWhere
    <3>2. CASE b \notin 1 .. Len(bullets)
      <4>1. b \in Len(bullets) + 1 .. Len(bullets') /\ b \in 1 .. Len(bullets')
        BY <1>1, <1>5, <2>1, <3>2
      <4>2. bullets'[b] \in Image
        BY <1>5, <4>1, ElementOfSeq
      <4>3. bullets'[b].state \in Nat
        BY <4>2 DEF Image
      <4>4. QED
        BY <1>5, <4>1, <4>3 DEF ALIVE, DEAD
    <3>3. QED
      BY <3>1, <3>2
  <2>2. \A b : Passed(b, "bullets", {"ship", "flip"})'
    BY <1>1 DEF Passed
  <2>3. QED
    BY <1>1, <2>1, <2>2 DEF BulletsInv, BulletIsWhere
<1>9. ShipInv'
  BY <1>1, <1>6 DEF ShipInv
<1>10. NoGhosts'
  <2> SUFFICES ASSUME NEW p \in Pages
               PROVE  images'[p] = Count(bigrocks', p) + Count(mediumrocks', p) + Count(bullets', p) + On(p, aship')
    BY GhostsCounted
  <2>1. images'[p] - On(p, aship') = images[p] - On(p, aship)
    BY <1>6
  <2>2. Count(bullets', p) = Count(bullets, p)
    <3>1. \A b \in 1 .. Len(bullets) : bullets'[b].old = bullets[b].old
      BY <1>5
    <3>2. \A b \in Len(bullets) + 1 .. Len(bullets') : bullets'[b].old = {}
      BY <1>5
    <3>3. QED
      BY <1>1, <1>5, <3>1, <3>2, CountSame
  <2>3. images[p] = Count(bigrocks, p) + Count(mediumrocks, p) + Count(bullets, p) + On(p, aship)
    BY GhostsCounted
  <2>4. Count(bigrocks', p) = Count(bigrocks, p) /\ Count(mediumrocks', p) = Count(mediumrocks, p)
    BY <1>1
  <2>5. Count(bigrocks, p) \in Nat /\ Count(mediumrocks, p) \in Nat /\ Count(bullets, p) \in Nat /\ images[p] \in Int
    BY Counts
  <2>6. images'[p] \in Int /\ On(p, aship') \in Nat /\ On(p, aship) \in Nat
    BY <1>6 DEF On
  <2>7. QED
    BY <2>1, <2>2, <2>3, <2>4, <2>5, <2>6
<1>11. ArraysHold'
  BY <1>1, <1>5 DEF ArraysHold
<1>12. QED
  BY <1>1, <1>7, <1>8, <1>9, <1>10, <1>11, ShipLeavesRocks

-----------------------------------------------------------------------------

\* A game begins with rocks that are on no page, and nothing else.
LEMMA InitIInv == AsteronixInit => IInv
<1> SUFFICES ASSUME AsteronixInit
             PROVE  IInv
  OBVIOUS
<1>1. PICK n \in Rocks : bigrocks = [r \in 1 .. n |-> Sprite(ALIVE + Immortal)]
  BY DEF AsteronixInit
<1>2. PICK s : s = Sprite(ALIVE + Immortal)
  OBVIOUS
<1>3. n \in Nat /\ s \in Image /\ s.state >= ALIVE /\ s.state # DEAD /\ s.old = {}
  BY <1>2, AsteronixAssumption DEF Sprite, Image, ALIVE, DEAD
<1>4. /\ bigrocks \in Seq(Image)
      /\ \A r \in DOMAIN bigrocks : bigrocks[r] = s
  BY <1>1, <1>2, <1>3
<1>5. TypeInv
  BY <1>4 DEF AsteronixInit, TypeInv, DEAD, Pages, LoopNames
<1>6. BigInv
  <2>1. \A r : ~Passed(r, "big", {"medium", "drawbig", "drawmedium", "bullets", "ship", "flip"})
               /\ ~Passed(r, "drawbig", {"drawmedium", "bullets", "ship", "flip"})
    BY DEF AsteronixInit, Passed
  <2>2. QED
    BY <1>3, <1>4, <2>1 DEF BigInv, BigIsWhere, RockIsWhere
<1>7. MediumInv /\ BulletsInv /\ ShipInv
  BY DEF AsteronixInit, MediumInv, BulletsInv, ShipInv
<1>8. NoGhosts
  <2> SUFFICES ASSUME NEW p \in Pages
               PROVE  images[p] = Count(bigrocks, p) + Count(mediumrocks, p) + Count(bullets, p) + On(p, aship)
    BY GhostsCounted
  <2>1. Holders(bigrocks, p) = {} /\ Holders(mediumrocks, p) = {} /\ Holders(bullets, p) = {}
    BY <1>3, <1>4 DEF AsteronixInit, Holders
  <2>2. Count(bigrocks, p) = 0 /\ Count(mediumrocks, p) = 0 /\ Count(bullets, p) = 0
    BY <2>1, FS_EmptySet DEF Count
  <2>3. images[p] = 0 /\ On(p, aship) = 0
    BY DEF AsteronixInit, Pages, On
  <2>4. QED
    BY <2>2, <2>3
<1>9. ArraysHold
  BY AsteronixAssumption DEF AsteronixInit, ArraysHold
<1>10. QED
  BY <1>5, <1>6, <1>7, <1>8, <1>9 DEF IInv

\* No step of a frame breaks the invariant.
LEMMA NextIInv == IInv /\ [AsteronixNext]_asteronixVars => IInv'
<1> SUFFICES ASSUME IInv, [AsteronixNext]_asteronixVars
             PROVE  IInv'
  OBVIOUS
<1>1. CASE UNCHANGED asteronixVars
  <2>1. TypeInv' /\ BigInv' /\ MediumInv' /\ BulletsInv'
    BY <1>1 DEF asteronixVars, IInv, TypeInv, BigInv, BigIsWhere, MediumInv, MediumIsWhere, RockIsWhere,
                BulletsInv, BulletIsWhere, Passed
  <2>2. ShipInv' /\ NoGhosts' /\ ArraysHold'
    BY <1>1 DEF asteronixVars, IInv, ShipInv, NoGhosts, Holders, ArraysHold
  <2>3. QED
    BY <2>1, <2>2 DEF IInv
<1>2. QED
  BY <1>1, FrameKeeps, HitBigKeeps, HitMediumKeeps, DrawBigKeeps, DrawMediumKeeps, DoBulletKeeps,
     NextLoopKeeps, NewShipKeeps, DoShipKeeps, FlipKeeps, Zenon DEF AsteronixNext

\* In every game: no image is left behind on a page, every rock that can be hit
\* is on the page that is shown, a ship that is gone comes back, and the arrays
\* hold what is put into them.
THEOREM GameIsRight == AsteronixSpec => []AsteronixIsRight
<1>1. IInv => AsteronixIsRight
  <2> SUFFICES ASSUME IInv
               PROVE  AsteronixIsRight
    OBVIOUS
  <2> USE DEF IInv
  <2>1. RocksAreShown
    BY LoopsAreThrough DEF RocksAreShown, BigInv, BigIsWhere, MediumInv, MediumIsWhere, RockIsWhere
  <2>2. ShipComesBack
    BY DEF ShipComesBack, ShipInv
  <2>3. QED
    BY <2>1, <2>2 DEF AsteronixIsRight
<1>2. QED
  BY <1>1, InitIInv, NextIInv, PTL DEF AsteronixSpec

-----------------------------------------------------------------------------
\* The disk defragmenter's search for free blocks

\* The bytes of a run at p, of those a file of n blocks needs, that are in use.
Occupied(p, n) == {j \in 0 .. ((n + Bits - 1) \div Bits) - 1 : InUse(p + j)}

\* Where the search goes on behind p, in a search whose results are s.
Searched(s, p, n) ==
    IF p >= mapsize THEN 0
    ELSE IF Occupied(p, n) = {} THEN MinVld + p * Bits - FreeBefore(p)
    ELSE s[p + Max(Occupied(p, n)) + 1]

\* Numbers up to a bound have a smallest and a largest among them.
LEMMA Extremes ==
    ASSUME NEW k \in Int, NEW S \in SUBSET (0 .. k), S # {}
    PROVE  /\ Max(S) \in S /\ \A x \in S : x <= Max(S)
           /\ Min(S) \in S /\ \A x \in S : Min(S) <= x
<1>1. k \in Nat /\ \A x \in S : x \in 0 .. k
  <2>1. \A x \in S : x \in 0 .. k
    OBVIOUS
  <2>2. PICK x : x \in S
    BY Zenon
  <2>3. QED
    BY <2>1, <2>2
<1>2. \E m \in S : \A x \in S : m <= x
  <2>1. S \in SUBSET Nat
    BY <1>1
  <2>2. QED
    BY <2>1, LeastNatural
<1>3. \E m \in S : \A x \in S : m >= x
  <2> DEFINE R == {i \in Nat : \E x \in S : i = k - x}
  <2>1. R \in SUBSET Nat /\ \A x \in S : k - x \in R
    BY <1>1
  <2>2. R # {}
    BY <2>1
  <2> HIDE DEF R
  <2>3. PICK i \in R : \A m \in R : i <= m
    BY <2>1, <2>2, LeastNatural
  <2>4. PICK m \in S : i = k - m
    BY <2>3 DEF R
  <2>5. \A x \in S : k - m <= k - x
    BY <2>1, <2>3, <2>4
  <2>6. QED
    BY <1>1, <2>5
<1>4. Max(S) \in S /\ \A x \in S : Max(S) >= x
  BY <1>3, Zenon DEF Max
<1>5. Min(S) \in S /\ \A x \in S : Min(S) =< x
  BY <1>2, Zenon DEF Min
<1>6. QED
  BY <1>1, <1>4, <1>5

\* The bytes of the map, and those a file needs.
LEMMA BytesAre ==
    ASSUME NEW n \in Nat
    PROVE  /\ Bits \in Nat \ {0} /\ mapsize \in Nat /\ MinVld \in Nat
           /\ (n + Bits - 1) \div Bits \in Nat
           /\ \A i \in 0 .. n - 1 :
                 /\ i \div Bits \in 0 .. ((n + Bits - 1) \div Bits) - 1
                 /\ (i \div Bits) * Bits <= i /\ i <= (i \div Bits) * Bits + Bits - 1
<1>1. Bits \in Nat \ {0} /\ LastBlk \in Nat /\ MinVld \in Nat
  BY DefragAssumption
<1>2. \A a \in Nat, b \in Nat \ {0} : /\ a \div b \in Nat
                                      /\ (a \div b) * b <= a /\ a <= (a \div b) * b + b - 1
  OBVIOUS
<1>3. mapsize \in Nat
  BY <1>1, <1>2 DEF mapsize
<1>4. (n + Bits - 1) \div Bits \in Nat
  BY <1>1, <1>2
<1>5. ASSUME NEW i \in 0 .. n - 1
      PROVE  i \div Bits < (n + Bits - 1) \div Bits
  <2> DEFINE q == i \div Bits
             r == (n + Bits - 1) \div Bits
  <2>1. q \in Nat /\ q * Bits <= i
    <3>1. i \in Nat
      OBVIOUS
    <3>2. QED
      BY <1>1, <1>2, <3>1
  <2>2. r \in Nat /\ n + Bits - 1 <= r * Bits + Bits - 1
    <3>1. n + Bits - 1 \in Nat
      BY <1>1
    <3> HIDE DEF q
    <3>2. QED
      BY <1>1, <1>2, <3>1
  <2> HIDE DEF q, r
  <2>3. q * Bits \in Int /\ r * Bits \in Int
    BY <1>1, <2>1, <2>2
  <2>4. q * Bits < r * Bits
    BY <1>1, <2>1, <2>2, <2>3
  <2>5. q < r
    <3> SUFFICES ASSUME r <= q PROVE FALSE
      BY <2>1, <2>2
    <3>1. r * Bits <= q * Bits
      BY <1>1, <2>1, <2>2
    <3>2. QED
      BY <2>3, <2>4, <3>1
  <2>6. QED
    BY <2>5 DEF q, r
<1>6. ASSUME NEW i \in 0 .. n - 1
      PROVE  i \div Bits \in Nat /\ (i \div Bits) * Bits <= i /\ i <= (i \div Bits) * Bits + Bits - 1
  <2>1. i \in Nat
    OBVIOUS
  <2>2. QED
    BY <1>1, <1>2, <2>1
<1>7. ASSUME NEW i \in 0 .. n - 1
      PROVE  i \div Bits \in 0 .. ((n + Bits - 1) \div Bits) - 1
  <2> DEFINE q == i \div Bits
             r == (n + Bits - 1) \div Bits
  <2>1. q \in Nat /\ r \in Nat /\ q < r
    BY <1>4, <1>5, <1>6
  <2> HIDE DEF q, r
  <2>2. q \in 0 .. r - 1
    BY <2>1
  <2>3. QED
    BY <2>2 DEF q, r
<1>8. QED
  BY <1>1, <1>3, <1>4, <1>6, <1>7

\* A search that does not stop goes on behind where it is.
LEMMA GoesOn ==
    ASSUME NEW n \in Nat, NEW p \in Nat, Occupied(p, n) # {}
    PROVE  p + Max(Occupied(p, n)) + 1 \in Nat /\ p + Max(Occupied(p, n)) + 1 > p
<1>1. (n + Bits - 1) \div Bits \in Nat
  BY BytesAre
<1>2. Occupied(p, n) \in SUBSET (0 .. ((n + Bits - 1) \div Bits) - 1)
  BY DEF Occupied
<1>3. Max(Occupied(p, n)) \in Nat
  <2> DEFINE k == ((n + Bits - 1) \div Bits) - 1
  <2>1. k \in Int
    BY <1>1
  <2> HIDE DEF k
  <2>2. Max(Occupied(p, n)) \in Occupied(p, n)
    BY <1>2, <2>1, Extremes DEF k
  <2>3. QED
    BY <1>1, <1>2, <2>2
<1>4. QED
  BY <1>3

\* There is such a search: its results are those of the positions behind.
LEMMA SearchIs ==
    ASSUME NEW n \in Nat
    PROVE  \E s : /\ \A p \in Nat : s[p] = Searched(s, p, n)
                  /\ findcontiguous(n) = s[0]
<1> DEFINE Found == {0} \cup {MinVld + p * Bits - FreeBefore(p) : p \in Nat}
           V == [Nat -> Found]
           onward == [j \in 1 .. mapsize |->
                       [s \in V |-> [p \in Nat |-> IF p = mapsize - j THEN Searched(s, p, n) ELSE s[p]]]]
           Body(s) == [p \in Nat |-> Searched(s, p, n)]
           scan == CHOOSE s : s = Body(s)
<1>1. mapsize \in Nat
  BY BytesAre
<1>2. \A s \in V : \A p \in Nat : Searched(s, p, n) \in Found
  BY GoesOn DEF Searched
<1>3. [p \in Nat |-> 0] \in V
  OBVIOUS
<1>4. onward \in [1 .. mapsize -> [V -> V]]
  <2>1. ASSUME NEW j \in 1 .. mapsize, NEW s \in V
        PROVE  [p \in Nat |-> IF p = mapsize - j THEN Searched(s, p, n) ELSE s[p]] \in V
    BY <1>2
  <2> HIDE DEF V
  <2>2. QED
    BY <2>1
<1>5. \A j \in 1 .. mapsize : \A s \in V : \A p \in Nat :
         onward[j][s][p] = IF p = mapsize - j THEN Searched(s, p, n) ELSE s[p]
  <2>1. \A j \in 1 .. mapsize : \A s \in V :
           onward[j][s] = [p \in Nat |-> IF p = mapsize - j THEN Searched(s, p, n) ELSE s[p]]
    <3> HIDE DEF V
    <3>1. QED
      BY Zenon
  <2> HIDE DEF onward
  <2>2. ASSUME NEW j \in 1 .. mapsize, NEW s \in V, NEW p \in Nat
        PROVE  onward[j][s][p] = IF p = mapsize - j THEN Searched(s, p, n) ELSE s[p]
    <3> HIDE DEF V
    <3>1. onward[j][s] = [x \in Nat |-> IF x = mapsize - j THEN Searched(s, x, n) ELSE s[x]]
      BY <2>1
    <3>2. QED
      BY <3>1
  <2>3. QED
    BY <2>2, Zenon
<1> HIDE DEF V, onward
<1>6. PICK f \in [0 .. mapsize -> V] : f[0] = [p \in Nat |-> 0] /\ \A j \in 1 .. mapsize : f[j] = onward[j][f[j - 1]]
  <2>1. Recursive(mapsize, V)
    BY <1>1, RecursionIs
  <2>2. QED
    BY <1>3, <1>4, <2>1, Zenon DEF Recursive
<1> DEFINE Solved == {j \in 0 .. mapsize : \A p \in Nat : p >= mapsize - j => f[j][p] = Searched(f[j], p, n)}
<1>7. 0 \in Solved
  BY <1>1, <1>6 DEF Searched
<1>8. ASSUME NEW j \in 1 .. mapsize, j - 1 \in Solved
      PROVE  j \in Solved
  <2>1. f[j - 1] \in V /\ j - 1 \in 0 .. mapsize /\ f[j] = onward[j][f[j - 1]]
    BY <1>1, <1>6
  <2>2. \A p \in Nat : f[j][p] = IF p = mapsize - j THEN Searched(f[j - 1], p, n) ELSE f[j - 1][p]
    BY <1>5, <2>1
  <2>3. ASSUME NEW p \in Nat, p >= mapsize - j
        PROVE  Searched(f[j], p, n) = Searched(f[j - 1], p, n)
    <3>1. CASE p >= mapsize \/ Occupied(p, n) = {}
      BY <3>1 DEF Searched
    <3>2. CASE p < mapsize /\ Occupied(p, n) # {}
      <4>1. PICK q : q = p + Max(Occupied(p, n)) + 1
        OBVIOUS
      <4>2. q \in Nat /\ q > p
        BY <3>2, <4>1, GoesOn
      <4>3. q # mapsize - j
        BY <1>1, <2>3, <4>2
      <4>4. f[j][q] = f[j - 1][q]
        BY <2>2, <4>2, <4>3
      <4>5. QED
        BY <3>2, <4>1, <4>4 DEF Searched
    <3>3. QED
      BY <1>1, <3>1, <3>2
  <2>4. ASSUME NEW p \in Nat, p >= mapsize - j
        PROVE  f[j][p] = Searched(f[j - 1], p, n)
    <3>1. CASE p = mapsize - j
      BY <2>2, <3>1
    <3>2. CASE p # mapsize - j
      <4>1. p >= mapsize - (j - 1)
        BY <1>1, <2>4, <3>2
      <4>2. f[j - 1][p] = Searched(f[j - 1], p, n)
        BY <1>8, <4>1
      <4>3. QED
        BY <2>2, <3>2, <4>2
    <3>3. QED
      BY <3>1, <3>2
  <2>5. QED
    BY <2>3, <2>4
<1> HIDE DEF Solved
<1>9. mapsize \in Solved
  <2>1. \A j \in 0 .. mapsize : j \in Solved
    BY <1>1, <1>7, <1>8, CountUp, Zenon
  <2>2. QED
    BY <1>1, <2>1
<1>10. \A p \in Nat : f[mapsize][p] = Searched(f[mapsize], p, n)
  BY <1>1, <1>9 DEF Solved
<1>11. \E s : s = Body(s)
  <2>1. f[mapsize] \in V
    BY <1>1, <1>6
  <2>2. f[mapsize] = [p \in Nat |-> f[mapsize][p]]
    BY <2>1 DEF V
  <2>3. f[mapsize] = Body(f[mapsize])
    BY <1>10, <2>2
  <2>4. QED
    BY <2>3, Zenon
<1>12. scan = Body(scan)
  <2> HIDE DEF Body
  <2>1. QED
    BY <1>11, Zenon
<1>13. findcontiguous(n) = scan[0]
  BY Zenon DEF findcontiguous, Searched, Occupied
<1> HIDE DEF scan
<1>14. \A p \in Nat : scan[p] = Searched(scan, p, n)
  <2>1. PICK s : s = scan
    OBVIOUS
  <2>2. s = Body(s)
    BY <1>12, <2>1, Zenon
  <2>3. \A p \in Nat : s[p] = Searched(s, p, n)
    <3>1. ASSUME NEW p \in Nat PROVE Body(s)[p] = Searched(s, p, n)
      OBVIOUS
    <3> HIDE DEF Body
    <3>2. QED
      BY <2>2, <3>1
  <2>4. QED
    BY <2>1, <2>3, Zenon
<1>15. QED
  BY <1>13, <1>14, Zenon

\* What is found is the first address of a free run of bytes, less what is free before it.
LEMMA FoundIs ==
    ASSUME NEW n \in Nat, findcontiguous(n) # 0
    PROVE  \E q \in Nat : /\ q < mapsize /\ Occupied(q, n) = {}
                          /\ findcontiguous(n) = MinVld + q * Bits - FreeBefore(q)
<1>1. mapsize \in Nat
  BY BytesAre
<1>2. PICK s : (\A p \in Nat : s[p] = Searched(s, p, n)) /\ findcontiguous(n) = s[0]
  BY SearchIs
<1> DEFINE Free(p) == s[p] # 0 => \E q \in Nat : /\ q < mapsize /\ Occupied(q, n) = {}
                                                /\ s[p] = MinVld + q * Bits - FreeBefore(q)
           S == {j \in 0 .. mapsize : \A p \in Nat : p >= mapsize - j => Free(p)}
<1>3. 0 \in S
  <2>1. \A p \in Nat : p >= mapsize => s[p] = 0
    BY <1>2 DEF Searched
  <2>2. QED
    BY <1>1, <2>1
<1>4. ASSUME NEW j \in 1 .. mapsize, j - 1 \in S
      PROVE  j \in S
  <2>1. \A p \in Nat : p >= mapsize - (j - 1) => Free(p)
    BY <1>4
  <2>2. ASSUME NEW p \in Nat, p = mapsize - j
        PROVE  Free(p)
    <3>1. p < mapsize
      BY <1>1, <2>2
    <3>2. CASE Occupied(p, n) = {}
      <4>1. s[p] = MinVld + p * Bits - FreeBefore(p)
        BY <1>2, <3>1, <3>2, <1>1 DEF Searched
      <4>2. QED
        BY <3>1, <3>2, <4>1
    <3>3. CASE Occupied(p, n) # {}
      <4>1. PICK r : r = p + Max(Occupied(p, n)) + 1
        OBVIOUS
      <4>2. r \in Nat /\ r > p
        BY <3>3, <4>1, GoesOn
      <4>3. s[p] = s[r]
        <5>1. s[p] = Searched(s, p, n)
          BY <1>2
        <5>2. QED
          BY <3>1, <3>3, <4>1, <5>1, <1>1 DEF Searched
      <4>4. Free(r)
        <5>1. r >= mapsize - (j - 1)
          BY <1>1, <2>2, <4>2
        <5> HIDE DEF Free
        <5>2. QED
          BY <2>1, <4>2, <5>1
      <4>5. QED
        BY <4>3, <4>4
    <3>4. QED
      BY <3>2, <3>3
  <2>3. \A p \in Nat : p >= mapsize - j => Free(p)
    <3> HIDE DEF Free
    <3>1. \A p \in Nat : p >= mapsize - j => p = mapsize - j \/ p >= mapsize - (j - 1)
      BY <1>1
    <3>2. QED
      BY <2>1, <2>2, <3>1
  <2>4. QED
    BY <2>3
<1> HIDE DEF S
<1>5. mapsize \in S
  <2>1. \A j \in 0 .. mapsize : j \in S
    BY <1>1, <1>3, <1>4, CountUp, Zenon
  <2>2. QED
    BY <1>1, <2>1
<1>6. Free(0)
  <2>1. \A p \in Nat : p >= mapsize - mapsize => Free(p)
    BY <1>5 DEF S
  <2> HIDE DEF Free
  <2>2. QED
    BY <1>1, <2>1
<1>7. QED
  BY <1>2, <1>6

\* The blocks before a byte that are packed to are free.
LEMMA PackedIsFree ==
    ASSUME used \subseteq Int, NEW q \in Nat \ {0}
    PROVE  /\ FreeBefore(q) \in 0 .. Bits - 1
           /\ \A k \in 0 .. FreeBefore(q) - 1 : q * Bits - 1 - k \notin used
<1> DEFINE taken == {k \in 0 .. Bits - 1 : q * Bits - 1 - k \in used}
<1>1. Bits \in Nat \ {0}
  BY DefragAssumption
<1>2. FreeBefore(q) = IF taken = {} THEN 0 ELSE Min(taken)
  BY DEF FreeBefore
<1>3. CASE taken = {}
  BY <1>1, <1>2, <1>3
<1>4. CASE taken # {}
  <2>1. taken \in SUBSET (0 .. Bits - 1) /\ Bits - 1 \in Int
    BY <1>1
  <2>2. \A k \in 0 .. Bits - 1 : q * Bits - 1 - k \in used => k \in taken
    OBVIOUS
  <2> HIDE DEF taken
  <2>3. Min(taken) \in taken /\ \A k \in taken : Min(taken) <= k
    BY <1>4, <2>1, Extremes
  <2>4. FreeBefore(q) \in 0 .. Bits - 1 /\ \A k \in taken : FreeBefore(q) <= k
    BY <1>2, <1>4, <2>1, <2>3
  <2>5. ASSUME NEW k \in 0 .. FreeBefore(q) - 1
        PROVE  q * Bits - 1 - k \notin used
    <3>1. k \in 0 .. Bits - 1 /\ ~(FreeBefore(q) <= k)
      BY <1>1, <2>4
    <3>2. QED
      BY <2>2, <2>4, <3>1
  <2>6. QED
    BY <2>4, <2>5
<1>5. QED
  BY <1>3, <1>4

\* "assumes block0 always in used": then, for every map, whatever lies before and
\* behind it, and every number of blocks, the run findcontiguous returns is free, the
\* blocks it packs to before its first byte included.
THEOREM FoundRunIsFree ==
    ASSUME used \subseteq Int, 0 \in used, NEW n \in Nat, findcontiguous(n) # 0
    PROVE  Taken(findcontiguous(n), n) \cap used = {}
<1>1. PICK q \in Nat : /\ q < mapsize /\ Occupied(q, n) = {}
                       /\ findcontiguous(n) = MinVld + q * Bits - FreeBefore(q)
  BY FoundIs
<1>2. Bits \in Nat \ {0} /\ MinVld \in Nat /\ (n + Bits - 1) \div Bits \in Nat
  BY BytesAre
<1> SUFFICES ASSUME NEW j \in 0 .. n - 1
             PROVE  BitOf(findcontiguous(n) + j) \notin used
  BY DEF Taken
<1>3. \A e \in 0 .. ((n + Bits - 1) \div Bits) - 1 : ~InUse(q + e)
  BY <1>1 DEF Occupied
<1>4. q # 0
  <2> SUFFICES ASSUME q = 0 PROVE FALSE
    OBVIOUS
  <2>1. j \div Bits \in 0 .. ((n + Bits - 1) \div Bits) - 1
    BY BytesAre
  <2>2. 0 \in 0 .. ((n + Bits - 1) \div Bits) - 1
    BY <1>2, <2>1
  <2>3. ~InUse(0)
    BY <1>3, <2>2
  <2>4. 0 \in 0 * Bits .. 0 * Bits + Bits - 1
    BY <1>2
  <2>5. QED
    BY <2>3, <2>4 DEF InUse
<1>5. /\ FreeBefore(q) \in 0 .. Bits - 1
      /\ \A k \in 0 .. FreeBefore(q) - 1 : q * Bits - 1 - k \notin used
  BY <1>4, PackedIsFree
<1>6. PICK g \in 0 .. Bits - 1 : g = FreeBefore(q)
  BY <1>5
<1>7. PICK w : w = q * Bits
  OBVIOUS
<1>8. w \in Nat
  BY <1>2, <1>7
<1>9. BitOf(findcontiguous(n) + j) = w - g + j
  BY <1>1, <1>2, <1>6, <1>7, <1>8 DEF BitOf
<1>10. CASE j < g
  <2>1. g - 1 - j \in 0 .. g - 1
    BY <1>2, <1>10
  <2>2. w - 1 - (g - 1 - j) \notin used
    BY <1>5, <1>6, <1>7, <2>1
  <2>3. w - 1 - (g - 1 - j) = w - g + j
    BY <1>2, <1>8
  <2>4. QED
    BY <1>9, <2>2, <2>3
<1>11. CASE j >= g
  <2>1. PICK i \in 0 .. n - 1 : i = j - g
    BY <1>2, <1>11
  <2>2. PICK e \in 0 .. ((n + Bits - 1) \div Bits) - 1 : e * Bits <= i /\ i <= e * Bits + Bits - 1
    BY <2>1, BytesAre
  <2>3. \A k \in (q + e) * Bits .. (q + e) * Bits + Bits - 1 : k \notin used
    BY <1>3, <2>2 DEF InUse
  <2>4. (q + e) * Bits = w + e * Bits /\ e * Bits \in Nat
    BY <1>2, <1>7, <2>2
  <2>5. w + i \in (q + e) * Bits .. (q + e) * Bits + Bits - 1
    BY <1>2, <1>8, <2>1, <2>2, <2>4
  <2>6. w + i = w - g + j
    BY <1>2, <1>8, <2>1
  <2>7. QED
    BY <1>9, <2>3, <2>5, <2>6
<1>12. QED
  BY <1>2, <1>10, <1>11

\* So a move with block 0 in use takes no block that is held: the message
\* "findcontiguous wrong" is not printed.
THEOREM MoveIntoFree ==
    ASSUME FoundIsFree, Move, used \subseteq Int, 0 \in used, Len(Layout(disk, candidates[at])) \in Nat
    PROVE  FoundIsFree'
<1> DEFINE old == Layout(disk, candidates[at])
           new == findcontiguous(Len(old))
           freed == used \ {BitOf(b) : b \in Range(old)}
<1>1. CASE new = 0
  <2>1. wrong' = wrong
    BY <1>1 DEF Move
  <2>2. QED
    BY <2>1 DEF FoundIsFree
<1>2. CASE new # 0
  <2>1. wrong' = (wrong \/ freed \cap Taken(new, Len(old)) # {})
    BY <1>2, Zenon DEF Move
  <2>2. Taken(new, Len(old)) \cap used = {}
    BY <1>2, FoundRunIsFree
  <2> HIDE DEF new, old
  <2>3. freed \cap Taken(new, Len(old)) = {}
    BY <2>2
  <2>4. QED
    BY <2>1, <2>3, Zenon DEF FoundIsFree
<1>3. QED
  BY <1>1, <1>2

-----------------------------------------------------------------------------
\* A terminal with its screen, and what is true of the lines of it that count.
Cells == Glyphs \cup {Blank}
Screens == [Row -> [Col -> Cells]]
Vts == [cx : Int, cy : Int, sx : Int, sy : Int, wrapping : BOOLEAN, margintop : Row, marginbot : Row,
        buffer : Screens, dirty : SUBSET Row, length : [Row -> Int]]
States == [vt : Vts, screen : Screens, torn : SUBSET Row]

Shows(s) == \A r \in Row : r \notin s.torn /\ r \notin s.vt.dirty => s.screen[r] = s.vt.buffer[r]

Truthful(s) == s \in States /\ Shows(s)

\* The fields of a terminal.
LEMMA FieldsAre ==
    ASSUME NEW v \in Vts
    PROVE  /\ v.cx \in Int /\ v.cy \in Int /\ v.sx \in Int /\ v.sy \in Int /\ v.wrapping \in BOOLEAN
           /\ v.margintop \in Row /\ v.marginbot \in Row /\ v.buffer \in Screens
           /\ v.dirty \in SUBSET Row /\ v.length \in [Row -> Int]
  BY DEF Vts

\* The terminal changes and the screen does not: the lines whose text changes are
\* marked, as dirty or as torn.
LEMMA AlteredIs ==
    ASSUME NEW s, Truthful(s), NEW u \in Vts, NEW o \in SUBSET Row, s.vt.dirty \subseteq u.dirty, s.torn \subseteq o,
           \A r \in Row : r \notin u.dirty /\ r \notin o => u.buffer[r] = s.vt.buffer[r]
    PROVE  Truthful([s EXCEPT !.vt = u, !.torn = o])
<1> DEFINE t == [s EXCEPT !.vt = u, !.torn = o]
<1>1. s \in [vt : Vts, screen : Screens, torn : SUBSET Row]
  BY DEF Truthful, States
<1>2. t \in States /\ t.vt = u /\ t.screen = s.screen /\ t.torn = o
  BY <1>1 DEF States
<1>3. QED
  BY <1>2 DEF Truthful, Shows

\* The same when no line is torn.
LEMMA AlteredAlone ==
    ASSUME NEW s, Truthful(s), NEW u \in Vts, s.vt.dirty \subseteq u.dirty,
           \A r \in Row : r \notin u.dirty => u.buffer[r] = s.vt.buffer[r]
    PROVE  Truthful([s EXCEPT !.vt = u])
<1> DEFINE t == [s EXCEPT !.vt = u]
<1>1. s \in [vt : Vts, screen : Screens, torn : SUBSET Row]
  BY DEF Truthful, States
<1>2. t \in States /\ t.vt = u /\ t.screen = s.screen /\ t.torn = s.torn
  BY <1>1 DEF States
<1>3. QED
  BY <1>2 DEF Truthful, Shows

\* After drawing, the lines that are not torn show what the buffer holds, the
\* dirty ones too.
LEMMA DrawnIs ==
    ASSUME NEW s, Truthful(s)
    PROVE  /\ Rendered(s) \in States /\ Rendered(s).vt = s.vt
           /\ \A r \in Row : r \notin Rendered(s).torn => Rendered(s).screen[r] = s.vt.buffer[r]
<1> DEFINE w == [r \in Row |-> [c \in Col |->
                    IF r \in s.vt.dirty /\ c <= s.vt.length[r] THEN s.vt.buffer[r][c]
                    ELSE IF s.vt.dirty = Row THEN Blank ELSE s.screen[r][c]]]
           o == (s.torn \ s.vt.dirty) \cup {r \in s.vt.dirty : Short(s, r)}
<1>1. Rendered(s) = [s EXCEPT !.torn = o, !.screen = w]
  BY Zenon DEF Rendered
<1>2. s \in [vt : Vts, screen : Screens, torn : SUBSET Row] /\ s.vt \in Vts
  BY DEF Truthful, States
<1>3. /\ s.screen \in [Row -> [Col -> Cells]] /\ s.vt.buffer \in [Row -> [Col -> Cells]]
      /\ s.vt.dirty \in SUBSET Row /\ s.torn \in SUBSET Row /\ s.vt.length \in [Row -> Int]
  BY <1>2, FieldsAre DEF Screens
<1>4. w \in Screens
  <2>1. Blank \in Cells
    BY DEF Cells
  <2>2. ASSUME NEW r \in Row, NEW c \in Col PROVE s.screen[r][c] \in Cells /\ s.vt.buffer[r][c] \in Cells
    BY <1>3
  <2>3. QED
    BY <2>1, <2>2 DEF Screens
<1>5. o \in SUBSET Row
  BY <1>3
<1> HIDE DEF w, o
<1>6. Rendered(s) \in States /\ Rendered(s).vt = s.vt /\ Rendered(s).screen = w /\ Rendered(s).torn = o
  BY <1>1, <1>2, <1>4, <1>5 DEF States
<1>7. ASSUME NEW r \in Row, r \notin o PROVE w[r] = s.vt.buffer[r]
  <2>1. CASE r \in s.vt.dirty
    <3>1. \A c \in Col : c > s.vt.length[r] => s.vt.buffer[r][c] = Blank /\ s.screen[r][c] = Blank
      BY <1>7, <2>1 DEF o, Short
    <3>2. \A c \in Col : w[r][c] = s.vt.buffer[r][c]
      <4>1. ASSUME NEW c \in Col PROVE w[r][c] = s.vt.buffer[r][c]
        <5>1. c <= s.vt.length[r] \/ c > s.vt.length[r]
          BY <1>3 DEF Col
        <5>2. QED
          BY <2>1, <3>1, <5>1 DEF w
      <4>2. QED
        BY <4>1
    <3>3. w[r] \in [Col -> Cells] /\ s.vt.buffer[r] \in [Col -> Cells]
      BY <1>3, <1>4 DEF Screens
    <3>4. QED
      BY <3>2, <3>3
  <2>2. CASE r \notin s.vt.dirty
    <3>1. s.screen[r] = s.vt.buffer[r]
      BY <1>7, <2>2 DEF Truthful, Shows, o
    <3>2. w[r] = [c \in Col |-> s.screen[r][c]]
      <4>1. s.vt.dirty # Row
        BY <2>2
      <4>2. QED
        BY <2>2, <4>1 DEF w
    <3>3. s.screen[r] \in [Col -> Cells]
      BY <1>3
    <3>4. QED
      BY <3>1, <3>2, <3>3
  <2>3. QED
    BY <2>1, <2>2
<1>8. QED
  BY <1>6, <1>7

\* Lines moved within the window.
LEMMA ShiftedIs ==
    ASSUME NEW V, NEW f \in [Row -> V], NEW dst \in Int, NEW src \in Int, NEW n \in Int, 0 <= src, src + n <= Rows
    PROVE  /\ Shifted(f, dst, src, n) \in [Row -> V]
           /\ \A r \in Row : r \in dst .. dst + n - 1 => src + r - dst \in Row /\ Shifted(f, dst, src, n)[r] = f[src + r - dst]
           /\ \A r \in Row : r \notin dst .. dst + n - 1 => Shifted(f, dst, src, n)[r] = f[r]
<1>1. ASSUME NEW r \in Row, r \in dst .. dst + n - 1 PROVE src + r - dst \in Row
  BY <1>1, TerminalAssumption DEF Row
<1>2. QED
  BY <1>1 DEF Shifted

\* Lines are moved, on the screen too, and those that are left behind are dirty.
LEMMA LinesMove ==
    ASSUME NEW s, Truthful(s), NEW dst \in Int, NEW src \in Int, NEW n \in Int,
           dst <= Rows, 0 <= dst + n, 0 <= src, src + n <= Rows
    PROVE  /\ Truthful(VTmovelines(s, dst, src, n))
           /\ VTmovelines(s, dst, src, n).vt.cy = s.vt.cy /\ VTmovelines(s, dst, src, n).vt.cx = s.vt.cx
           /\ VTmovelines(s, dst, src, n).vt.margintop = s.vt.margintop
           /\ VTmovelines(s, dst, src, n).vt.marginbot = s.vt.marginbot
<1> DEFINE t == VTmovelines(s, dst, src, n)
           d == Rendered(s)
           behind == Uncovered(dst, src, n)
           b == Shifted(s.vt.buffer, dst, src, n)
           e == (s.vt.dirty \ (dst .. dst + n - 1)) \cup behind
           l == [r \in Row |-> IF r \in behind THEN 0 ELSE Shifted(s.vt.length, dst, src, n)[r]]
           w == Shifted(d.screen, dst, src, n)
           o == {r \in Row : Shifted([q \in Row |-> q \in d.torn], dst, src, n)[r]}
<1>1. CASE dst < 0 \/ dst + n > Rows
  <2>1. t = s
    BY <1>1 DEF VTmovelines
  <2>2. QED
    BY <2>1
<1>2. CASE ~(dst < 0 \/ dst + n > Rows)
  <2>1. d \in States /\ d.vt = s.vt /\ \A r \in Row : r \notin d.torn => d.screen[r] = s.vt.buffer[r]
    BY DrawnIs
  <2>2. /\ d \in [vt : Vts, screen : Screens, torn : SUBSET Row] /\ s.vt \in Vts
        /\ d.screen \in Screens /\ d.torn \in SUBSET Row
    BY <2>1 DEF States
  <2>3. s.vt.buffer \in Screens /\ s.vt.length \in [Row -> Int] /\ s.vt.dirty \in SUBSET Row
    BY <2>2, FieldsAre
  <2> HIDE DEF d
  <2>4. PICK m : m = [d EXCEPT !.screen = w]
    OBVIOUS
  <2>5. m = movedisplaylines(s, dst, src, n)
    BY <2>4 DEF movedisplaylines, d
  <2>6. m.vt = s.vt /\ m.torn = d.torn
    BY <2>1, <2>2, <2>4
  <2>7. t = [m EXCEPT !.vt.buffer = b, !.vt.dirty = e, !.vt.length = l, !.torn = o]
    <3>1. t = [m EXCEPT !.vt.buffer = Shifted(m.vt.buffer, dst, src, n),
                        !.vt.dirty = (m.vt.dirty \ (dst .. dst + n - 1)) \cup behind,
                        !.vt.length = [r \in Row |-> IF r \in behind THEN 0 ELSE Shifted(m.vt.length, dst, src, n)[r]],
                        !.torn = {r \in Row : Shifted([q \in Row |-> q \in m.torn], dst, src, n)[r]}]
      BY <1>2, <2>5, Zenon DEF VTmovelines
    <3>2. QED
      BY <2>6, <3>1, Zenon
  <2>8. behind \subseteq Row
    BY <1>2, TerminalAssumption DEF Uncovered, Row
  <2>9. b \in Screens /\ w \in Screens
    BY <2>2, <2>3, ShiftedIs, Zenon DEF Screens
  <2>10. e \in SUBSET Row /\ o \in SUBSET Row
    BY <2>3, <2>8
  <2>11. l \in [Row -> Int]
    <3>1. Shifted(s.vt.length, dst, src, n) \in [Row -> Int]
      BY <2>3, ShiftedIs, Zenon
    <3>2. QED
      BY <3>1
  <2>12. ASSUME NEW r \in Row, r \notin o, r \notin e PROVE w[r] = b[r]
    <3>1. [q \in Row |-> q \in d.torn] \in [Row -> BOOLEAN]
      OBVIOUS
    <3>2. ~Shifted([q \in Row |-> q \in d.torn], dst, src, n)[r]
      BY <2>12
    <3>3. CASE r \in dst .. dst + n - 1
      <4>1. PICK k \in Row : k = src + r - dst
        BY <3>1, <3>3, ShiftedIs, Zenon
      <4>2. w[r] = d.screen[k] /\ b[r] = s.vt.buffer[k]
        BY <3>3, <4>1 DEF Shifted
      <4>3. Shifted([q \in Row |-> q \in d.torn], dst, src, n)[r] = [q \in Row |-> q \in d.torn][k]
        BY <3>3, <4>1 DEF Shifted
      <4>4. k \notin d.torn
        BY <3>2, <4>3, Zenon
      <4>5. QED
        BY <2>1, <4>2, <4>4, Zenon
    <3>4. CASE r \notin dst .. dst + n - 1
      <4>1. w[r] = d.screen[r] /\ b[r] = s.vt.buffer[r]
        BY <3>4 DEF Shifted
      <4>2. Shifted([q \in Row |-> q \in d.torn], dst, src, n)[r] = [q \in Row |-> q \in d.torn][r]
        BY <3>4 DEF Shifted
      <4>3. r \notin d.torn
        BY <3>2, <4>2, Zenon
      <4>4. QED
        BY <2>1, <4>1, <4>3, Zenon
    <3>5. QED
      BY <3>3, <3>4
  <2> HIDE DEF b, e, l, o, w, t, behind
  <2>13. PICK u : u = [s.vt EXCEPT !.buffer = b, !.dirty = e, !.length = l]
    OBVIOUS
  <2>14. /\ u \in Vts /\ u.buffer = b /\ u.dirty = e /\ u.cy = s.vt.cy /\ u.cx = s.vt.cx
         /\ u.margintop = s.vt.margintop /\ u.marginbot = s.vt.marginbot
    BY <2>2, <2>9, <2>10, <2>11, <2>13 DEF Vts
  <2>15. t = [d EXCEPT !.vt = u, !.screen = w, !.torn = o]
    BY <2>1, <2>2, <2>4, <2>6, <2>7, <2>13
  <2>16. t \in States /\ t.vt = u /\ t.screen = w /\ t.torn = o
    BY <2>2, <2>9, <2>10, <2>14, <2>15 DEF States
  <2>17. Shows(t)
    BY <2>12, <2>14, <2>16 DEF Shows
  <2>18. QED
    BY <2>14, <2>16, <2>17 DEF Truthful, t
<1>3. QED
  BY <1>1, <1>2

\* Lines are cleared, on the screen too.
LEMMA LinesClear ==
    ASSUME NEW s, Truthful(s), NEW dst \in Int, NEW n \in Int
    PROVE  /\ Truthful(VTclearlines(s, dst, n))
           /\ VTclearlines(s, dst, n).vt.cy = s.vt.cy /\ VTclearlines(s, dst, n).vt.cx = s.vt.cx
           /\ VTclearlines(s, dst, n).vt.margintop = s.vt.margintop
           /\ VTclearlines(s, dst, n).vt.marginbot = s.vt.marginbot
<1> DEFINE t == VTclearlines(s, dst, n)
           lines == dst .. dst + n - 1
           w == [r \in Row |-> IF r \in lines THEN Cleared[r] ELSE s.screen[r]]
           b == [r \in Row |-> IF r \in lines THEN Cleared[r] ELSE s.vt.buffer[r]]
           e == s.vt.dirty \ lines
           l == [r \in Row |-> IF r < n THEN 0 ELSE s.vt.length[r]]
           o == s.torn \ lines
<1>1. CASE dst < 0 \/ dst + n > Rows
  <2>1. t = s
    BY <1>1 DEF VTclearlines
  <2>2. QED
    BY <2>1
<1>2. CASE ~(dst < 0 \/ dst + n > Rows)
  <2>1. s \in [vt : Vts, screen : Screens, torn : SUBSET Row] /\ s.vt \in Vts
    BY DEF Truthful, States
  <2>2. s.vt.buffer \in Screens /\ s.screen \in Screens /\ s.vt.dirty \in SUBSET Row /\ s.torn \in SUBSET Row
        /\ s.vt.length \in [Row -> Int]
    BY <2>1, FieldsAre
  <2>3. t = [s EXCEPT !.screen = w, !.vt.buffer = b, !.vt.dirty = e, !.vt.length = l, !.torn = o]
    BY <1>2, Zenon DEF VTclearlines
  <2>4. Cleared \in Screens
    BY DEF Cleared, Screens, Cells
  <2>5. b \in Screens /\ w \in Screens
    BY <2>2, <2>4 DEF Screens
  <2>6. e \in SUBSET Row /\ o \in SUBSET Row /\ l \in [Row -> Int]
    BY <2>2
  <2>7. ASSUME NEW r \in Row, r \notin o, r \notin e PROVE w[r] = b[r]
    BY <2>7 DEF Truthful, Shows
  <2> HIDE DEF b, e, l, o, w, t, lines
  <2>8. PICK u : u = [s.vt EXCEPT !.buffer = b, !.dirty = e, !.length = l]
    OBVIOUS
  <2>9. /\ u \in Vts /\ u.buffer = b /\ u.dirty = e /\ u.cy = s.vt.cy /\ u.cx = s.vt.cx
        /\ u.margintop = s.vt.margintop /\ u.marginbot = s.vt.marginbot
    BY <2>1, <2>5, <2>6, <2>8 DEF Vts
  <2>10. t = [s EXCEPT !.vt = u, !.screen = w, !.torn = o]
    BY <2>1, <2>3, <2>8
  <2>11. t \in States /\ t.vt = u /\ t.screen = w /\ t.torn = o
    BY <2>1, <2>5, <2>6, <2>9, <2>10 DEF States
  <2>12. Shows(t)
    BY <2>7, <2>9, <2>11 DEF Shows
  <2>13. QED
    BY <2>9, <2>11, <2>12 DEF Truthful, t
<1>3. QED
  BY <1>1, <1>2

\* A terminal that is written to: the cursor is on the screen, or behind the
\* last column.
Ready(s) == Truthful(s) /\ s.vt.cx \in 0 .. Cols /\ s.vt.cy \in Row

\* What is known of it.
LEMMA ReadyIs ==
    ASSUME NEW s, Ready(s)
    PROVE  /\ s \in [vt : Vts, screen : Screens, torn : SUBSET Row] /\ s.vt \in Vts
           /\ s.vt.buffer \in Screens /\ s.vt.dirty \in SUBSET Row /\ s.torn \in SUBSET Row
           /\ s.vt.length \in [Row -> Int] /\ s.vt.margintop \in Row /\ s.vt.marginbot \in Row
           /\ s.vt.cx \in Int /\ s.vt.cy \in Row /\ s.vt.sx \in Int /\ s.vt.sy \in Int
<1>1. s \in [vt : Vts, screen : Screens, torn : SUBSET Row] /\ s.vt \in Vts
  BY DEF Ready, Truthful, States
<1>2. QED
  BY <1>1, FieldsAre DEF Ready

\* The lines between the margins go up.
LEMMA ScrolledUp ==
    ASSUME NEW s, Truthful(s), NEW top \in Row, NEW bot \in Row
    PROVE  /\ Truthful(VTmovelines(s, top, top + 1, bot - top)) /\ Truthful(VTmovelines(s, top + 1, top, bot - top))
           /\ VTmovelines(s, top, top + 1, bot - top).vt.cy = s.vt.cy
           /\ VTmovelines(s, top + 1, top, bot - top).vt.cy = s.vt.cy
<1>1. PICK d, e, n \in Int : d = top /\ e = top + 1 /\ n = bot - top
  BY DEF Row
<1>2. d <= Rows /\ 0 <= d + n /\ 0 <= e /\ e + n <= Rows
  BY <1>1, TerminalAssumption DEF Row
<1>3. e <= Rows /\ 0 <= e + n /\ 0 <= d /\ d + n <= Rows
  BY <1>1, TerminalAssumption DEF Row
<1>4. Truthful(VTmovelines(s, d, e, n)) /\ VTmovelines(s, d, e, n).vt.cy = s.vt.cy
  BY <1>2, LinesMove
<1>5. Truthful(VTmovelines(s, e, d, n)) /\ VTmovelines(s, e, d, n).vt.cy = s.vt.cy
  BY <1>3, LinesMove
<1>6. QED
  BY <1>1, <1>4, <1>5, Zenon

\* A new line, with or without scrolling.
LEMMA NewlineIs ==
    ASSUME NEW s, Truthful(s), s.vt.cy \in Row
    PROVE  Truthful(VTnewline(s)) /\ VTnewline(s).vt.cy \in Row
<1>1. PICK y \in Row, z \in Int, top \in Row, bot \in Row :
        y = s.vt.cy /\ z = y + 1 /\ top = s.vt.margintop /\ bot = s.vt.marginbot
  <2>1. s.vt \in Vts
    BY DEF Truthful, States
  <2>2. s.vt.margintop \in Row /\ s.vt.marginbot \in Row
    BY <2>1, FieldsAre
  <2>3. s.vt.cy + 1 \in Int
    BY DEF Row
  <2>4. QED
    BY <2>2, <2>3
<1>2. PICK down : down = [s EXCEPT !.vt.cx = 0, !.vt.cy = z, !.vt.dirty = @ \cup {y}]
  OBVIOUS
<1>3. PICK back : back = [s EXCEPT !.vt.cx = 0, !.vt.cy = y, !.vt.dirty = @ \cup {y}]
  OBVIOUS
<1>r. s \in [vt : Vts, screen : Screens, torn : SUBSET Row] /\ s.vt \in Vts
  BY DEF Truthful, States
<1>d. PICK d \in SUBSET Row : d = s.vt.dirty \cup {y}
  BY <1>r, FieldsAre
<1>i. PICK x \in Int, i \in Int : x = 0 /\ i = y
  BY DEF Row
<1>4. Truthful(down) /\ down.vt.cy = z
  <2>1. PICK u : u = [s.vt EXCEPT !.cx = x, !.cy = z, !.dirty = d]
    OBVIOUS
  <2>2. u \in Vts /\ u.dirty = d /\ u.buffer = s.vt.buffer /\ u.cy = z
    BY <1>r, <2>1 DEF Vts
  <2>3. Truthful([s EXCEPT !.vt = u])
    BY <1>r, <1>d, <2>2, AlteredAlone
  <2>4. down = [s EXCEPT !.vt = u] /\ [s EXCEPT !.vt = u].vt = u
    BY <1>2, <1>r, <1>d, <1>i, <2>1
  <2>5. QED
    BY <2>2, <2>3, <2>4, Zenon
<1>5. Truthful(back) /\ back.vt.cy = y
  <2>1. PICK u : u = [s.vt EXCEPT !.cx = x, !.cy = i, !.dirty = d]
    OBVIOUS
  <2>2. u \in Vts /\ u.dirty = d /\ u.buffer = s.vt.buffer /\ u.cy = i
    BY <1>r, <1>i, <2>1 DEF Vts
  <2>3. Truthful([s EXCEPT !.vt = u])
    BY <1>r, <1>d, <2>2, AlteredAlone
  <2>4. back = [s EXCEPT !.vt = u] /\ [s EXCEPT !.vt = u].vt = u
    BY <1>3, <1>r, <1>d, <1>i, <2>1
  <2>5. QED
    BY <1>i, <2>2, <2>3, <2>4, Zenon
<1>6. back = [down EXCEPT !.vt.cy = y]
  <2>1. s \in [vt : Vts, screen : Screens, torn : SUBSET Row] /\ s.vt \in Vts
    BY DEF Truthful, States
  <2>2. QED
    BY <1>2, <1>3, <2>1 DEF Vts
<1>7. PICK moved : moved = VTmovelines(back, top, top + 1, bot - top)
  OBVIOUS
<1>8. Truthful(moved) /\ moved.vt.cy = y
  BY <1>5, <1>7, ScrolledUp, Zenon
<1>9. PICK scrolled : scrolled = VTclearlines(moved, y, 1)
  OBVIOUS
<1>10. Truthful(scrolled) /\ scrolled.vt.cy = y
  <2>1. y \in Int /\ 1 \in Int
    BY DEF Row
  <2>2. QED
    BY <1>8, <1>9, <2>1, LinesClear, Zenon
<1>11. PICK after : after = IF z > bot THEN scrolled ELSE down
  OBVIOUS
<1>12. Truthful(after) /\ after.vt.cy \in Row
  <2>1. CASE z > bot
    BY <1>10, <1>11, <2>1
  <2>2. CASE ~(z > bot)
    <3>1. z \in Row
      BY <1>1, <2>2, TerminalAssumption DEF Row
    <3>2. QED
      BY <1>4, <1>11, <2>2, <3>1
  <2>3. QED
    BY <2>1, <2>2
<1>13. VTnewline(s) = [after EXCEPT !.vt.dirty = @ \cup {after.vt.cy}]
  <2>1. down = [s EXCEPT !.vt.cx = 0, !.vt.cy = s.vt.cy + 1, !.vt.dirty = @ \cup {s.vt.cy}]
    BY <1>1, <1>2, Zenon
  <2>2. back = [down EXCEPT !.vt.cy = s.vt.cy]
    BY <1>1, <1>6, Zenon
  <2>3. moved = VTmovelines(back, s.vt.margintop, s.vt.margintop + 1, s.vt.marginbot - s.vt.margintop)
    BY <1>1, <1>7, Zenon
  <2>4. after = IF s.vt.cy + 1 > s.vt.marginbot THEN VTclearlines(moved, s.vt.cy, 1) ELSE down
    BY <1>1, <1>9, <1>11, Zenon
  <2>5. QED
    BY <2>1, <2>2, <2>3, <2>4 DEF VTnewline
<1>14. after \in [vt : Vts, screen : Screens, torn : SUBSET Row] /\ after.vt \in Vts
  BY <1>12 DEF Truthful, States
<1>15. PICK e \in SUBSET Row : e = after.vt.dirty \cup {after.vt.cy}
  BY <1>12, <1>14, FieldsAre
<1>16. PICK u : u = [after.vt EXCEPT !.dirty = e]
  OBVIOUS
<1>17. u \in Vts /\ u.dirty = e /\ u.buffer = after.vt.buffer /\ u.cy = after.vt.cy
  BY <1>14, <1>16 DEF Vts
<1>18. Truthful([after EXCEPT !.vt = u])
  BY <1>12, <1>15, <1>17, AlteredAlone
<1>19. VTnewline(s) = [after EXCEPT !.vt = u] /\ [after EXCEPT !.vt = u].vt = u
  BY <1>13, <1>14, <1>15, <1>16
<1>20. QED
  BY <1>12, <1>17, <1>18, <1>19, Zenon

\* The cursor is sent somewhere.
LEMMA CursorToIs ==
    ASSUME NEW s, Ready(s), NEW x \in Int, NEW y \in Int
    PROVE  Truthful(CursorTo(s, x, y))
<1>1. s \in [vt : Vts, screen : Screens, torn : SUBSET Row] /\ s.vt \in Vts /\ Truthful(s)
  BY ReadyIs DEF Ready
<1>2. PICK u : u = [s.vt EXCEPT !.cx = x, !.cy = y]
  OBVIOUS
<1>3. u \in Vts /\ u.dirty = s.vt.dirty /\ u.buffer = s.vt.buffer
  BY <1>1, <1>2 DEF Vts
<1>4. Truthful([s EXCEPT !.vt = u])
  BY <1>1, <1>3, AlteredAlone
<1>5. CursorTo(s, x, y) = [s EXCEPT !.vt = u]
  BY <1>1, <1>2 DEF CursorTo
<1>6. QED
  BY <1>4, <1>5, Zenon

\* What moves the cursor, the margins or a mode leaves the text alone.
LEMMA CursorOutcomes ==
    ASSUME NEW s, Ready(s), NEW x \in Int, NEW y \in Int, NEW a \in Row, NEW b \in Row, NEW on \in BOOLEAN
    PROVE  /\ Truthful(CarriageReturn(s)) /\ Truthful(Backspace(s)) /\ Truthful(CursorTo(s, x, y))
           /\ Truthful(NextLine(s)) /\ Truthful(SaveCursor(s)) /\ Truthful(RestoreCursor(s))
           /\ Truthful(SetMargins(s, a, b)) /\ Truthful(ResetMargins(s)) /\ Truthful(Wrap(s, on))
<1>1. /\ s \in [vt : Vts, screen : Screens, torn : SUBSET Row] /\ s.vt \in Vts /\ Truthful(s)
      /\ s.vt.cx \in Int /\ s.vt.cy \in Int /\ s.vt.cy \in Row /\ s.vt.sx \in Int /\ s.vt.sy \in Int
  BY ReadyIs DEF Ready, Row
<1>2. PICK d \in SUBSET Row, cx \in Int, cy \in Int :
        d = s.vt.dirty \cup {s.vt.cy} /\ cx = (IF s.vt.cx > 0 THEN s.vt.cx - 1 ELSE s.vt.cx) /\ cy = s.vt.cy + 1
  <2>1. s.vt.dirty \cup {s.vt.cy} \in SUBSET Row
    BY <1>1, ReadyIs
  <2>2. (IF s.vt.cx > 0 THEN s.vt.cx - 1 ELSE s.vt.cx) \in Int /\ s.vt.cy + 1 \in Int
    BY <1>1
  <2>3. QED
    BY <2>1, <2>2
<1>3. 0 \in Row /\ Rows - 1 \in Row /\ 0 \in Int
  BY TerminalAssumption DEF Row
<1>4. Truthful(CarriageReturn(s))
  <2>1. PICK u : u = [s.vt EXCEPT !.cx = 0]
    OBVIOUS
  <2>2. u \in Vts /\ u.dirty = s.vt.dirty /\ u.buffer = s.vt.buffer
    BY <1>1, <2>1 DEF Vts
  <2>3. Truthful([s EXCEPT !.vt = u])
    BY <1>1, <2>2, AlteredAlone
  <2>4. CarriageReturn(s) = [s EXCEPT !.vt = u]
    BY <1>1, <2>1 DEF CarriageReturn
  <2>5. QED
    BY <2>3, <2>4, Zenon
<1>5. Truthful(Backspace(s))
  <2>1. PICK u : u = [s.vt EXCEPT !.cx = cx, !.dirty = d]
    OBVIOUS
  <2>2. u \in Vts /\ u.dirty = d /\ u.buffer = s.vt.buffer
    BY <1>1, <1>2, <2>1 DEF Vts
  <2>3. Truthful([s EXCEPT !.vt = u])
    BY <1>1, <1>2, <2>2, AlteredAlone
  <2>4. Backspace(s) = [s EXCEPT !.vt = u]
    BY <1>1, <1>2, <2>1 DEF Backspace
  <2>5. QED
    BY <2>3, <2>4, Zenon
<1>6. Truthful(CursorTo(s, x, y))
  BY CursorToIs
<1>7. Truthful(NextLine(s))
  <2>1. PICK u : u = [s.vt EXCEPT !.cy = cy]
    OBVIOUS
  <2>2. u \in Vts /\ u.dirty = s.vt.dirty /\ u.buffer = s.vt.buffer
    BY <1>1, <1>2, <2>1 DEF Vts
  <2>3. Truthful([s EXCEPT !.vt = u])
    BY <1>1, <1>2, <2>2, AlteredAlone
  <2>4. NextLine(s) = [s EXCEPT !.vt = u]
    BY <1>1, <1>2, <2>1 DEF NextLine
  <2>5. QED
    BY <2>3, <2>4, Zenon
<1>8. Truthful(SaveCursor(s))
  <2>1. PICK u : u = [s.vt EXCEPT !.sx = s.vt.cx, !.sy = s.vt.cy]
    OBVIOUS
  <2>2. u \in Vts /\ u.dirty = s.vt.dirty /\ u.buffer = s.vt.buffer
    BY <1>1, <2>1 DEF Vts
  <2>3. Truthful([s EXCEPT !.vt = u])
    BY <1>1, <2>2, AlteredAlone
  <2>4. SaveCursor(s) = [s EXCEPT !.vt = u]
    BY <1>1, <2>1 DEF SaveCursor
  <2>5. QED
    BY <2>3, <2>4, Zenon
<1>9. Truthful(RestoreCursor(s))
  <2>1. PICK u : u = [s.vt EXCEPT !.cx = s.vt.sx, !.cy = s.vt.sy]
    OBVIOUS
  <2>2. u \in Vts /\ u.dirty = s.vt.dirty /\ u.buffer = s.vt.buffer
    BY <1>1, <2>1 DEF Vts
  <2>3. Truthful([s EXCEPT !.vt = u])
    BY <1>1, <2>2, AlteredAlone
  <2>4. RestoreCursor(s) = [s EXCEPT !.vt = u]
    BY <1>1, <2>1 DEF RestoreCursor, CursorTo
  <2>5. QED
    BY <2>3, <2>4, Zenon
<1>10. Truthful(SetMargins(s, a, b))
  <2>1. PICK u : u = [s.vt EXCEPT !.margintop = a, !.marginbot = b, !.cx = 0, !.cy = 0]
    OBVIOUS
  <2>2. u \in Vts /\ u.dirty = s.vt.dirty /\ u.buffer = s.vt.buffer
    BY <1>1, <1>3, <2>1 DEF Vts
  <2>3. Truthful([s EXCEPT !.vt = u])
    BY <1>1, <1>3, <2>2, AlteredAlone
  <2>4. SetMargins(s, a, b) = [s EXCEPT !.vt = u]
    BY <1>1, <1>3, <2>1 DEF SetMargins, CursorTo
  <2>5. QED
    BY <2>3, <2>4, Zenon
<1>11. Truthful(ResetMargins(s))
  <2>1. PICK u : u = [s.vt EXCEPT !.margintop = 0, !.marginbot = Rows - 1]
    OBVIOUS
  <2>2. u \in Vts /\ u.dirty = s.vt.dirty /\ u.buffer = s.vt.buffer
    BY <1>1, <1>3, <2>1 DEF Vts
  <2>3. Truthful([s EXCEPT !.vt = u])
    BY <1>1, <1>3, <2>2, AlteredAlone
  <2>4. ResetMargins(s) = [s EXCEPT !.vt = u]
    BY <1>1, <1>3, <2>1 DEF ResetMargins
  <2>5. QED
    BY <2>3, <2>4, Zenon
<1>12. Truthful(Wrap(s, on))
  <2>1. PICK u : u = [s.vt EXCEPT !.wrapping = on]
    OBVIOUS
  <2>2. u \in Vts /\ u.dirty = s.vt.dirty /\ u.buffer = s.vt.buffer
    BY <1>1, <2>1 DEF Vts
  <2>3. Truthful([s EXCEPT !.vt = u])
    BY <1>1, <2>2, AlteredAlone
  <2>4. Wrap(s, on) = [s EXCEPT !.vt = u]
    BY <1>1, <2>1 DEF Wrap
  <2>5. QED
    BY <2>3, <2>4, Zenon
<1>13. QED
  BY <1>4, <1>5, <1>6, <1>7, <1>8, <1>9, <1>10, <1>11, <1>12

\* The lines of f above y1 and below y2 are in b as they were.
SameOutside(b, f, y1, y2) == \A r \in Row : r < y1 \/ r > y2 => b[r] = f[r]

\* What is erased between two places: the lines around them stay.
LEMMA ErasedIs ==
    ASSUME NEW f \in Screens, NEW x1 \in Int, NEW y1 \in Int, NEW x2 \in Int, NEW y2 \in Int
    PROVE  /\ Erased(f, x1, y1, x2, y2) \in Screens
           /\ SameOutside(Erased(f, x1, y1, x2, y2), f, y1, y2)
<1>1. f \in [Row -> [Col -> Cells]] /\ Blank \in Cells
  BY DEF Screens, Cells
<1>2. ASSUME NEW r \in Row, NEW c \in Col PROVE f[r][c] \in Cells
  BY <1>1
<1>3. Erased(f, x1, y1, x2, y2) \in [Row -> [Col -> Cells]]
  BY <1>1, <1>2 DEF Erased
<1>4. ASSUME NEW r \in Row, r < y1 \/ r > y2 PROVE Erased(f, x1, y1, x2, y2)[r] = f[r]
  <2>1. r \in Int
    BY DEF Row
  <2>2. ~((r > y1 \/ r = y1) /\ (r < y2 \/ r = y2))
    BY <1>4, <2>1
  <2>3. Erased(f, x1, y1, x2, y2)[r] = [c \in Col |-> f[r][c]]
    BY <2>2 DEF Erased
  <2>4. f[r] \in [Col -> Cells]
    BY <1>1
  <2>5. QED
    BY <2>3, <2>4
<1>5. QED
  BY <1>3, <1>4 DEF Screens, SameOutside

\* What changes the text of some lines marks them, or they are torn.
LEMMA TextOutcomes ==
    ASSUME NEW s, Ready(s)
    PROVE  /\ Truthful(EraseBelow(s)) /\ Truthful(EraseAbove(s)) /\ Truthful(EraseRight(s)) /\ Truthful(EraseLeft(s))
           /\ \A i \in 1 .. Cols - 1 : Truthful(DeleteChars(s, i))
<1>1. /\ s \in [vt : Vts, screen : Screens, torn : SUBSET Row] /\ s.vt \in Vts /\ Truthful(s)
      /\ s.vt.buffer \in Screens /\ s.vt.dirty \in SUBSET Row /\ s.torn \in SUBSET Row
      /\ s.vt.length \in [Row -> Int]
  BY ReadyIs DEF Ready
<1>2. PICK x \in Int, y \in Int, rows \in Int, cols \in Int, zero \in Int :
        x = s.vt.cx /\ y = s.vt.cy /\ rows = Rows /\ cols = Cols /\ zero = 0
  BY TerminalAssumption DEF Ready, Row
<1>3. y \in Row /\ x \in 0 .. Cols /\ Cols - 1 \in Int
  BY <1>2, TerminalAssumption DEF Ready
<1>4. PICK d \in SUBSET Row, below \in SUBSET Row, above \in SUBSET Row :
        d = s.vt.dirty \cup {y} /\ below = s.vt.dirty \cup (y .. Rows - 1) /\ above = s.torn \cup (0 .. y - 1)
  <2>1. y .. Rows - 1 \subseteq Row /\ 0 .. y - 1 \subseteq Row
    BY <1>2, <1>3, TerminalAssumption DEF Row
  <2>2. QED
    BY <1>1, <1>3, <2>1
<1>5. Truthful(EraseBelow(s))
  <2>1. PICK b \in Screens : b = Erased(s.vt.buffer, x, y, zero, rows) /\ SameOutside(b, s.vt.buffer, y, rows)
    BY <1>1, <1>2, ErasedIs, Zenon
  <2>2. PICK l \in [Row -> Int] : l = [r \in Row |-> IF r >= y THEN Cols - 1 ELSE s.vt.length[r]]
    BY <1>1, <1>3
  <2>3. PICK u : u = [s.vt EXCEPT !.buffer = b, !.dirty = below, !.length = l]
    OBVIOUS
  <2>4. u \in Vts /\ u.buffer = b /\ u.dirty = below
    BY <1>1, <2>3 DEF Vts
  <2>5. ASSUME NEW r \in Row, r \notin below PROVE b[r] = s.vt.buffer[r]
    <3>1. r < y
      BY <1>2, <1>4, <2>5, TerminalAssumption DEF Row
    <3>2. QED
      BY <2>1, <3>1 DEF SameOutside
  <2>6. Truthful([s EXCEPT !.vt = u])
    BY <1>1, <1>4, <2>4, <2>5, AlteredAlone
  <2>7. EraseBelow(s) = [s EXCEPT !.vt.buffer = b, !.vt.dirty = below, !.vt.length = l]
    BY <1>2, <1>4, <2>1, <2>2 DEF EraseBelow
  <2>8. EraseBelow(s) = [s EXCEPT !.vt = u]
    BY <1>1, <2>3, <2>7
  <2>9. QED
    BY <2>6, <2>8, Zenon
<1>6. Truthful(EraseAbove(s))
  <2>1. PICK b \in Screens : b = Erased(s.vt.buffer, zero, zero, x, y) /\ SameOutside(b, s.vt.buffer, zero, y)
    BY <1>1, <1>2, ErasedIs, Zenon
  <2>2. PICK u : u = [s.vt EXCEPT !.buffer = b, !.dirty = d]
    OBVIOUS
  <2>3. u \in Vts /\ u.buffer = b /\ u.dirty = d
    BY <1>1, <2>2 DEF Vts
  <2>4. ASSUME NEW r \in Row, r \notin d, r \notin above PROVE b[r] = s.vt.buffer[r]
    <3>1. r > y
      BY <1>2, <1>4, <2>4, TerminalAssumption DEF Row
    <3>2. QED
      BY <2>1, <3>1 DEF SameOutside
  <2>5. Truthful([s EXCEPT !.vt = u, !.torn = above])
    <3>1. s.vt.dirty \subseteq u.dirty /\ s.torn \subseteq above
      BY <1>4, <2>3
    <3>2. \A r \in Row : r \notin u.dirty /\ r \notin above => u.buffer[r] = s.vt.buffer[r]
      BY <2>3, <2>4, Zenon
    <3>3. QED
      BY <1>1, <1>4, <2>3, <3>1, <3>2, AlteredIs, Zenon
  <2>6. EraseAbove(s) = [s EXCEPT !.vt.buffer = b, !.vt.dirty = d, !.torn = above]
    BY <1>2, <1>4, <2>1 DEF EraseAbove
  <2>7. EraseAbove(s) = [s EXCEPT !.vt = u, !.torn = above]
    BY <1>1, <2>2, <2>6
  <2>8. QED
    BY <2>5, <2>7, Zenon
<1>7. Truthful(EraseRight(s))
  <2>1. PICK b \in Screens : b = Erased(s.vt.buffer, x, y, cols, y) /\ SameOutside(b, s.vt.buffer, y, y)
    BY <1>1, <1>2, ErasedIs, Zenon
  <2>2. PICK l \in [Row -> Int] : l = [s.vt.length EXCEPT ![y] = Cols - 1]
    BY <1>1, <1>3
  <2>3. PICK u : u = [s.vt EXCEPT !.buffer = b, !.dirty = d, !.length = l]
    OBVIOUS
  <2>4. u \in Vts /\ u.buffer = b /\ u.dirty = d
    BY <1>1, <2>3 DEF Vts
  <2>5. ASSUME NEW r \in Row, r \notin d PROVE b[r] = s.vt.buffer[r]
    <3>1. r < y \/ r > y
      BY <1>4, <2>5 DEF Row
    <3>2. QED
      BY <2>1, <3>1 DEF SameOutside
  <2>6. Truthful([s EXCEPT !.vt = u])
    BY <1>1, <1>4, <2>4, <2>5, AlteredAlone
  <2>7. EraseRight(s) = [s EXCEPT !.vt.buffer = b, !.vt.dirty = d, !.vt.length = l]
    <3>1. EraseRight(s) = [s EXCEPT !.vt.buffer = b, !.vt.dirty = d, !.vt.length[y] = cols - 1]
      BY <1>2, <1>4, <2>1, Zenon DEF EraseRight
    <3>2. PICK v : v = [s.vt EXCEPT !.buffer = b, !.dirty = d]
      OBVIOUS
    <3>3. v.length = s.vt.length
      BY <1>1, <3>2 DEF Vts
    <3>4. EraseRight(s) = [s EXCEPT !.vt = [v EXCEPT !.length = l]]
      BY <1>1, <1>2, <2>2, <3>1, <3>2, <3>3
    <3>5. QED
      BY <1>1, <3>2, <3>4
  <2>8. EraseRight(s) = [s EXCEPT !.vt = u]
    BY <1>1, <2>3, <2>7
  <2>9. QED
    BY <2>6, <2>8, Zenon
<1>8. Truthful(EraseLeft(s))
  <2>1. PICK b \in Screens : b = Erased(s.vt.buffer, zero, y, x, y) /\ SameOutside(b, s.vt.buffer, y, y)
    BY <1>1, <1>2, ErasedIs, Zenon
  <2>2. PICK u : u = [s.vt EXCEPT !.buffer = b, !.dirty = d]
    OBVIOUS
  <2>3. u \in Vts /\ u.buffer = b /\ u.dirty = d
    BY <1>1, <2>2 DEF Vts
  <2>4. ASSUME NEW r \in Row, r \notin d PROVE b[r] = s.vt.buffer[r]
    <3>1. r < y \/ r > y
      BY <1>4, <2>4 DEF Row
    <3>2. QED
      BY <2>1, <3>1 DEF SameOutside
  <2>5. Truthful([s EXCEPT !.vt = u])
    BY <1>1, <1>4, <2>3, <2>4, AlteredAlone
  <2>6. EraseLeft(s) = [s EXCEPT !.vt.buffer = b, !.vt.dirty = d]
    BY <1>2, <1>4, <2>1 DEF EraseLeft
  <2>7. EraseLeft(s) = [s EXCEPT !.vt = u]
    BY <1>1, <2>2, <2>6
  <2>8. QED
    BY <2>5, <2>7, Zenon
<1>9. ASSUME NEW i \in 1 .. Cols - 1 PROVE Truthful(DeleteChars(s, i))
  <2>1. PICK line \in [Col -> Cells] :
          line = [c \in Col |-> IF c >= x /\ c + i < Cols THEN s.vt.buffer[y][c + i] ELSE s.vt.buffer[y][c]]
    <3>1. s.vt.buffer[y] \in [Col -> Cells]
      BY <1>1, <1>3 DEF Screens
    <3>2. ASSUME NEW c \in Col, c + i < Cols PROVE c + i \in Col
      BY <3>2, TerminalAssumption DEF Col
    <3>3. QED
      BY <3>1, <3>2
  <2>2. PICK b \in Screens : b = [s.vt.buffer EXCEPT ![y] = line]
    BY <1>1, <1>3 DEF Screens
  <2>3. PICK u : u = [s.vt EXCEPT !.buffer = b, !.dirty = d]
    OBVIOUS
  <2>4. u \in Vts /\ u.buffer = b /\ u.dirty = d
    BY <1>1, <2>3 DEF Vts
  <2>5. ASSUME NEW r \in Row, r \notin d PROVE b[r] = s.vt.buffer[r]
    BY <1>1, <1>4, <2>2, <2>5 DEF Screens
  <2>6. Truthful([s EXCEPT !.vt = u])
    BY <1>1, <1>4, <2>4, <2>5, AlteredAlone
  <2>7. DeleteChars(s, i) = [s EXCEPT !.vt.buffer = b, !.vt.dirty = d]
    BY <1>1, <1>2, <1>4, <2>1, <2>2 DEF DeleteChars
  <2>8. DeleteChars(s, i) = [s EXCEPT !.vt = u]
    BY <1>1, <2>3, <2>7
  <2>9. QED
    BY <2>6, <2>8, Zenon
<1>10. QED
  BY <1>5, <1>6, <1>7, <1>8, <1>9

\* A character is put on the screen: its line is marked.
LEMMA PutCellIs ==
    ASSUME NEW s, Ready(s), NEW g \in Glyphs, s.vt.cx < Cols
    PROVE  /\ Truthful([s EXCEPT !.vt = PutCell(s.vt, g)])
           /\ PutCell(s.vt, g) \in Vts /\ PutCell(s.vt, g).cy = s.vt.cy
<1>1. /\ s \in [vt : Vts, screen : Screens, torn : SUBSET Row] /\ s.vt \in Vts /\ Truthful(s)
      /\ s.vt.buffer \in Screens /\ s.vt.dirty \in SUBSET Row
      /\ s.vt.length \in [Row -> Int]
  BY ReadyIs DEF Ready
<1>2. PICK x \in Int, y \in Int : x = s.vt.cx /\ y = s.vt.cy
  BY TerminalAssumption DEF Ready, Row
<1>3. y \in Row /\ x \in 0 .. Cols
  BY <1>2, TerminalAssumption DEF Ready
<1>4. PICK d \in SUBSET Row : d = s.vt.dirty \cup {y}
  BY <1>1, <1>3
<1>5. x \in Col
  BY <1>2, <1>3, TerminalAssumption DEF Col
<1>6. PICK b \in Screens : b = [s.vt.buffer EXCEPT ![y][x] = g]
  <2>1. g \in Cells
    BY DEF Cells
  <2>2. s.vt.buffer \in [Row -> [Col -> Cells]] /\ s.vt.buffer[y] \in [Col -> Cells]
    BY <1>1, <1>3 DEF Screens
  <2>3. PICK line \in [Col -> Cells] : line = [s.vt.buffer[y] EXCEPT ![x] = g]
    BY <1>5, <2>1, <2>2
  <2>4. [s.vt.buffer EXCEPT ![y] = line] \in [Row -> [Col -> Cells]]
    BY <1>3, <2>2
  <2>5. QED
    BY <2>3, <2>4 DEF Screens
<1>7. PICK l \in [Row -> Int] : l = [s.vt.length EXCEPT ![y] = IF x > @ THEN x ELSE @]
  BY <1>1, <1>3
<1>8. PICK u : u = [s.vt EXCEPT !.buffer = b, !.dirty = d, !.length = l]
  OBVIOUS
<1>9. u \in Vts /\ u.buffer = b /\ u.dirty = d /\ u.cy = s.vt.cy
  BY <1>1, <1>8 DEF Vts
<1>10. ASSUME NEW r \in Row, r \notin d PROVE b[r] = s.vt.buffer[r]
  BY <1>1, <1>4, <1>6, <1>10 DEF Screens
<1>11. Truthful([s EXCEPT !.vt = u])
  BY <1>1, <1>4, <1>9, <1>10, AlteredAlone
<1>12. PutCell(s.vt, g) = u
  BY <1>1, <1>2, <1>4, <1>6, <1>7, <1>8 DEF PutCell
<1>13. QED
  BY <1>9, <1>11, <1>12, Zenon

\* A character is put, and the line may wrap.
LEMMA PutIs ==
    ASSUME NEW s, Ready(s), NEW g \in Glyphs
    PROVE  Truthful(Put(s, g))
<1>1. s \in [vt : Vts, screen : Screens, torn : SUBSET Row] /\ s.vt \in Vts /\ Truthful(s) /\ s.vt.cy \in Row
  BY ReadyIs DEF Ready
<1>2. PICK v \in Vts : v = (IF s.vt.cx < Cols THEN PutCell(s.vt, g) ELSE s.vt) /\ v.cy = s.vt.cy /\ Truthful([s EXCEPT !.vt = v])
  <2>1. CASE s.vt.cx < Cols
    <3>1. /\ Truthful([s EXCEPT !.vt = PutCell(s.vt, g)])
          /\ PutCell(s.vt, g) \in Vts /\ PutCell(s.vt, g).cy = s.vt.cy
      BY <2>1, PutCellIs, Zenon
    <3>2. QED
      BY <2>1, <3>1, Zenon
  <2>2. CASE ~(s.vt.cx < Cols)
    <3>1. [s EXCEPT !.vt = s.vt] = s
      BY <1>1
    <3>2. QED
      BY <1>1, <2>2, <3>1, Zenon
  <2>3. QED
    BY <2>1, <2>2
<1>3. PICK t : t = [s EXCEPT !.vt = v]
  OBVIOUS
<1>4. t \in [vt : Vts, screen : Screens, torn : SUBSET Row] /\ t.vt = v /\ Truthful(t)
  BY <1>1, <1>2, <1>3
<1>5. PICK x \in Int : x = v.cx + 1
  <2>1. v.cx \in Int
    BY FieldsAre
  <2>2. QED
    BY <2>1
<1>6. PICK u : u = [v EXCEPT !.cx = x]
  OBVIOUS
<1>7. u \in Vts /\ u.dirty = v.dirty /\ u.buffer = v.buffer /\ u.cy = v.cy
  BY <1>6 DEF Vts
<1>8. Truthful([t EXCEPT !.vt = u])
  BY <1>4, <1>7, AlteredAlone
<1>9. PICK put : put = [s EXCEPT !.vt = u]
  OBVIOUS
<1>10. put = [t EXCEPT !.vt = u] /\ put.vt = u
  BY <1>1, <1>3, <1>9
<1>11. Truthful(put) /\ put.vt.cy \in Row
  BY <1>1, <1>2, <1>7, <1>8, <1>10, Zenon
<1>12. put = [s EXCEPT !.vt = [(IF s.vt.cx < Cols THEN PutCell(s.vt, g) ELSE s.vt) EXCEPT !.cx = @ + 1]]
  <2>1. u = [(IF s.vt.cx < Cols THEN PutCell(s.vt, g) ELSE s.vt) EXCEPT !.cx = @ + 1]
    BY <1>2, <1>5, <1>6, Zenon
  <2>2. QED
    BY <1>9, <2>1
<1>13. Put(s, g) = IF s.vt.wrapping /\ put.vt.cx >= Cols THEN VTnewline(put) ELSE put
  BY <1>12 DEF Put
<1>14. QED
  BY <1>11, <1>13, NewlineIs, Zenon

\* Lines that are cleared, inserted, deleted and scrolled.
LEMMA LineOutcomes ==
    ASSUME NEW s, Ready(s)
    PROVE  /\ Truthful(EraseLine(s)) /\ Truthful(OtherScreen(s)) /\ Truthful(Index(s)) /\ Truthful(ReverseIndex(s))
           /\ \A i \in 1 .. Rows - 1 - s.vt.cy : Truthful(InsertLines(s, i))
           /\ \A i \in 1 .. (Rows - s.vt.cy) \div 2 : Truthful(DeleteLines(s, i))
           /\ \A i \in 1 .. Rows \div 2 : Truthful(ScrollUp(s, i)) /\ Truthful(ScrollDown(s, i))
<1>1. Truthful(s) /\ s.vt.margintop \in Row /\ s.vt.marginbot \in Row /\ s.vt.cy \in Row
  BY ReadyIs DEF Ready
<1>2. PICK y \in Int, rows \in Int, zero \in Int, one \in Int, top \in Int, bot \in Int :
        /\ y = s.vt.cy /\ rows = Rows /\ zero = 0 /\ one = 1 /\ top = s.vt.margintop /\ bot = s.vt.marginbot
        /\ top \in Row /\ bot \in Row /\ 0 <= y /\ y < rows
  <2>1. \A r \in Row : r \in Int /\ 0 <= r /\ r < Rows
    BY TerminalAssumption DEF Row
  <2>2. Rows \in Int /\ 0 \in Int /\ 1 \in Int
    BY TerminalAssumption
  <2>3. QED
    BY <1>1, <2>1, <2>2, Zenon
<1>3. Truthful(EraseLine(s))
  <2>1. Truthful(VTclearlines(s, y, one))
    BY <1>1, LinesClear
  <2>2. QED
    BY <1>2, <2>1, Zenon DEF EraseLine
<1>4. Truthful(OtherScreen(s))
  <2>1. PICK t : t = VTclearlines(s, zero, rows)
    OBVIOUS
  <2>2. Truthful(t) /\ t.vt.cy = s.vt.cy /\ t.vt.cx = s.vt.cx
    BY <1>1, <2>1, LinesClear
  <2>3. Ready(t)
    BY <2>2 DEF Ready
  <2>4. Truthful(CursorTo(t, zero, zero))
    BY <2>3, CursorToIs, Zenon
  <2>5. QED
    BY <1>2, <2>1, <2>4, Zenon DEF OtherScreen, EraseAll
<1>5. Truthful(Index(s)) /\ Truthful(ReverseIndex(s))
  <2>1. PICK t : t = VTmovelines(s, top, top + 1, bot - top)
    OBVIOUS
  <2>2. PICK r : r = VTmovelines(s, top + 1, top, bot - top)
    OBVIOUS
  <2>3. Truthful(t) /\ Truthful(r)
    BY <1>1, <1>2, <2>1, <2>2, ScrolledUp
  <2>4. Truthful(VTclearlines(t, bot, one)) /\ Truthful(VTclearlines(r, top, one))
    BY <2>3, LinesClear
  <2>5. QED
    BY <1>2, <2>1, <2>2, <2>4, Zenon DEF Index, ReverseIndex
<1>6. ASSUME NEW i \in 1 .. Rows - 1 - s.vt.cy PROVE Truthful(InsertLines(s, i))
  <2>1. PICK n \in Int, dst \in Int : n = i /\ dst = y + i
    BY <1>2
  <2>2. dst <= Rows /\ 0 <= dst + n /\ 0 <= y /\ y + n <= Rows
    BY <1>2, <2>1
  <2>3. Truthful(VTmovelines(s, dst, y, n))
    BY <1>1, <2>2, LinesMove
  <2>4. Truthful(VTclearlines(VTmovelines(s, dst, y, n), y, n))
    BY <2>3, LinesClear
  <2>5. QED
    BY <1>2, <2>1, <2>4, Zenon DEF InsertLines
<1>7. ASSUME NEW i \in 1 .. (Rows - s.vt.cy) \div 2 PROVE Truthful(DeleteLines(s, i))
  <2>1. i \in Int /\ 1 <= i /\ i + i <= rows - y
    BY <1>2
  <2>2. PICK n \in Int, src \in Int, rest \in Int : n = i /\ src = y + i /\ rest = rows - y - i
    <3>1. i \in Int /\ y + i \in Int /\ rows - y - i \in Int
      BY <2>1
    <3>2. QED
      BY <3>1, Zenon
  <2>3. y <= Rows /\ 0 <= y + n /\ 0 <= src /\ src + n <= Rows
    BY <1>2, <2>1, <2>2
  <2>4. Truthful(VTmovelines(s, y, src, n))
    BY <1>1, <2>3, LinesMove
  <2>5. Truthful(VTclearlines(VTmovelines(s, y, src, n), src, rest))
    BY <2>4, LinesClear
  <2>6. QED
    BY <1>2, <2>2, <2>5, Zenon DEF DeleteLines
<1>8. ASSUME NEW i \in 1 .. Rows \div 2 PROVE Truthful(ScrollUp(s, i)) /\ Truthful(ScrollDown(s, i))
  <2>1. i \in Int /\ 1 <= i /\ i + i <= rows
    BY <1>2
  <2>2. PICK n \in Int, last \in Int : n = i /\ last = rows - i
    BY <1>2, <2>1
  <2>3. zero <= Rows /\ 0 <= zero + n /\ 0 <= n /\ n + n <= Rows /\ n <= Rows /\ 0 <= n + n /\ 0 <= zero /\ zero + n <= Rows
    BY <1>2, <2>1, <2>2
  <2>4. Truthful(VTmovelines(s, zero, n, n)) /\ Truthful(VTmovelines(s, n, zero, n))
    BY <1>1, <2>3, LinesMove
  <2>5. Truthful(VTclearlines(VTmovelines(s, zero, n, n), last, n)) /\ Truthful(VTclearlines(VTmovelines(s, n, zero, n), zero, n))
    BY <2>4, LinesClear
  <2>6. QED
    BY <1>2, <2>2, <2>5, Zenon DEF ScrollUp, ScrollDown
<1>9. QED
  BY <1>3, <1>4, <1>5, <1>6, <1>7, <1>8

\* The terminal is reset: all lines are to be drawn.
LEMMA ResetIs ==
    ASSUME NEW s, Ready(s)
    PROVE  Truthful([s EXCEPT !.vt = VTreset(@)])
<1>1. s \in [vt : Vts, screen : Screens, torn : SUBSET Row] /\ s.vt \in Vts /\ Truthful(s) /\ s.vt.dirty \in SUBSET Row
  BY ReadyIs DEF Ready
<1>2. PICK u : u = VTreset(s.vt)
  OBVIOUS
<1>3. u \in Vts /\ u.dirty = Row
  <2>1. 0 \in Row /\ Rows - 1 \in Row
    BY TerminalAssumption DEF Row
  <2>2. Cleared \in Screens /\ [r \in Row |-> 0] \in [Row -> Int]
    BY DEF Cleared, Screens, Cells
  <2>3. QED
    BY <1>1, <1>2, <2>1, <2>2 DEF Vts, VTreset
<1>4. Truthful([s EXCEPT !.vt = u])
  BY <1>1, <1>3, AlteredAlone
<1>5. QED
  BY <1>2, <1>4

\* The lines of a form feed, one after the other.
LEMMA FormFeedIs ==
    ASSUME NEW s, Ready(s)
    PROVE  Truthful(FormFeed(s))
<1> DEFINE V == {t \in States : Truthful(t) /\ t.vt.cy \in Row}
           Def(f) == [i \in 0 .. Rows |-> IF i = 0 THEN ResetMargins(s) ELSE VTnewline(f[i - 1])]
           feed == CHOOSE f : f = Def(f)
           onward == [j \in 1 .. Rows |-> [v \in V |-> VTnewline(v)]]
<1>1. /\ s \in [vt : Vts, screen : Screens, torn : SUBSET Row] /\ s.vt \in Vts /\ Truthful(s)
      /\ s.vt.cy \in Row
  BY ReadyIs DEF Ready
<1>2. Rows \in Nat /\ Rows - s.vt.cy \in 0 .. Rows
  BY <1>1, TerminalAssumption DEF Row
<1>3. PICK base \in V : base = ResetMargins(s)
  <2>1. 0 \in Row /\ Rows - 1 \in Row
    BY TerminalAssumption DEF Row
  <2>2. PICK u : u = [s.vt EXCEPT !.margintop = 0, !.marginbot = Rows - 1]
    OBVIOUS
  <2>3. u \in Vts /\ u.dirty = s.vt.dirty /\ u.buffer = s.vt.buffer /\ u.cy = s.vt.cy
    BY <1>1, <2>1, <2>2 DEF Vts
  <2>4. Truthful([s EXCEPT !.vt = u])
    BY <1>1, <2>3, AlteredAlone
  <2>5. ResetMargins(s) = [s EXCEPT !.vt = u] /\ [s EXCEPT !.vt = u].vt = u
    BY <1>1, <2>2 DEF ResetMargins
  <2>6. ResetMargins(s) \in V
    BY <1>1, <2>3, <2>4, <2>5 DEF Truthful
  <2>7. QED
    BY <2>6, Zenon
<1>4. \A v \in V : VTnewline(v) \in V
  <2>1. ASSUME NEW v \in V PROVE VTnewline(v) \in V
    <3>1. Truthful(VTnewline(v)) /\ VTnewline(v).vt.cy \in Row
      BY NewlineIs, Zenon
    <3>2. QED
      BY <3>1, Zenon DEF Truthful
  <2>2. QED
    BY <2>1, Zenon
<1>5. \A t \in V : Truthful(t)
  OBVIOUS
<1> HIDE DEF V
<1>6. onward \in [1 .. Rows -> [V -> V]] /\ \A j \in 1 .. Rows : \A v \in V : onward[j][v] = VTnewline(v)
  BY <1>4
<1> HIDE DEF onward
<1>7. PICK f \in [0 .. Rows -> V] : f[0] = base /\ \A j \in 1 .. Rows : f[j] = onward[j][f[j - 1]]
  <2>1. Recursive(Rows, V)
    BY <1>2, RecursionIs
  <2>2. QED
    BY <1>3, <1>6, <2>1, Zenon DEF Recursive
<1>8. f = Def(f)
  <2>1. \A j \in 0 .. Rows : j # 0 => j \in 1 .. Rows /\ j - 1 \in 0 .. Rows
    BY <1>2
  <2>2. \A j \in 0 .. Rows : f[j] = IF j = 0 THEN ResetMargins(s) ELSE VTnewline(f[j - 1])
    BY <1>3, <1>6, <1>7, <2>1
  <2>3. QED
    BY <2>2
<1>9. feed = Def(feed)
  <2>1. \E h : h = Def(h)
    BY <1>8, Zenon
  <2> HIDE DEF Def
  <2>2. QED
    BY <2>1, Zenon
<1>10. FormFeed(s) = feed[Rows - s.vt.cy]
  BY Zenon DEF FormFeed
<1> HIDE DEF feed
<1>11. PICK d : d = feed
  OBVIOUS
<1>12. \A j \in 0 .. Rows : d[j] = IF j = 0 THEN ResetMargins(s) ELSE VTnewline(d[j - 1])
  <2>1. d = Def(d)
    BY <1>9, <1>11, Zenon
  <2>2. QED
    BY <2>1
<1> HIDE DEF Def
<1>13. \A j \in 0 .. Rows : d[j] \in V
  <2> DEFINE S == {i \in 0 .. Rows : d[i] \in V}
  <2>1. 0 \in S
    BY <1>2, <1>3, <1>12
  <2>2. ASSUME NEW j \in 1 .. Rows, j - 1 \in S PROVE j \in S
    <3>1. j \in 0 .. Rows /\ j # 0 /\ d[j - 1] \in V
      BY <1>2, <2>2
    <3>2. d[j] = VTnewline(d[j - 1])
      BY <1>12, <3>1
    <3>3. QED
      BY <1>4, <3>1, <3>2
  <2> HIDE DEF S
  <2>3. \A j \in 0 .. Rows : j \in S
    BY <1>2, <2>1, <2>2, CountUp, Zenon
  <2>4. QED
    BY <2>3 DEF S
<1>14. QED
  BY <1>2, <1>5, <1>10, <1>11, <1>13, Zenon

\* Whatever a symbol makes of a terminal, the screen is as true as before.
LEMMA OutcomesAre ==
    ASSUME NEW s, Ready(s), NEW t \in Outcomes(s)
    PROVE  Truthful(t)
<1>1. \A g \in Glyphs : Truthful(Put(s, g))
  BY PutIs
<1>2. Truthful(VTnewline(s)) /\ Truthful(FormFeed(s)) /\ Truthful([s EXCEPT !.vt = VTreset(@)])
  <2>1. Truthful(VTnewline(s))
    BY NewlineIs DEF Ready
  <2>2. QED
    BY <2>1, FormFeedIs, ResetIs, Zenon
<1>3. PICK zero \in Row, one \in Row, bot \in Row, low \in Row :
        zero = 0 /\ one = 1 /\ low = Rows - 2 /\ bot = Rows - 1
  BY TerminalAssumption DEF Row
<1>4. /\ Truthful(CarriageReturn(s)) /\ Truthful(Backspace(s)) /\ Truthful(NextLine(s)) /\ Truthful(SaveCursor(s))
      /\ Truthful(RestoreCursor(s)) /\ Truthful(ResetMargins(s))
  <2>1. 0 \in Int /\ TRUE \in BOOLEAN
    OBVIOUS
  <2>2. QED
    BY <2>1, <1>3, CursorOutcomes, Zenon
<1>5. \A x \in Col, y \in Row : Truthful(CursorTo(s, x, y))
  BY CursorToIs DEF Col, Row
<1>6. \A a \in {0, 1}, b \in {Rows - 2, Rows - 1} : Truthful(SetMargins(s, a, b))
  <2>1. ASSUME NEW a \in Row, NEW b \in Row PROVE Truthful(SetMargins(s, a, b))
    <3>1. 0 \in Int /\ TRUE \in BOOLEAN
      OBVIOUS
    <3>2. QED
      BY <3>1, CursorOutcomes, Zenon
  <2>2. \A a \in {0, 1} : a \in Row
    BY TerminalAssumption DEF Row
  <2>3. \A b \in {Rows - 2, Rows - 1} : b \in Row
    BY TerminalAssumption DEF Row
  <2>4. QED
    BY <2>1, <2>2, <2>3, Zenon
<1>7. \A on \in BOOLEAN : Truthful(Wrap(s, on))
  <2>1. 0 \in Int
    OBVIOUS
  <2>2. QED
    BY <2>1, <1>3, CursorOutcomes, Zenon
<1>8. CASE t \in {Put(s, g) : g \in Glyphs}
  BY <1>1, <1>8, Zenon
<1>9. CASE t \in {VTnewline(s), CarriageReturn(s), Backspace(s), FormFeed(s)}
  BY <1>2, <1>4, <1>9, Zenon
<1>10. CASE t \in {CursorTo(s, x, y) : x \in Col, y \in Row}
  <2>1. PICK x \in Col, y \in Row : t = CursorTo(s, x, y)
    BY <1>10
  <2>2. QED
    BY <1>5, <2>1, Zenon
<1>11. CASE t \in {EraseBelow(s), EraseAbove(s), EraseRight(s), EraseLeft(s), EraseLine(s), OtherScreen(s)}
  BY <1>11, TextOutcomes, LineOutcomes, Zenon
<1>12. CASE \/ t \in {InsertLines(s, i) : i \in 1 .. Rows - 1 - s.vt.cy}
            \/ t \in {DeleteLines(s, i) : i \in 1 .. (Rows - s.vt.cy) \div 2}
            \/ t \in {ScrollUp(s, i) : i \in 1 .. Rows \div 2} \/ t \in {ScrollDown(s, i) : i \in 1 .. Rows \div 2}
  BY <1>12, LineOutcomes, Zenon
<1>13. CASE t \in {DeleteChars(s, i) : i \in 1 .. Cols - 1}
  BY <1>13, TextOutcomes, Zenon
<1>14. CASE t \in {SetMargins(s, a, b) : a \in {0, 1}, b \in {Rows - 2, Rows - 1}}
  <2>1. PICK a \in {0, 1}, b \in {Rows - 2, Rows - 1} : t = SetMargins(s, a, b)
    BY <1>14
  <2>2. QED
    BY <1>6, <2>1, Zenon
<1>15. CASE \/ t \in {ResetMargins(s)}
            \/ t \in {Index(s), ReverseIndex(s), NextLine(s), SaveCursor(s), RestoreCursor(s)}
            \/ t \in {Wrap(s, on) : on \in BOOLEAN}
  BY <1>4, <1>7, <1>15, LineOutcomes, Zenon
<1>16. CASE t \in {[s EXCEPT !.vt = VTreset(@)]}
  BY <1>2, <1>16
<1>17. QED
  BY <1>8, <1>9, <1>10, <1>11, <1>12, <1>13, <1>14, <1>15, <1>16 DEF Outcomes

\* The terminal is one that is written to.
TerminalInv == Ready([vt |-> vt, screen |-> screen, torn |-> torn])

\* At the start every line is marked, so the screen owes the whole buffer.
LEMMA TerminalStarts == TerminalInit => TerminalInv
<1> SUFFICES ASSUME TerminalInit PROVE TerminalInv
  OBVIOUS
<1>1. 0 \in Row /\ Rows - 1 \in Row /\ 0 \in 0 .. Cols
  BY TerminalAssumption DEF Row
<1>2. Cleared \in Screens /\ [r \in Row |-> 0] \in [Row -> Int]
  BY DEF Cleared, Screens, Cells
<1>3. vt \in Vts /\ vt.dirty = Row /\ vt.cx = 0 /\ vt.cy = 0
  BY <1>1, <1>2 DEF TerminalInit, VTreset, Vts
<1>4. PICK s : s = [vt |-> vt, screen |-> screen, torn |-> torn]
  OBVIOUS
<1>5. s \in States /\ s.vt = vt
  BY <1>2, <1>3, <1>4 DEF TerminalInit, States
<1>6. Ready(s)
  BY <1>1, <1>3, <1>5 DEF Ready, Truthful, Shows
<1>7. QED
  BY <1>4, <1>6 DEF TerminalInv

\* VToutput and the main loop keep it so.
LEMMA TerminalSteps == TerminalInv /\ [TerminalNext]_terminalVars => TerminalInv'
<1> SUFFICES ASSUME TerminalInv, [TerminalNext]_terminalVars PROVE TerminalInv'
  OBVIOUS
<1>1. PICK s : s = [vt |-> vt, screen |-> screen, torn |-> torn]
  OBVIOUS
<1>2. Ready(s) /\ s.vt = vt /\ s.screen = screen /\ s.torn = torn
  BY <1>1 DEF TerminalInv
<1>3. CASE Output
  <2>1. PICK t \in Outcomes(s) : /\ t.vt.cx \in 0 .. Cols /\ t.vt.cy \in Row
                                /\ vt' = t.vt /\ screen' = t.screen /\ torn' = t.torn
    BY <1>1, <1>3, Zenon DEF Output
  <2>2. Truthful(t)
    BY <1>2, <2>1, OutcomesAre
  <2>3. t \in [vt : Vts, screen : Screens, torn : SUBSET Row]
    BY <2>2 DEF Truthful, States
  <2>4. t = [vt |-> t.vt, screen |-> t.screen, torn |-> t.torn]
    BY <2>3
  <2>5. QED
    BY <2>1, <2>2, <2>4 DEF TerminalInv, Ready
<1>4. CASE Repaint
  <2>1. PICK d : d = Rendered(s)
    OBVIOUS
  <2>2. screen' = d.screen /\ torn' = d.torn /\ vt' = [vt EXCEPT !.dirty = {}]
    BY <1>1, <1>4, <2>1, Zenon DEF Repaint
  <2>3. d \in States /\ \A r \in Row : r \notin d.torn => d.screen[r] = vt.buffer[r]
    BY <1>2, <2>1, DrawnIs DEF Ready
  <2>4. vt \in Vts
    BY <1>2, ReadyIs
  <2>5. vt' \in Vts /\ vt'.buffer = vt.buffer /\ vt'.dirty = {} /\ vt'.cx = vt.cx /\ vt'.cy = vt.cy
    BY <2>2, <2>4 DEF Vts
  <2>6. PICK t : t = [vt |-> vt', screen |-> screen', torn |-> torn']
    OBVIOUS
  <2>7. t \in States /\ t.vt = vt' /\ t.screen = d.screen /\ t.torn = d.torn
    BY <2>2, <2>3, <2>5, <2>6 DEF States
  <2>8. Ready(t)
    BY <1>2, <2>3, <2>5, <2>7 DEF Ready, Truthful, Shows
  <2>9. QED
    BY <2>6, <2>8 DEF TerminalInv
<1>5. CASE UNCHANGED terminalVars
  BY <1>5 DEF terminalVars, TerminalInv
<1>6. QED
  BY <1>3, <1>4, <1>5 DEF TerminalNext

\* Every line of the window that is neither waiting to be drawn nor torn shows
\* what the buffer holds, for windows of any size and whatever was written,
\* scrolled and drawn before: VToutput, movedisplaylines and WindowRender.
THEOREM ScreenFollows == TerminalSpec => []ScreenIsTrue
<1>1. TerminalInit => TerminalInv
  BY TerminalStarts
<1>2. TerminalInv /\ [TerminalNext]_terminalVars => TerminalInv'
  BY TerminalSteps
<1>3. TerminalInv => ScreenIsTrue
  BY DEF TerminalInv, Ready, Truthful, Shows, ScreenIsTrue
<1>4. QED
  BY <1>1, <1>2, <1>3, PTL DEF TerminalSpec

-----------------------------------------------------------------------------
\* The converter to ELF

\* A sum grows by one size after the other.
LEMMA TotalIs ==
    ASSUME NEW s \in Seq(Nat)
    PROVE  /\ Total(s, 0) = 0
           /\ \A k \in 0 .. Len(s) : Total(s, k) \in Nat
           /\ \A k \in 1 .. Len(s) : Total(s, k) = Total(s, k - 1) + s[k]
<1>1. PICK n \in Nat : n = Len(s)
  BY LenProperties
<1>2. \A k \in 1 .. n : s[k] \in Nat
  BY <1>1
<1> DEFINE Def(f) == [k \in 0 .. n |-> IF k = 0 THEN 0 ELSE f[k - 1] + s[k]]
           sum == CHOOSE f : f = Def(f)
           grow == [j \in 1 .. n |-> [v \in Nat |-> v + s[j]]]
<1>3. grow \in [1 .. n -> [Nat -> Nat]] /\ \A j \in 1 .. n : \A v \in Nat : grow[j][v] = v + s[j]
  BY <1>2
<1> HIDE DEF grow
<1>4. PICK f \in [0 .. n -> Nat] : f[0] = 0 /\ \A j \in 1 .. n : f[j] = grow[j][f[j - 1]]
  <2>1. Recursive(n, Nat)
    BY RecursionIs
  <2>2. 0 \in Nat
    OBVIOUS
  <2>3. QED
    BY <1>3, <2>1, <2>2, Zenon DEF Recursive
<1>5. f = Def(f)
  <2>1. \A j \in 0 .. n : j # 0 => j \in 1 .. n /\ j - 1 \in 0 .. n
    OBVIOUS
  <2>2. \A j \in 0 .. n : f[j] = IF j = 0 THEN 0 ELSE f[j - 1] + s[j]
    BY <1>3, <1>4, <2>1
  <2>3. QED
    BY <2>2
<1>6. sum = Def(sum)
  <2>1. \E h : h = Def(h)
    BY <1>5, Zenon
  <2> HIDE DEF Def
  <2>2. QED
    BY <2>1, Zenon
<1>7. \A k : Total(s, k) = sum[k]
  BY <1>1, Zenon DEF Total
<1> HIDE DEF sum
<1>8. PICK d : d = sum
  OBVIOUS
<1>9. \A j \in 0 .. n : d[j] = IF j = 0 THEN 0 ELSE d[j - 1] + s[j]
  <2>1. d = Def(d)
    BY <1>6, <1>8, Zenon
  <2>2. QED
    BY <2>1
<1> HIDE DEF Def
<1>10. \A j \in 0 .. n : d[j] \in Nat
  <2> DEFINE S == {j \in Nat : j <= n => d[j] \in Nat}
  <2>1. 0 \in S
    BY <1>9
  <2>2. ASSUME NEW j \in 1 .. n, j - 1 \in S PROVE j \in S
    <3>1. d[j - 1] \in Nat /\ j \in 0 .. n /\ j # 0
      BY <2>2
    <3>2. d[j] = d[j - 1] + s[j]
      BY <1>9, <3>1
    <3>3. PICK a \in Nat, b \in Nat : a = d[j - 1] /\ b = s[j]
      BY <1>2, <3>1
    <3>4. d[j] = a + b
      BY <3>2, <3>3
    <3>5. d[j] \in Nat
      BY <3>4
    <3>6. QED
      BY <3>5
  <2> HIDE DEF S
  <2>3. \A j \in 0 .. n : j \in S
    BY <2>1, <2>2, CountUp, Zenon
  <2>4. QED
    BY <2>3 DEF S
<1>11. \A j \in 1 .. n : d[j] = d[j - 1] + s[j]
  BY <1>9
<1>12. d[0] = 0
  BY <1>9
<1>13. \A k : Total(s, k) = d[k]
  BY <1>7, <1>8, Zenon
<1>14. QED
  BY <1>1, <1>10, <1>11, <1>12, <1>13

\* The five pieces of the file, one behind another.
LEMMA FivePieces ==
    ASSUME NEW a \in Nat, NEW b \in Nat, NEW c \in Nat, NEW d \in Nat, NEW e \in Nat
    PROVE  /\ Total(<<a, b, c, d, e>>, 1) = a
           /\ Total(<<a, b, c, d, e>>, 2) = a + b
           /\ Total(<<a, b, c, d, e>>, 3) = a + b + c
           /\ Total(<<a, b, c, d, e>>, 4) = a + b + c + d
           /\ Total(<<a, b, c, d, e>>, 5) = a + b + c + d + e
<1>1. PICK s \in Seq(Nat) : /\ s = <<a, b, c, d, e>> /\ Len(s) = 5
                            /\ s[1] = a /\ s[2] = b /\ s[3] = c /\ s[4] = d /\ s[5] = e
  <2>1. /\ <<a, b, c, d, e>> \in Seq(Nat) /\ Len(<<a, b, c, d, e>>) = 5
        /\ <<a, b, c, d, e>>[1] = a /\ <<a, b, c, d, e>>[2] = b /\ <<a, b, c, d, e>>[3] = c
        /\ <<a, b, c, d, e>>[4] = d /\ <<a, b, c, d, e>>[5] = e
    OBVIOUS
  <2>2. QED
    BY <2>1, Zenon
<1>2. /\ Total(s, 0) = 0 /\ Total(s, 1) = Total(s, 0) + a /\ Total(s, 2) = Total(s, 1) + b
      /\ Total(s, 3) = Total(s, 2) + c /\ Total(s, 4) = Total(s, 3) + d /\ Total(s, 5) = Total(s, 4) + e
  <2>1. Total(s, 0) = 0 /\ \A k \in 1 .. 5 : Total(s, k) = Total(s, k - 1) + s[k]
    BY <1>1, TotalIs
  <2>2. QED
    BY <1>1, <2>1
<1>3. /\ Total(s, 1) = a /\ Total(s, 2) = a + b /\ Total(s, 3) = a + b + c
      /\ Total(s, 4) = a + b + c + d /\ Total(s, 5) = a + b + c + d + e
  BY <1>2
<1>4. QED
  BY <1>1, <1>3

\* The symbols as the header counts them: what is left tells whether there is
\* one more.
LEMMA SymbolBytesAre ==
    ASSUME ph \in Executable, SymLen \in Nat \ {0, 1}
    PROVE  /\ SymbolBytes(0) = 0
           /\ \A k \in 0 .. Len(ph.symbols) : SymbolBytes(k) \in Nat
           /\ \A k \in 1 .. Len(ph.symbols) :
                SymbolBytes(k) = SymbolBytes(k - 1) + SymLen + ph.symbols[k].len
           /\ \A k \in 0 .. Len(ph.symbols) :
                SymbolBytes(k) < SymbolSize - SymLen <=> k < Len(ph.symbols)
<1>1. PICK s \in Seq(Symbol), n \in Nat : s = ph.symbols /\ n = Len(s)
  <2>1. ph.symbols \in Seq(Symbol)
    BY SMT DEF Executable
  <2>2. Len(ph.symbols) \in Nat
    BY <2>1
  <2>3. QED
    BY <2>1, <2>2, Zenon
<1>2. \A k \in 1 .. n : s[k].len \in Nat \ {0}
  <2>1. ASSUME NEW k \in 1 .. n PROVE s[k].len \in Nat \ {0}
    <3>1. s[k] \in Symbol
      BY <1>1
    <3>2. QED
      BY <3>1, SMT DEF Symbol
  <2>2. QED
    BY <2>1
<1>3. PICK z \in Seq(Nat) : z = [k \in 1 .. n |-> SymLen + s[k].len] /\ Len(z) = n
  <2>1. /\ [k \in 1 .. n |-> SymLen + s[k].len] \in Seq(Nat)
        /\ Len([k \in 1 .. n |-> SymLen + s[k].len]) = n
    BY <1>2
  <2>2. QED
    BY <2>1, Zenon
<1>4. \A k : SymbolBytes(k) = Total(z, k)
  BY <1>1, <1>3, Zenon DEF SymbolBytes
<1>5. /\ SymbolBytes(0) = 0
      /\ \A k \in 0 .. n : SymbolBytes(k) \in Nat
      /\ \A k \in 1 .. n : SymbolBytes(k) = SymbolBytes(k - 1) + z[k]
  BY <1>3, <1>4, TotalIs
<1>6. \A k \in 1 .. n : z[k] = SymLen + s[k].len
  BY <1>3
<1>7. ASSUME NEW k \in 1 .. n PROVE SymbolBytes(k) = SymbolBytes(k - 1) + SymLen + s[k].len
  <2>0. k - 1 \in 0 .. n
    OBVIOUS
  <2>1. SymbolBytes(k) = SymbolBytes(k - 1) + z[k] /\ z[k] = SymLen + s[k].len
    BY <1>5, <1>6
  <2>2. PICK a \in Nat, b \in Nat : a = SymbolBytes(k - 1) /\ b = s[k].len
    BY <1>2, <1>5, <2>0, <2>1
  <2>3. a + (SymLen + b) = a + SymLen + b
    OBVIOUS
  <2>4. QED
    BY <2>1, <2>2, <2>3
<1>8. PICK more \in {0, 1} : more = ph.slack
  <2>1. ph.slack \in {0, 1}
    BY SMT DEF Executable
  <2>2. QED
    BY <2>1, Zenon
<1>9. SymbolSize = SymbolBytes(n) + more
  BY <1>1, <1>8, Zenon DEF SymbolSize
<1>10. \A k \in 0 .. n : k < n => SymbolBytes(k) + SymLen < SymbolBytes(n)
  <2> DEFINE S == {j \in Nat : j <= n => \A k \in 0 .. j : k < j => SymbolBytes(k) + SymLen < SymbolBytes(j)}
  <2>1. 0 \in S
    OBVIOUS
  <2>2. ASSUME NEW j \in 1 .. n, j - 1 \in S PROVE j \in S
    <3>1. PICK a \in Nat, b \in Nat \ {0} : a = SymbolBytes(j - 1) /\ b = s[j].len
      <4>1. j - 1 \in 0 .. n
        OBVIOUS
      <4>2. SymbolBytes(j - 1) \in Nat /\ s[j].len \in Nat \ {0}
        BY <1>2, <1>5, <4>1
      <4>3. QED
        BY <4>2
    <3>2. SymbolBytes(j) = a + SymLen + b
      BY <1>7, <3>1
    <3>3. ASSUME NEW k \in 0 .. j, k < j PROVE SymbolBytes(k) + SymLen < SymbolBytes(j)
      <4>1. CASE k = j - 1
        BY <3>1, <3>2, <4>1
      <4>2. CASE k # j - 1
        <5>1. k \in 0 .. j - 1 /\ k < j - 1 /\ k \in 0 .. n
          BY <3>3, <4>2
        <5>2. SymbolBytes(k) + SymLen < a
          BY <2>2, <3>1, <5>1
        <5>3. PICK q \in Nat : q = SymbolBytes(k)
          BY <1>5, <5>1
        <5>4. QED
          BY <3>2, <5>2, <5>3
      <4>3. QED
        BY <4>1, <4>2
    <3>4. QED
      BY <3>3
  <2> HIDE DEF S
  <2>3. n \in S
    <3>1. \A j \in 0 .. n : j \in S
      BY <2>1, <2>2, CountUp, Zenon
    <3>2. QED
      BY <3>1
  <2>4. QED
    BY <2>3 DEF S
<1>11. ASSUME NEW k \in 0 .. n PROVE SymbolBytes(k) < SymbolSize - SymLen <=> k < n
  <2>1. PICK a \in Nat, b \in Nat : a = SymbolBytes(k) /\ b = SymbolBytes(n)
    BY <1>5
  <2>2. k < n => a + SymLen < b
    BY <1>10, <2>1
  <2>3. k = n => a = b
    BY <2>1
  <2>4. QED
    BY <1>9, <2>1, <2>2, <2>3
<1>12. QED
  BY <1>1, <1>5, <1>7, <1>11

\* The exchanges give the three headers in some order, and leave them as they
\* are if the addresses go up.
LEMMA SortedIs ==
    ASSUME NEW a, NEW b, NEW c
    PROVE  /\ ByAddress(<<a, b, c>>) \in {<<a, b, c>>, <<b, a, c>>, <<a, c, b>>, <<b, c, a>>}
           /\ ~(a.addr > b.addr) /\ ~(b.addr > c.addr) => ByAddress(<<a, b, c>>) = <<a, b, c>>
<1>1. ASSUME NEW x, NEW y, NEW z
      PROVE  /\ Exchanged(<<x, y, z>>, 1) = IF x.addr > y.addr THEN <<y, x, z>> ELSE <<x, y, z>>
             /\ Exchanged(<<x, y, z>>, 2) = IF y.addr > z.addr THEN <<x, z, y>> ELSE <<x, y, z>>
  <2>1. [<<x, y, z>> EXCEPT ![1] = y, ![2] = x] = <<y, x, z>>
    OBVIOUS
  <2>2. [<<x, y, z>> EXCEPT ![2] = z, ![3] = y] = <<x, z, y>>
    OBVIOUS
  <2>3. PICK t : t = <<x, y, z>>
    OBVIOUS
  <2>4. t[1] = x /\ t[2] = y /\ t[3] = z /\ 1 + 1 = 2 /\ 2 + 1 = 3
    BY <2>3
  <2>5. /\ Exchanged(t, 1) = IF t[1].addr > t[2].addr THEN [t EXCEPT ![1] = t[2], ![2] = t[1]] ELSE t
        /\ Exchanged(t, 2) = IF t[2].addr > t[3].addr THEN [t EXCEPT ![2] = t[3], ![3] = t[2]] ELSE t
    BY <2>4, Zenon DEF Exchanged
  <2>6. /\ Exchanged(t, 1) = IF x.addr > y.addr THEN [t EXCEPT ![1] = y, ![2] = x] ELSE t
        /\ Exchanged(t, 2) = IF y.addr > z.addr THEN [t EXCEPT ![2] = z, ![3] = y] ELSE t
    BY <2>4, <2>5, Zenon
  <2>7. QED
    BY <2>1, <2>2, <2>3, <2>6, Zenon
<1>2. ByAddress(<<a, b, c>>) = Exchanged(IF a.addr > b.addr THEN <<b, a, c>> ELSE <<a, b, c>>, 2)
  BY <1>1, Zenon DEF ByAddress
<1>3. CASE a.addr > b.addr
  <2>1. ByAddress(<<a, b, c>>) = Exchanged(<<b, a, c>>, 2)
    BY <1>2, <1>3, Zenon
  <2>2. QED
    BY <1>1, <1>3, <2>1, Zenon
<1>4. CASE ~(a.addr > b.addr)
  <2>1. ByAddress(<<a, b, c>>) = Exchanged(<<a, b, c>>, 2)
    BY <1>2, <1>4, Zenon
  <2>2. QED
    BY <1>1, <1>4, <2>1, Zenon
<1>5. QED
  BY <1>3, <1>4, Zenon

\* Where the contents begin that are written behind text and data.
Behind == HeaderLen + ph.textsize + ph.datasize

\* The names are one behind another, and each symbol is that of the executable.
NamesInv ==
    \A i \in 1 .. Len(elfsymbols) - 1 :
        /\ elfsymbols[i + 1].name \in Nat /\ elfsymbols[i + 1].len \in Nat
        /\ elfsymbols[i + 1].value = ph.symbols[i].offset
        /\ elfsymbols[i + 1].shndx = Shndx(ph.symbols[i].segment)
        /\ elfsymbols[i + 1].name + elfsymbols[i + 1].len < stringoffset
        /\ \A j \in 2 .. i : elfsymbols[j].name + elfsymbols[j].len < elfsymbols[i + 1].name

\* The reader is behind the symbols it has made.
ReaderInv ==
    /\ stringoffset \in Nat
    /\ Len(elfsymbols) \in 1 .. Len(ph.symbols) + 1
    /\ elfsymbols = [i \in 1 .. Len(elfsymbols) |-> elfsymbols[i]]
    /\ toread = SymbolBytes(Len(elfsymbols) - 1)

\* All headers, and how far the file is written.
SectionsInv ==
    /\ Len(elfsymbols) = Len(ph.symbols) + 1
    /\ sect = ByAddress(Unsorted) \o
              << [name |-> "strtab", addr |-> 0, offset |-> Behind, size |-> stringoffset],
                 [name |-> "symtab", addr |-> 0, offset |-> Behind + stringoffset,
                  size |-> ElfSymLen * Len(elfsymbols)] >>
    /\ dataoffset = Behind + stringoffset + ElfSymLen * Len(elfsymbols)

OnlyHeaders == <<[piece |-> "headers", size |-> HeaderLen]>>
Contents ==
    << [piece |-> "text", size |-> ph.textsize], [piece |-> "data", size |-> ph.datasize],
       [piece |-> "strtab", size |-> stringoffset], [piece |-> "symtab", size |-> ElfSymLen * Len(elfsymbols)] >>

UniflexInv ==
    /\ ph \in Executable
    /\ step \in {"headers", "symbols", "contents", "done"}
    /\ step = "headers" => stringoffset = 1 /\ toread = 0
    /\ step # "headers" => ReaderInv /\ NamesInv
    /\ step = "symbols" => sect = Unsorted /\ dataoffset = Behind /\ written = OnlyHeaders
    /\ step \in {"contents", "done"} => SectionsInv
    /\ step = "contents" => written = OnlyHeaders
    /\ step = "done" => written = OnlyHeaders \o Contents

\* At the start only the executable is given.
LEMMA UniflexStarts == ElfFileInit => UniflexInv
BY ConverterAssumption DEF ElfFileInit, UniflexInv

\* The first symbol of an ELF file is reserved.
LEMMA HeadersStep == ASSUME UniflexInv, Headers PROVE UniflexInv'
<1>1. ph \in Executable /\ ph' = ph /\ toread' = toread /\ step' = "symbols" /\ step = "headers"
  BY Zenon DEF UniflexInv, Headers
<1>2. PICK s : s = elfsymbols'
  OBVIOUS
<1>3. s = <<[name |-> 0, len |-> 0, value |-> 0, shndx |-> 0, type |-> "none"]>>
  BY <1>2, Zenon DEF Headers
<1>4. Len(s) = 1 /\ s = [i \in 1 .. Len(s) |-> s[i]]
  <2>1. PICK e : e = [name |-> 0, len |-> 0, value |-> 0, shndx |-> 0, type |-> "none"]
    OBVIOUS
  <2>2. s = <<e>>
    BY <1>3, <2>1, Zenon
  <2>3. QED
    BY <2>2
<1>5. stringoffset' \in Nat
  BY <1>1 DEF UniflexInv, Headers, addstring
<1>6. SymbolBytes(0)' = 0 /\ Len(ph.symbols) \in Nat
  <2>1. SymbolBytes(0) = 0
    BY <1>1, SymbolBytesAre, ConverterAssumption
  <2>2. SymbolBytes(0)' = SymbolBytes(0)
    BY <1>1, Zenon DEF SymbolBytes
  <2>3. ph.symbols \in Seq(Symbol)
    BY <1>1, SMT DEF Executable
  <2>4. QED
    BY <2>1, <2>2, <2>3
<1>7. ReaderInv'
  <2>1. 1 - 1 = 0 /\ 1 \in 1 .. Len(ph.symbols) + 1 /\ toread' = 0
    BY <1>1, <1>6 DEF UniflexInv
  <2>2. SymbolBytes(Len(s) - 1)' = 0
    BY <1>2, <1>4, <1>6, <2>1
  <2>3. QED
    BY <1>1, <1>2, <1>4, <1>5, <2>1, <2>2 DEF ReaderInv
<1>8. NamesInv'
  BY <1>2, <1>4 DEF NamesInv
<1>9. sect' = Unsorted' /\ dataoffset' = Behind' /\ written' = OnlyHeaders'
  BY <1>1, Zenon DEF Headers, Unsorted, Behind, OnlyHeaders
<1>10. QED
  BY <1>1, <1>7, <1>8, <1>9 DEF UniflexInv

\* While a symbol is left in what the header counts, there is one.
LEMMA MoreIsThere ==
    ASSUME UniflexInv, ReaderInv
    PROVE  /\ ph.symbols \in Seq(Symbol) /\ Len(ph.symbols) \in Nat
           /\ Len(elfsymbols) \in Nat \ {0}
           /\ MoreSymbols <=> Len(elfsymbols) - 1 < Len(ph.symbols)
<1>1. ph \in Executable
  BY Zenon DEF UniflexInv
<1>2. ph.symbols \in Seq(Symbol)
  BY <1>1, SMT DEF Executable
<1>3. PICK n \in Nat : n = Len(ph.symbols)
  BY <1>2
<1>4. PICK l \in 1 .. n + 1 : l = Len(elfsymbols)
  BY <1>3 DEF ReaderInv
<1>5. l - 1 \in 0 .. n
  OBVIOUS
<1>6. SymbolBytes(l - 1) < SymbolSize - SymLen <=> l - 1 < n
  BY <1>1, <1>3, <1>5, SymbolBytesAre, ConverterAssumption
<1>7. MoreSymbols <=> l - 1 < n
  BY <1>4, <1>6, Zenon DEF MoreSymbols, ReaderInv
<1>8. QED
  BY <1>2, <1>3, <1>4, <1>7

\* The next symbol gets its name behind the others.
LEMMA ReadSymbolStep == ASSUME UniflexInv, ReadSymbol PROVE UniflexInv'
<1>1. /\ ph \in Executable /\ ReaderInv /\ NamesInv /\ step = "symbols" /\ step' = "symbols" /\ ph' = ph
      /\ sect = Unsorted /\ dataoffset = Behind /\ written = OnlyHeaders
      /\ sect' = sect /\ dataoffset' = dataoffset /\ written' = written
  BY DEF UniflexInv, ReadSymbol
<1>2. PICK n \in Nat, l \in Nat \ {0} : n = Len(ph.symbols) /\ l = Len(elfsymbols) /\ l - 1 < n
  <2>1. Len(ph.symbols) \in Nat /\ Len(elfsymbols) \in Nat \ {0} /\ (MoreSymbols <=> Len(elfsymbols) - 1 < Len(ph.symbols))
    BY <1>1, MoreIsThere
  <2>2. MoreSymbols
    BY Zenon DEF ReadSymbol
  <2>3. QED
    BY <2>1, <2>2
<1>3. PICK s : s = ph.symbols[l] /\ s \in Symbol
  <2>1. ph.symbols \in Seq(Symbol) /\ l \in 1 .. n
    BY <1>1, <1>2, SMT DEF Executable
  <2>2. QED
    BY <1>2, <2>1
<1>4. s.len \in Nat \ {0}
  BY <1>3 DEF Symbol
<1>5. PICK e : /\ e.name = stringoffset /\ e.len = s.len /\ e.value = s.offset /\ e.shndx = Shndx(s.segment)
               /\ elfsymbols' = Append(elfsymbols, e)
  <2>1. PICK e : e = [name |-> stringoffset, len |-> s.len, value |-> s.offset, shndx |-> Shndx(s.segment),
                      type |-> IF s.segment = "TEXT" THEN "func" ELSE "object"]
    OBVIOUS
  <2>2. e.name = stringoffset /\ e.len = s.len /\ e.value = s.offset /\ e.shndx = Shndx(s.segment)
    BY <2>1
  <2>3. elfsymbols' = Append(elfsymbols, e)
    BY <1>2, <1>3, <2>1, Zenon DEF ReadSymbol
  <2>4. QED
    BY <2>2, <2>3, Zenon
<1>6. PICK q : q = elfsymbols'
  OBVIOUS
<1>7. /\ Len(q) = l + 1 /\ q = [i \in 1 .. Len(q) |-> q[i]]
      /\ \A i \in 1 .. l : q[i] = elfsymbols[i]
      /\ q[l + 1] = e
  <2>1. PICK r : r = elfsymbols /\ r = [i \in 1 .. l |-> r[i]] /\ Len(r) = l
    BY <1>1, <1>2, Zenon DEF ReaderInv
  <2>2. PICK T : T = {r[i] : i \in 1 .. l} \cup {e}
    OBVIOUS
  <2>3. r \in Seq(T) /\ e \in T
    BY <2>1, <2>2
  <2>4. q = Append(r, e)
    BY <1>5, <1>6, <2>1, Zenon
  <2>5. q \in Seq(T) /\ Len(q) = l + 1 /\ (\A i \in 1 .. l : q[i] = r[i]) /\ q[l + 1] = e
    BY <2>1, <2>3, <2>4
  <2>6. QED
    BY <2>1, <2>5
<1>8. PICK here \in Nat, len \in Nat : here = stringoffset /\ len = s.len
  BY <1>1, <1>4 DEF ReaderInv
<1>9. stringoffset' = here + len + 1
  BY <1>2, <1>3, <1>8, Zenon DEF ReadSymbol, addstring
<1>10. ReaderInv'
  <2>1. /\ SymbolBytes(l - 1) \in Nat /\ SymbolBytes(l) = SymbolBytes(l - 1) + SymLen + s.len
        /\ SymLen \in Nat
    <3>1. l \in 1 .. n /\ l - 1 \in 0 .. n
      BY <1>2
    <3>2. QED
      BY <1>1, <1>2, <1>3, <3>1, SymbolBytesAre, ConverterAssumption
  <2>2. toread' = SymbolBytes(l)
    <3>1. toread = SymbolBytes(l - 1)
      BY <1>1, <1>2 DEF ReaderInv
    <3>2. toread' = toread + SymLen + s.len
      BY <1>2, <1>3, Zenon DEF ReadSymbol
    <3>3. QED
      BY <2>1, <3>1, <3>2
  <2>3. SymbolBytes(l)' = SymbolBytes(l)
    BY <1>1, Zenon DEF SymbolBytes
  <2>4. Len(q) - 1 = l /\ Len(q) \in 1 .. n + 1
    BY <1>2, <1>7
  <2>5. stringoffset' \in Nat
    BY <1>8, <1>9
  <2>6. QED
    BY <1>1, <1>2, <1>6, <1>7, <2>2, <2>3, <2>4, <2>5 DEF ReaderInv
<1>11. NamesInv'
  <2> DEFINE Right(i) == /\ q[i + 1].name \in Nat /\ q[i + 1].len \in Nat
                         /\ q[i + 1].value = ph.symbols[i].offset
                         /\ q[i + 1].shndx = Shndx(ph.symbols[i].segment)
                         /\ q[i + 1].name + q[i + 1].len < here + len + 1
                         /\ \A j \in 2 .. i : q[j].name + q[j].len < q[i + 1].name
  <2> SUFFICES ASSUME NEW i \in 1 .. l PROVE Right(i)
    <3>1. 1 .. Len(q) - 1 = 1 .. l
      BY <1>7
    <3>2. ph' = ph /\ elfsymbols' = q /\ stringoffset' = here + len + 1
      BY <1>1, <1>6, <1>9, Zenon
    <3>3. QED
      BY <3>1, <3>2, Zenon DEF NamesInv
  <2>1. CASE i # l
    <3>1. i \in 1 .. l - 1 /\ i + 1 \in 1 .. l /\ \A j \in 2 .. i : j \in 1 .. l
      BY <2>1
    <3>2. q[i + 1] = elfsymbols[i + 1] /\ \A j \in 2 .. i : q[j] = elfsymbols[j]
      BY <1>7, <3>1
    <3>3. PICK p : p = elfsymbols[i + 1]
      OBVIOUS
    <3>4. /\ p.name \in Nat /\ p.len \in Nat /\ p.value = ph.symbols[i].offset
          /\ p.shndx = Shndx(ph.symbols[i].segment) /\ p.name + p.len < here
          /\ \A j \in 2 .. i : elfsymbols[j].name + elfsymbols[j].len < p.name
      BY <1>1, <1>2, <1>8, <3>1, <3>3, Zenon DEF NamesInv
    <3>5. p.name + p.len < here + len + 1
      BY <3>4
    <3>6. QED
      BY <3>2, <3>3, <3>4, <3>5, Zenon
  <2>2. CASE i = l
    <3>1. q[i + 1] = e
      BY <1>7, <2>2, Zenon
    <3>2. e.name = here /\ e.len = len /\ here + len < here + len + 1
      BY <1>5, <1>8
    <3>3. ASSUME NEW j \in 2 .. i PROVE q[j].name + q[j].len < here
      <4>1. PICK h \in 1 .. l - 1 : j = h + 1
        <5>1. j - 1 \in 1 .. l - 1 /\ j = (j - 1) + 1
          BY <2>2
        <5>2. QED
          BY <5>1, Zenon
      <4>2. q[j] = elfsymbols[h + 1]
        BY <1>7, <2>2, <4>1
      <4>3. QED
        BY <1>1, <1>2, <1>8, <4>1, <4>2, Zenon DEF NamesInv
    <3>4. e.value = ph.symbols[i].offset /\ e.shndx = Shndx(ph.symbols[i].segment)
      BY <1>3, <1>5, <2>2, Zenon
    <3>5. QED
      BY <1>8, <3>1, <3>2, <3>3, <3>4
  <2>3. QED
    BY <2>1, <2>2, Zenon
<1>12. sect' = Unsorted' /\ dataoffset' = Behind' /\ written' = OnlyHeaders'
  BY <1>1, Zenon DEF Unsorted, Behind, OnlyHeaders
<1>13. QED
  BY <1>1, <1>10, <1>11, <1>12 DEF UniflexInv

\* What is true of the symbols does not depend on the rest.
LEMMA SymbolsStay ==
    ASSUME ReaderInv, NamesInv, UNCHANGED <<ph, stringoffset, elfsymbols, toread>>
    PROVE  ReaderInv' /\ NamesInv'
<1>1. SymbolBytes(Len(elfsymbols) - 1)' = SymbolBytes(Len(elfsymbols) - 1)
  BY Zenon DEF SymbolBytes
<1>2. ReaderInv'
  BY <1>1, Zenon DEF ReaderInv
<1>3. NamesInv'
  BY Zenon DEF NamesInv
<1>4. QED
  BY <1>2, <1>3

\* When the last symbol is read, the rest of the headers is known.
LEMMA SortSectionsStep == ASSUME UniflexInv, SortSections PROVE UniflexInv'
<1>1. /\ ph \in Executable /\ ReaderInv /\ NamesInv /\ step = "symbols" /\ step' = "contents" /\ ph' = ph
      /\ sect = Unsorted /\ dataoffset = Behind /\ written = OnlyHeaders
      /\ stringoffset' = stringoffset /\ elfsymbols' = elfsymbols /\ toread' = toread /\ written' = written
  BY DEF UniflexInv, SortSections
<1>2. Len(elfsymbols) = Len(ph.symbols) + 1
  <2>1. /\ Len(ph.symbols) \in Nat /\ Len(elfsymbols) \in Nat \ {0}
        /\ MoreSymbols <=> Len(elfsymbols) - 1 < Len(ph.symbols)
    BY <1>1, MoreIsThere
  <2>2. ~MoreSymbols
    BY Zenon DEF SortSections
  <2>3. Len(elfsymbols) \in 1 .. Len(ph.symbols) + 1
    BY <1>1, Zenon DEF ReaderInv
  <2>4. QED
    BY <2>1, <2>2, <2>3
<1>3. SectionsInv'
  <2>1. sect' = ByAddress(Unsorted) \o Tables
    BY <1>1, Zenon DEF SortSections
  <2>2. dataoffset' = Behind + stringoffset + ElfSymLen * Len(elfsymbols)
    BY <1>1, Zenon DEF SortSections
  <2>3. Behind' = Behind /\ Unsorted' = Unsorted
    BY <1>1, Zenon DEF Behind, Unsorted
  <2>4. QED
    BY <1>1, <1>2, <2>1, <2>2, <2>3, Zenon DEF SectionsInv, Tables
<1>4. ReaderInv' /\ NamesInv'
  BY <1>1, SymbolsStay, Zenon
<1>5. written' = OnlyHeaders'
  BY <1>1, Zenon DEF OnlyHeaders
<1>6. QED
  BY <1>1, <1>3, <1>4, <1>5 DEF UniflexInv

\* The contents follow.
LEMMA WriteContentsStep == ASSUME UniflexInv, WriteContents PROVE UniflexInv'
<1>1. /\ ph \in Executable /\ ReaderInv /\ NamesInv /\ SectionsInv /\ step = "contents" /\ step' = "done"
      /\ written = OnlyHeaders /\ UNCHANGED <<ph, dataoffset, stringoffset, sect, elfsymbols, toread>>
  BY DEF UniflexInv, WriteContents
<1>2. ReaderInv' /\ NamesInv'
  BY <1>1, SymbolsStay, Zenon
<1>3. SectionsInv'
  BY <1>1, Zenon DEF SectionsInv, Unsorted, Behind
<1>4. written' = (OnlyHeaders \o Contents)'
  <2>1. written' = OnlyHeaders \o Contents
    BY <1>1, Zenon DEF WriteContents, Contents
  <2>2. (OnlyHeaders \o Contents)' = OnlyHeaders \o Contents
    BY <1>1, Zenon DEF OnlyHeaders, Contents
  <2>3. QED
    BY <2>1, <2>2, Zenon
<1>5. QED
  BY <1>1, <1>2, <1>3, <1>4 DEF UniflexInv

\* Whatever step the converter takes.
LEMMA UniflexSteps == UniflexInv /\ [ElfFileNext]_uniflexVars => UniflexInv'
<1> SUFFICES ASSUME UniflexInv, [ElfFileNext]_uniflexVars PROVE UniflexInv'
  OBVIOUS
<1>1. CASE Headers
  BY <1>1, HeadersStep
<1>2. CASE ReadSymbol
  BY <1>2, ReadSymbolStep
<1>3. CASE SortSections
  BY <1>3, SortSectionsStep
<1>4. CASE WriteContents
  BY <1>4, WriteContentsStep
<1>5. CASE UNCHANGED uniflexVars
  <2>1. UNCHANGED <<ph, dataoffset, stringoffset, sect, elfsymbols, toread, written, step>>
    BY <1>5, Zenon DEF uniflexVars
  <2>2. step # "headers" => ReaderInv' /\ NamesInv'
    BY <2>1, SymbolsStay, Zenon DEF UniflexInv
  <2>3. SectionsInv' <=> SectionsInv
    BY <2>1, Zenon DEF SectionsInv, Unsorted, Behind
  <2>4. Unsorted' = Unsorted /\ Behind' = Behind /\ OnlyHeaders' = OnlyHeaders /\ (OnlyHeaders \o Contents)' = OnlyHeaders \o Contents
    BY <2>1, Zenon DEF Unsorted, Behind, OnlyHeaders, Contents
  <2>5. QED
    BY <2>1, <2>2, <2>3, <2>4, Zenon DEF UniflexInv
<1>6. QED
  BY <1>1, <1>2, <1>3, <1>4, <1>5 DEF ElfFileNext

\* Each piece is where its header says, and nothing is behind them.
LEMMA PiecesAreThere == UniflexInv => HeadersAreTrue
<1> SUFFICES ASSUME UniflexInv, step = "done" PROVE HeadersAreTrue
  BY Zenon DEF HeadersAreTrue
<1>1. ph \in Executable /\ ReaderInv /\ SectionsInv /\ written = OnlyHeaders \o Contents
  BY DEF UniflexInv
<1>2. PICK h \in Nat, t \in Nat, d \in Nat, n \in Nat, y \in Nat :
        /\ h = HeaderLen /\ t = ph.textsize /\ d = ph.datasize /\ n = stringoffset
        /\ y = ElfSymLen * Len(elfsymbols)
  <2>1. ph.textsize \in Nat /\ ph.datasize \in Nat
    BY <1>1, SMT DEF Executable
  <2>2. ElfSymLen * Len(elfsymbols) \in Nat
    <3>1. Len(elfsymbols) \in Nat
      BY <1>1, MoreIsThere
    <3>2. QED
      BY <3>1, ConverterAssumption, SMT
  <2>3. HeaderLen \in Nat /\ stringoffset \in Nat
    BY <1>1, ConverterAssumption DEF ReaderInv
  <2>4. QED
    BY <2>1, <2>2, <2>3, Zenon
<1>3. PICK w1, w2, w3, w4, w5 :
        /\ Len(written) = 5 /\ written[1] = w1
        /\ written[2] = w2 /\ written[3] = w3 /\ written[4] = w4 /\ written[5] = w5
        /\ w1.size = h /\ w2.size = t /\ w3.size = d /\ w4.size = n /\ w5.size = y
        /\ w2.piece = "text" /\ w3.piece = "data" /\ w4.piece = "strtab" /\ w5.piece = "symtab"
  <2>1. PICK w1 : w1 = [piece |-> "headers", size |-> h]
    OBVIOUS
  <2>2. PICK w2 : w2 = [piece |-> "text", size |-> t]
    OBVIOUS
  <2>3. PICK w3 : w3 = [piece |-> "data", size |-> d]
    OBVIOUS
  <2>4. PICK w4 : w4 = [piece |-> "strtab", size |-> n]
    OBVIOUS
  <2>5. PICK w5 : w5 = [piece |-> "symtab", size |-> y]
    OBVIOUS
  <2>6. written = <<w1>> \o <<w2, w3, w4, w5>>
    BY <1>1, <1>2, <2>1, <2>2, <2>3, <2>4, <2>5, Zenon DEF OnlyHeaders, Contents
  <2>7. /\ Len(written) = 5 /\ written[1] = w1
        /\ written[2] = w2 /\ written[3] = w3 /\ written[4] = w4 /\ written[5] = w5
    BY <2>6
  <2>8. /\ w1.size = h /\ w2.size = t /\ w3.size = d /\ w4.size = n /\ w5.size = y
        /\ w2.piece = "text" /\ w3.piece = "data" /\ w4.piece = "strtab" /\ w5.piece = "symtab"
    BY <2>1, <2>2, <2>3, <2>4, <2>5
  <2>9. QED
    BY <2>7, <2>8, Zenon
<1>4. Len(written) = 5 /\ written[2] = w2 /\ written[3] = w3 /\ written[4] = w4 /\ written[5] = w5
  BY <1>3, Zenon
<1>5. \A k : WrittenAt(k) = Total(<<h, t, d, n, y>>, k - 1)
  <2>1. [j \in 1 .. Len(written) |-> written[j].size] = <<h, t, d, n, y>>
    BY <1>3
  <2>2. QED
    BY <2>1, Zenon DEF WrittenAt
<1>6. /\ WrittenAt(2) = h /\ WrittenAt(3) = h + t /\ WrittenAt(4) = h + t + d
      /\ WrittenAt(5) = h + t + d + n /\ WrittenAt(6) = h + t + d + n + y
  <2>1. 2 - 1 = 1 /\ 3 - 1 = 2 /\ 4 - 1 = 3 /\ 5 - 1 = 4 /\ 6 - 1 = 5
    OBVIOUS
  <2>2. /\ Total(<<h, t, d, n, y>>, 1) = h /\ Total(<<h, t, d, n, y>>, 2) = h + t
        /\ Total(<<h, t, d, n, y>>, 3) = h + t + d /\ Total(<<h, t, d, n, y>>, 4) = h + t + d + n
        /\ Total(<<h, t, d, n, y>>, 5) = h + t + d + n + y
    BY FivePieces
  <2>3. QED
    BY <1>5, <2>1, <2>2, Zenon
<1>7. PICK a, b, c, u, v :
        /\ sect = ByAddress(<<a, b, c>>) \o <<u, v>>
        /\ a.name = "text" /\ a.offset = h /\ a.size = t
        /\ b.name = "data" /\ b.offset = h + t /\ b.size = d
        /\ u.name = "strtab" /\ u.offset = h + t + d /\ u.size = n
        /\ v.name = "symtab" /\ v.offset = h + t + d + n /\ v.size = y
  <2>1. PICK a : a = [name |-> "text", addr |-> ph.textstart, offset |-> h, size |-> t]
    OBVIOUS
  <2>2. PICK b : b = [name |-> "data", addr |-> ph.datastart, offset |-> h + t, size |-> d]
    OBVIOUS
  <2>3. PICK c : c = [name |-> "bss", addr |-> ph.datastart + d, offset |-> 0, size |-> ph.bsssize]
    OBVIOUS
  <2>4. PICK u : u = [name |-> "strtab", addr |-> 0, offset |-> h + t + d, size |-> n]
    OBVIOUS
  <2>5. PICK v : v = [name |-> "symtab", addr |-> 0, offset |-> h + t + d + n, size |-> y]
    OBVIOUS
  <2>6. Unsorted = <<a, b, c>>
    BY <1>2, <2>1, <2>2, <2>3, Zenon DEF Unsorted
  <2>7. Behind = h + t + d
    BY <1>2, Zenon DEF Behind
  <2>8. sect = ByAddress(<<a, b, c>>) \o <<u, v>>
    BY <1>1, <1>2, <2>4, <2>5, <2>6, <2>7, Zenon DEF SectionsInv
  <2>9. /\ a.name = "text" /\ a.offset = h /\ a.size = t
        /\ b.name = "data" /\ b.offset = h + t /\ b.size = d
        /\ u.name = "strtab" /\ u.offset = h + t + d /\ u.size = n
        /\ v.name = "symtab" /\ v.offset = h + t + d + n /\ v.size = y
    BY <2>1, <2>2, <2>3, <2>4, <2>5
  <2>10. QED
    BY <2>8, <2>9, Zenon
<1>8. /\ Len(sect) = 5 /\ sect[4] = u /\ sect[5] = v
      /\ \E i \in 1 .. 3 : sect[i] = a
      /\ \E i \in 1 .. 3 : sect[i] = b
  <2>1. ByAddress(<<a, b, c>>) \in {<<a, b, c>>, <<b, a, c>>, <<a, c, b>>, <<b, c, a>>}
    BY SortedIs, Zenon
  <2>2. ASSUME NEW p, NEW q, NEW r, ByAddress(<<a, b, c>>) = <<p, q, r>>
        PROVE  Len(sect) = 5 /\ sect[1] = p /\ sect[2] = q /\ sect[3] = r /\ sect[4] = u /\ sect[5] = v
    <3>1. sect = <<p, q, r>> \o <<u, v>>
      BY <1>7, <2>2, Zenon
    <3>2. QED
      BY <3>1
  <2>3. 1 \in 1 .. 3 /\ 2 \in 1 .. 3 /\ 3 \in 1 .. 3
    OBVIOUS
  <2>4. QED
    BY <2>1, <2>2, <2>3, Zenon
<1>9. dataoffset = WrittenAt(Len(written) + 1)
  <2>1. Behind = h + t + d
    BY <1>2, Zenon DEF Behind
  <2>2. dataoffset = h + t + d + n + y
    BY <1>1, <1>2, <2>1, Zenon DEF SectionsInv
  <2>3. Len(written) + 1 = 6
    BY <1>4
  <2>4. QED
    BY <1>6, <2>2, <2>3, Zenon
<1>10. ASSUME NEW k \in 2 .. Len(written)
       PROVE  \E i \in 1 .. Len(sect) :
                sect[i].name = written[k].piece /\ sect[i].offset = WrittenAt(k) /\ sect[i].size = written[k].size
  <2>1. k = 2 \/ k = 3 \/ k = 4 \/ k = 5
    BY <1>4
  <2>2. \A i \in 1 .. 3 : i \in 1 .. Len(sect)
    BY <1>8
  <2>3. 4 \in 1 .. Len(sect) /\ 5 \in 1 .. Len(sect)
    BY <1>8
  <2>4. CASE k = 2
    BY <1>3, <1>6, <1>7, <1>8, <2>2, <2>4, Zenon
  <2>5. CASE k = 3
    BY <1>3, <1>6, <1>7, <1>8, <2>2, <2>5, Zenon
  <2>6. CASE k = 4
    BY <1>3, <1>6, <1>7, <1>8, <2>3, <2>6, Zenon
  <2>7. CASE k = 5
    BY <1>3, <1>6, <1>7, <1>8, <2>3, <2>7, Zenon
  <2>8. QED
    BY <2>1, <2>4, <2>5, <2>6, <2>7
<1>11. QED
  BY <1>9, <1>10, Zenon DEF HeadersAreTrue

\* Each symbol is there, in its section and with a name of its own.
LEMMA SymbolsAreThere == UniflexInv => SymbolsAreTrue
<1> SUFFICES ASSUME UniflexInv, step = "done" PROVE SymbolsAreTrue
  BY Zenon DEF SymbolsAreTrue
<1>1. ph \in Executable /\ ReaderInv /\ NamesInv /\ SectionsInv
  BY DEF UniflexInv
<1>2. ph.symbols \in Seq(Symbol) /\ Len(ph.symbols) \in Nat /\ Len(elfsymbols) - 1 = Len(ph.symbols)
  <2>1. ph.symbols \in Seq(Symbol) /\ Len(ph.symbols) \in Nat
    BY <1>1, MoreIsThere
  <2>2. QED
    BY <1>1, <2>1 DEF SectionsInv
<1>3. ASSUME ph.datastart > ph.textstart
      PROVE  sect[1].name = "text" /\ sect[2].name = "data" /\ sect[3].name = "bss"
  <2>1. ph.textstart \in Nat /\ ph.datastart \in Nat /\ ph.datasize \in Nat
    BY <1>1, SMT DEF Executable
  <2>2. PICK a, b, c : /\ Unsorted = <<a, b, c>>
                       /\ a.addr = ph.textstart /\ b.addr = ph.datastart /\ c.addr = ph.datastart + ph.datasize
                       /\ a.name = "text" /\ b.name = "data" /\ c.name = "bss"
    <3>1. PICK a : a = [name |-> "text", addr |-> ph.textstart, offset |-> HeaderLen, size |-> ph.textsize]
      OBVIOUS
    <3>2. PICK b : b = [name |-> "data", addr |-> ph.datastart, offset |-> HeaderLen + ph.textsize, size |-> ph.datasize]
      OBVIOUS
    <3>3. PICK c : c = [name |-> "bss", addr |-> ph.datastart + ph.datasize, offset |-> 0, size |-> ph.bsssize]
      OBVIOUS
    <3>4. Unsorted = <<a, b, c>>
      BY <3>1, <3>2, <3>3, Zenon DEF Unsorted
    <3>5. /\ a.addr = ph.textstart /\ b.addr = ph.datastart /\ c.addr = ph.datastart + ph.datasize
          /\ a.name = "text" /\ b.name = "data" /\ c.name = "bss"
      BY <3>1, <3>2, <3>3
    <3>6. QED
      BY <3>4, <3>5, Zenon
  <2>3. ~(a.addr > b.addr) /\ ~(b.addr > c.addr)
    BY <1>3, <2>1, <2>2
  <2>4. ByAddress(Unsorted) = <<a, b, c>>
    <3>1. ~(a.addr > b.addr) /\ ~(b.addr > c.addr) => ByAddress(<<a, b, c>>) = <<a, b, c>>
      BY SortedIs
    <3>2. QED
      BY <2>2, <2>3, <3>1, Zenon
  <2>5. PICK u, v : sect = <<a, b, c>> \o <<u, v>>
    BY <1>1, <2>4, Zenon DEF SectionsInv
  <2>6. sect[1] = a /\ sect[2] = b /\ sect[3] = c
    BY <2>5
  <2>7. QED
    BY <2>2, <2>6, Zenon
<1>4. ASSUME NEW i \in 1 .. Len(ph.symbols), ph.datastart > ph.textstart, ph.symbols[i].segment # "ABS"
      PROVE  sect[elfsymbols[i + 1].shndx + 1].name = Holding[ph.symbols[i].segment]
  <2>1. ph.symbols[i].segment \in Segments
    <3>1. ph.symbols[i] \in Symbol
      BY <1>2
    <3>2. QED
      BY <3>1, SMT DEF Symbol
  <2>2. PICK g : g = ph.symbols[i].segment /\ (g = "TEXT" \/ g = "DATA" \/ g = "BSS")
    BY <1>4, <2>1 DEF Segments
  <2>3. elfsymbols[i + 1].shndx = Shndx(g)
    BY <1>1, <1>2, <2>2, Zenon DEF NamesInv
  <2>4. /\ g = "TEXT" => Shndx(g) + 1 = 1 /\ Holding[g] = "text"
        /\ g = "DATA" => Shndx(g) + 1 = 2 /\ Holding[g] = "data"
        /\ g = "BSS" => Shndx(g) + 1 = 3 /\ Holding[g] = "bss"
    BY DEF Shndx, Holding
  <2>5. QED
    BY <1>3, <1>4, <2>2, <2>3, <2>4, Zenon
<1>5. ASSUME NEW i \in 1 .. Len(ph.symbols)
      PROVE  /\ elfsymbols[i + 1].value = ph.symbols[i].offset
             /\ elfsymbols[i + 1].name + elfsymbols[i + 1].len < stringoffset
             /\ \A j \in 2 .. i : elfsymbols[j].name + elfsymbols[j].len < elfsymbols[i + 1].name
  BY <1>1, <1>2, Zenon DEF NamesInv
<1>6. Len(elfsymbols) = Len(ph.symbols) + 1
  BY <1>1, Zenon DEF SectionsInv
<1>7. QED
  BY <1>4, <1>5, <1>6, Zenon DEF SymbolsAreTrue

\* An ELF file that uniflextoelf32 wrote describes itself and names what the
\* executable named, for every executable: the headers, written before the
\* number of symbols and names is known, say where each piece is, and the loop
\* over the symbols ends with the last one although the size that it is
\* compared with may count a byte of padding (uniflextoelf32.c, main).
THEOREM ElfFileDescribesItself == ElfFileSpec => []ElfFileIsRight
<1>1. ElfFileInit => UniflexInv
  BY UniflexStarts
<1>2. UniflexInv /\ [ElfFileNext]_uniflexVars => UniflexInv'
  BY UniflexSteps
<1>3. UniflexInv => ElfFileIsRight
  BY PiecesAreThere, SymbolsAreThere, Zenon DEF ElfFileIsRight
<1>4. QED
  BY <1>1, <1>2, <1>3, PTL DEF ElfFileSpec

-----------------------------------------------------------------------------
\* The keys

Code == 0 .. 255
Modifiers == {SHIFT, CONTROL}
KeyWord == [etype : {"press", "release", "abstime", "word"}, eparam : Code]

\* Where a reader of the queue is: what it takes to be held of the modifiers,
\* the character that repeats, how many of the characters s it has come to.
Place(s) == [mods : SUBSET Modifiers, last : Code, count : 0 .. Len(s)]

\* The word e leads a reader from a to b.
Leads(a, b, e, s) ==
    /\ e.etype = "press" /\ e.eparam >= 128 => b = [a EXCEPT !.mods = @ \cup ({e.eparam} \cap Modifiers)]
    /\ e.etype = "press" /\ e.eparam < 128 =>
            /\ b = [mods |-> a.mods, last |-> Char(e.eparam, a.mods), count |-> a.count + 1]
            /\ s[b.count] = b.last
    /\ e.etype = "release" => b = [mods |-> a.mods \ {e.eparam}, last |-> None, count |-> a.count]
    /\ e.etype \notin {"press", "release"} => b = a

\* A reader that goes through all the words comes to all the characters.
ReadsAs(f, words, s) ==
    /\ f \in [0 .. Len(words) -> Place(s)]
    /\ f[0].count = 0 /\ f[Len(words)].count = Len(s)
    /\ \A n \in 1 .. Len(words) : Leads(f[n - 1], f[n], words[n], s)

\* A byte is that of a modifier or of a character.
LEMMA ByteSplits ==
    ASSUME NEW p \in 0 .. 255
    PROVE  /\ p >= 128 \/ p < 128
           /\ p >= 128 => ~(p < 128)
           /\ p < 128 => p \in 0 .. 127 /\ ~(p >= 128)
OBVIOUS

\* A place of the ring.
LEMMA SlotIs ==
    ASSUME NEW R \in Nat \ {0}, NEW x \in 0 .. R + R - 1
    PROVE  x % R = IF x < R THEN x ELSE x - R
<1>1. CASE x < R
  BY <1>1
<1>2. CASE x >= R
  BY <1>2
<1>3. QED
  BY <1>1, <1>2

\* The character of a key is a byte, and of what is held only the modifiers count.
LEMMA CharIs ==
    ASSUME NEW k \in 0 .. 127, NEW m
    PROVE  /\ Char(k, m) \in Code
           /\ Char(k, m \cup {k}) = Char(k, m \cap Modifiers)
           /\ Char(k, m) = Char(k, m \cap Modifiers)
<1>1. shifted(k) \in 0 .. 127
  <2>1. CASE IsLetter(k)
    BY <2>1 DEF IsLetter, shifted
  <2>2. CASE ~IsLetter(k) /\ IsDigit(k)
    <3>1. k - 48 \in 1 .. 9
      BY <2>2 DEF IsDigit
    <3>2. <<33, 64, 35, 36, 37, 94, 38, 42, 40>>[k - 48] \in 0 .. 127
      BY <3>1
    <3>3. QED
      BY <2>2, <3>2, Zenon DEF shifted
  <2>3. CASE ~IsLetter(k) /\ ~IsDigit(k)
    BY <2>3 DEF shifted
  <2>4. QED
    BY <2>1, <2>2, <2>3
<1>2. (k - 96) % 256 \in Code /\ (shifted(k) - 96) % 256 \in Code /\ shifted(k) \in Code /\ k \in Code
  BY <1>1 DEF Code
<1>3. /\ SHIFT \in m \cup {k} <=> SHIFT \in m \cap Modifiers
      /\ CONTROL \in m \cup {k} <=> CONTROL \in m \cap Modifiers
  BY DEF SHIFT, CONTROL, Modifiers
<1>4. Char(k, m \cup {k}) = Char(k, m \cap Modifiers)
  BY <1>3 DEF Char
<1>5. Char(k, m) \in Code
  BY <1>2 DEF Char
<1>6. Char(k, m) = Char(k, m \cap Modifiers)
  <2>1. /\ SHIFT \in m <=> SHIFT \in m \cap Modifiers
        /\ CONTROL \in m <=> CONTROL \in m \cap Modifiers
    BY DEF Modifiers
  <2>2. QED
    BY <2>1 DEF Char
<1>7. QED
  BY <1>4, <1>5, <1>6

\* A reader comes to at most one character per word.
LEMMA CountsGrow ==
    ASSUME NEW w \in Seq(KeyWord), NEW s \in Seq(Code), NEW f, ReadsAs(f, w, s), NEW i \in 0 .. Len(w)
    PROVE  \A j \in i .. Len(w) : f[j].count - f[i].count \in 0 .. j - i
<1>1. ASSUME NEW n \in 0 .. Len(w) PROVE f[n].count \in Nat
  <2>1. f[n] \in Place(s) /\ Len(s) \in Nat
    BY DEF ReadsAs
  <2>2. f[n].count \in 0 .. Len(s)
    BY <2>1, Zenon DEF Place
  <2>3. QED
    BY <2>1, <2>2
<1>2. ASSUME NEW n \in 1 .. Len(w)
      PROVE  f[n].count \in {f[n - 1].count, f[n - 1].count + 1}
  <2>1. Leads(f[n - 1], f[n], w[n], s) /\ f[n - 1] \in Place(s) /\ w[n] \in KeyWord
    BY DEF ReadsAs
  <2>2. n - 1 \in 0 .. Len(w)
    OBVIOUS
  <2>3. PICK a \in Place(s) : a = f[n - 1]
    BY <2>2, Zenon DEF ReadsAs
  <2>4. PICK b : b = f[n]
    OBVIOUS
  <2>5. PICK e \in KeyWord : e = w[n]
    BY <2>1
  <2>6. Leads(a, b, e, s)
    BY <2>1, <2>3, <2>4, <2>5, Zenon
  <2>7. b.count \in {a.count, a.count + 1}
    <3>1. e.eparam \in 0 .. 255
      BY DEF KeyWord, Code
    <3>2. CASE e.etype = "press" /\ e.eparam >= 128
      BY <2>6, <3>2 DEF Leads, Place
    <3>3. CASE e.etype = "press" /\ e.eparam < 128
      BY <2>6, <3>3 DEF Leads
    <3>4. CASE e.etype # "press"
      BY <2>6, <3>4 DEF Leads
    <3>5. e.eparam >= 128 \/ e.eparam < 128
      BY <3>1, ByteSplits, Zenon
    <3>6. QED
      BY <3>2, <3>3, <3>4, <3>5, Zenon
  <2>8. QED
    BY <2>3, <2>4, <2>7, Zenon
<1>3. PICK k \in Nat : k = Len(w) - i
  OBVIOUS
<1> DEFINE S == {j \in 0 .. k : f[i + j].count - f[i].count \in 0 .. j}
<1>4. 0 \in S
  BY <1>1, <1>3
<1>5. ASSUME NEW j \in 1 .. k, j - 1 \in S PROVE j \in S
  <2>1. i + j \in 1 .. Len(w) /\ i + (j - 1) = i + j - 1 /\ i + j - 1 \in 0 .. Len(w)
    BY <1>3
  <2>2. f[i + j].count \in {f[i + j - 1].count, f[i + j - 1].count + 1}
    BY <1>2, <2>1
  <2>3. f[i + j - 1].count - f[i].count \in 0 .. j - 1
    BY <1>5, <2>1
  <2>4. f[i + j].count \in Nat /\ f[i + j - 1].count \in Nat /\ f[i].count \in Nat
    BY <1>1, <2>1
  <2>5. f[i + j].count - f[i].count \in 0 .. j
    <3>1. PICK a \in Nat, b \in Nat, c \in Nat : a = f[i].count /\ b = f[i + j - 1].count /\ c = f[i + j].count
      BY <2>4, Zenon
    <3>2. c \in {b, b + 1} /\ b - a \in 0 .. j - 1
      BY <2>2, <2>3, <3>1, Zenon
    <3>3. c - a \in 0 .. j
      BY <3>2
    <3>4. QED
      BY <3>1, <3>3, Zenon
  <2>6. QED
    BY <2>5
<1> HIDE DEF S
<1>6. \A j \in 0 .. k : j \in S
  BY <1>4, <1>5, CountUp, Zenon
<1>7. ASSUME NEW j \in i .. Len(w) PROVE f[j].count - f[i].count \in 0 .. j - i
  <2>1. j - i \in 0 .. k /\ i + (j - i) = j
    BY <1>3
  <2>2. j - i \in S
    BY <1>6, <2>1
  <2>3. QED
    BY <2>1, <2>2 DEF S
<1>8. QED
  BY <1>7

-----------------------------------------------------------------------------
\* readkeyboardevents

Reading == [keymap : SUBSET Code, lastkey : Code, out : Seq(Code), used : Nat]

\* One word more is read, if there is room.
OneMore(acc, e, room) ==
    IF Len(acc.out) >= room THEN acc ELSE [ReadEvent(acc, e) EXCEPT !.used = @ + 1]

\* The fields of a reading.
ReadingOf(map, last, chars, n) == [keymap |-> map, lastkey |-> last, out |-> chars, used |-> n]

\* The parts of what a reader of the words has, and that they are all of it.
LEMMA ReadingIs ==
    ASSUME NEW acc \in Reading
    PROVE  /\ acc.keymap \in SUBSET Code /\ acc.lastkey \in Code /\ acc.out \in Seq(Code) /\ acc.used \in Nat
           /\ acc = ReadingOf(acc.keymap, acc.lastkey, acc.out, acc.used)
BY DEF Reading, ReadingOf

\* What is put together of such parts is what a reader can have.
LEMMA ReadingType ==
    ASSUME NEW map \in SUBSET Code, NEW last \in Code, NEW chars \in Seq(Code), NEW n \in Nat
    PROVE  ReadingOf(map, last, chars, n) \in Reading
BY DEF Reading, ReadingOf

\* A word is read.
LEMMA ReadEventIs ==
    ASSUME NEW acc \in Reading, NEW e \in KeyWord
    PROVE  /\ ReadEvent(acc, e) \in Reading
           /\ e.etype = "press" /\ e.eparam >= 128 =>
                 ReadEvent(acc, e) = ReadingOf(acc.keymap \cup {e.eparam}, acc.lastkey, acc.out, acc.used)
           /\ e.etype = "press" /\ e.eparam < 128 =>
                 ReadEvent(acc, e) = ReadingOf(acc.keymap \cup {e.eparam}, Char(e.eparam, acc.keymap \cap Modifiers),
                                               Append(acc.out, Char(e.eparam, acc.keymap \cap Modifiers)), acc.used)
           /\ e.etype = "release" => ReadEvent(acc, e) = ReadingOf(acc.keymap \ {e.eparam}, None, acc.out, acc.used)
           /\ e.etype \notin {"press", "release"} => ReadEvent(acc, e) = acc
<1>1. e.eparam \in Code /\ e.eparam \in 0 .. 255 /\ e.etype \in {"press", "release", "abstime", "word"} /\ None \in Code
  BY DEF KeyWord, None, Code
<1>2. PICK map \in SUBSET Code, last \in Code, chars \in Seq(Code), n \in Nat : acc = ReadingOf(map, last, chars, n)
  <2>1. /\ acc.keymap \in SUBSET Code /\ acc.lastkey \in Code /\ acc.out \in Seq(Code) /\ acc.used \in Nat
        /\ acc = ReadingOf(acc.keymap, acc.lastkey, acc.out, acc.used)
    BY ReadingIs
  <2>2. QED
    BY <2>1
<1>3. acc.keymap = map /\ acc.lastkey = last /\ acc.out = chars /\ acc.used = n
  BY <1>2 DEF ReadingOf
<1>4. map \cup {e.eparam} \in SUBSET Code /\ map \ {e.eparam} \in SUBSET Code
  BY <1>1
<1>5. CASE e.etype = "press" /\ e.eparam >= 128
  <2>1. ~(e.eparam < 128)
    BY <1>1, <1>5, ByteSplits, Zenon
  <2>2. ReadEvent(acc, e) = [acc EXCEPT !.keymap = @ \cup {e.eparam}]
    BY <1>5, <2>1 DEF ReadEvent
  <2>3. ReadEvent(acc, e) = ReadingOf(map \cup {e.eparam}, last, chars, n)
    BY <1>2, <2>2 DEF ReadingOf
  <2>4. ReadEvent(acc, e) \in Reading
    BY <1>4, <2>3, ReadingType, Zenon
  <2>5. QED
    BY <1>3, <1>5, <2>1, <2>3, <2>4
<1>6. CASE e.etype = "press" /\ e.eparam < 128
  <2>1. e.eparam \in 0 .. 127 /\ ~(e.eparam >= 128)
    <3>1. e.eparam < 128 => e.eparam \in 0 .. 127 /\ ~(e.eparam >= 128)
      BY <1>1, ByteSplits
    <3>2. QED
      BY <1>6, <3>1, Zenon
  <2>2. PICK c \in Code : c = Char(e.eparam, map \cup {e.eparam}) /\ c = Char(e.eparam, map \cap Modifiers)
    BY <2>1, CharIs, Zenon
  <2>3. ReadEvent(acc, e) = [acc EXCEPT !.keymap = @ \cup {e.eparam}, !.out = Append(@, c), !.lastkey = c]
    BY <1>3, <1>6, <2>1, <2>2 DEF ReadEvent
  <2>4. ReadEvent(acc, e) = ReadingOf(map \cup {e.eparam}, c, Append(chars, c), n)
    BY <1>2, <2>3 DEF ReadingOf
  <2>5. Append(chars, c) \in Seq(Code)
    OBVIOUS
  <2>6. ReadEvent(acc, e) \in Reading
    BY <1>4, <2>4, <2>5, ReadingType, Zenon
  <2>7. QED
    BY <1>3, <1>6, <2>1, <2>2, <2>4, <2>6
<1>7. CASE e.etype = "release"
  <2>1. ReadEvent(acc, e) = [acc EXCEPT !.keymap = @ \ {e.eparam}, !.lastkey = None]
    BY <1>7 DEF ReadEvent
  <2>2. ReadEvent(acc, e) = ReadingOf(map \ {e.eparam}, None, chars, n)
    BY <1>2, <2>1 DEF ReadingOf
  <2>3. ReadEvent(acc, e) \in Reading
    BY <1>1, <1>4, <2>2, ReadingType, Zenon
  <2>4. QED
    BY <1>3, <1>7, <2>2, <2>3
<1>8. CASE e.etype \notin {"press", "release"}
  <2>1. ReadEvent(acc, e) = acc
    BY <1>8 DEF ReadEvent
  <2>2. QED
    BY <1>8, <2>1
<1>9. e.eparam >= 128 \/ e.eparam < 128
  BY <1>1, ByteSplits, Zenon
<1>10. QED
  BY <1>5, <1>6, <1>7, <1>8, <1>9

\* One word more is counted.
LEMMA Counted ==
    ASSUME NEW r \in Reading
    PROVE  LET c == [r EXCEPT !.used = @ + 1]
           IN  c \in Reading /\ c = ReadingOf(r.keymap, r.lastkey, r.out, r.used + 1)
<1>1. PICK map \in SUBSET Code, last \in Code, chars \in Seq(Code), n \in Nat : r = ReadingOf(map, last, chars, n)
  <2>1. /\ r.keymap \in SUBSET Code /\ r.lastkey \in Code /\ r.out \in Seq(Code) /\ r.used \in Nat
        /\ r = ReadingOf(r.keymap, r.lastkey, r.out, r.used)
    BY ReadingIs
  <2>2. QED
    BY <2>1
<1>2. r.keymap = map /\ r.lastkey = last /\ r.out = chars /\ r.used = n
  BY <1>1 DEF ReadingOf
<1>3. [r EXCEPT !.used = @ + 1] = ReadingOf(map, last, chars, n + 1)
  BY <1>1 DEF ReadingOf
<1>4. ReadingOf(map, last, chars, n + 1) \in Reading
  BY ReadingType
<1>5. QED
  BY <1>2, <1>3, <1>4, Zenon

\* What the loop has read after each word.
ReadByWords(w, map, last, room) ==
    \E g \in [0 .. Len(w) -> Reading] :
        /\ g[0] = [keymap |-> map, lastkey |-> last, out |-> <<>>, used |-> 0]
        /\ \A j \in 1 .. Len(w) : g[j] = OneMore(g[j - 1], w[j], room)
        /\ ReadEvents(w, map, last, room) = g[Len(w)]

\* The words are read one after another, from a reader who has read nothing until the room is full.
LEMMA ReadEventsIs ==
    ASSUME NEW w \in Seq(KeyWord), NEW map \in SUBSET Code, NEW last \in Code, NEW room
    PROVE  ReadByWords(w, map, last, room)
<1> DEFINE k == Len(w)
           base == [keymap |-> map, lastkey |-> last, out |-> <<>>, used |-> 0]
           way == [j \in 1 .. k |-> [acc \in Reading |-> OneMore(acc, w[j], room)]]
           Is(f) == f = [j \in 0 .. k |-> IF j = 0 THEN base
                                          ELSE IF Len(f[j - 1].out) >= room THEN f[j - 1]
                                          ELSE [ReadEvent(f[j - 1], w[j]) EXCEPT !.used = @ + 1]]
<1>1. base \in Reading
  BY DEF Reading
<1>2. way \in [1 .. k -> [Reading -> Reading]]
  <2>1. ASSUME NEW j \in 1 .. k, NEW acc \in Reading PROVE OneMore(acc, w[j], room) \in Reading
    <3>1. PICK e \in KeyWord : e = w[j]
      OBVIOUS
    <3>2. PICK r \in Reading : r = ReadEvent(acc, e)
      BY ReadEventIs, Zenon
    <3>3. [r EXCEPT !.used = @ + 1] \in Reading
      BY Counted, Zenon
    <3>4. QED
      BY <3>1, <3>2, <3>3, Zenon DEF OneMore
  <2>2. QED
    BY <2>1
<1>3. k \in Nat
  OBVIOUS
<1>4. PICK g \in [0 .. k -> Reading] : g[0] = base /\ \A j \in 1 .. k : g[j] = way[j][g[j - 1]]
  <2>1. Recursive(k, Reading)
    BY <1>3, RecursionIs, Zenon
  <2>2. QED
    BY <1>1, <1>2, <2>1, Zenon DEF Recursive
<1>5. ASSUME NEW j \in 1 .. k PROVE g[j] = OneMore(g[j - 1], w[j], room)
  <2>1. j - 1 \in 0 .. k
    OBVIOUS
  <2>2. g[j - 1] \in Reading /\ g[j] = way[j][g[j - 1]]
    BY <1>4, <2>1
  <2>3. QED
    BY <2>2
<1>6. Is(g)
  <2>1. ASSUME NEW j \in 0 .. k
        PROVE  g[j] = IF j = 0 THEN base ELSE IF Len(g[j - 1].out) >= room THEN g[j - 1]
                      ELSE [ReadEvent(g[j - 1], w[j]) EXCEPT !.used = @ + 1]
    <3>1. CASE j = 0
      BY <1>4, <3>1, Zenon
    <3>2. CASE j # 0
      <4>1. j \in 1 .. k
        BY <3>2
      <4>2. QED
        BY <1>5, <3>2, <4>1, Zenon DEF OneMore
    <3>3. QED
      BY <3>1, <3>2
  <2>2. g = [j \in 0 .. k |-> g[j]]
    BY <1>4
  <2>3. QED
    BY <2>1, <2>2, Zenon
<1>7. ASSUME NEW f, Is(f) PROVE f = g
  <2> DEFINE S == {j \in 0 .. k : f[j] = g[j]}
  <2>1. 0 \in S
    BY <1>4, <1>7
  <2>2. ASSUME NEW j \in 1 .. k, j - 1 \in S PROVE j \in S
    <3>1. j \in 0 .. k /\ j # 0 /\ f[j - 1] = g[j - 1]
      BY <2>2
    <3>2. f[j] = IF Len(f[j - 1].out) >= room THEN f[j - 1]
                 ELSE [ReadEvent(f[j - 1], w[j]) EXCEPT !.used = @ + 1]
      BY <1>7, <3>1, Zenon
    <3>3. g[j] = OneMore(g[j - 1], w[j], room)
      BY <1>5
    <3>4. f[j] = g[j]
      BY <3>1, <3>2, <3>3, Zenon DEF OneMore
    <3>5. QED
      BY <3>1, <3>4
  <2> HIDE DEF S
  <2>3. \A j \in 0 .. k : j \in S
    BY <1>3, <2>1, <2>2, CountUp, Zenon
  <2>4. \A j \in 0 .. k : f[j] = g[j]
    BY <2>3 DEF S
  <2>5. f = [j \in 0 .. k |-> f[j]]
    BY <1>7, Zenon
  <2>6. g = [j \in 0 .. k |-> g[j]]
    BY <1>4
  <2>7. QED
    BY <2>4, <2>5, <2>6, Zenon
<1>8. ReadEvents(w, map, last, room) = (CHOOSE f : Is(f))[k]
  BY Zenon DEF ReadEvents
<1>9. (CHOOSE f : Is(f)) = g
  <2>1. \E f : Is(f)
    BY <1>6, Zenon
  <2>2. Is(CHOOSE f : Is(f))
    BY <2>1, Zenon
  <2>3. QED
    BY <1>7, <2>2, Zenon
<1>10. ReadEvents(w, map, last, room) = g[Len(w)]
  BY <1>8, <1>9, Zenon
<1>11. QED
  BY <1>4, <1>5, <1>10, Zenon DEF ReadByWords

\* A reading that is where a is, after n words.
ReadingAt(r, a, s, n) ==
    /\ r \in Reading /\ r.used = n
    /\ r.keymap \cap Modifiers = a.mods
    /\ r.out = SubSeq(s, 1, a.count)

\* The fields of a place.
PlaceOf(m, last, n) == [mods |-> m, last |-> last, count |-> n]

\* The parts of a place between two words, and that they are all of it.
LEMMA PlaceIs ==
    ASSUME NEW s \in Seq(Code), NEW a \in Place(s)
    PROVE  /\ a.mods \in SUBSET Modifiers /\ a.last \in Code /\ a.count \in 0 .. Len(s) /\ a.count \in Nat
           /\ a = PlaceOf(a.mods, a.last, a.count)
<1>1. Len(s) \in Nat
  OBVIOUS
<1>2. a.mods \in SUBSET Modifiers /\ a.last \in Code /\ a.count \in 0 .. Len(s) /\ a = PlaceOf(a.mods, a.last, a.count)
  BY DEF Place, PlaceOf
<1>3. QED
  BY <1>1, <1>2

\* What a word does to a place, in the fields of both.
LEMMA LeadsIs ==
    ASSUME NEW s \in Seq(Code), NEW a \in Place(s), NEW b \in Place(s), NEW e \in KeyWord, Leads(a, b, e, s)
    PROVE  /\ e.etype = "press" /\ e.eparam >= 128 =>
                b.mods = a.mods \cup ({e.eparam} \cap Modifiers) /\ b.last = a.last /\ b.count = a.count
           /\ e.etype = "press" /\ e.eparam < 128 =>
                /\ b.mods = a.mods /\ b.last = Char(e.eparam, a.mods) /\ b.count = a.count + 1
                /\ s[b.count] = b.last
           /\ e.etype = "release" => b.mods = a.mods \ {e.eparam} /\ b.last = None /\ b.count = a.count
           /\ e.etype \notin {"press", "release"} => b = a
<1>1. PICK m, last, n : a = PlaceOf(m, last, n)
  BY PlaceIs, Zenon
<1>2. a.mods = m /\ a.last = last /\ a.count = n
  BY <1>1 DEF PlaceOf
<1>3. ASSUME e.etype = "press", e.eparam >= 128
      PROVE  b.mods = a.mods \cup ({e.eparam} \cap Modifiers) /\ b.last = a.last /\ b.count = a.count
  <2>1. b = [a EXCEPT !.mods = @ \cup ({e.eparam} \cap Modifiers)]
    BY <1>3, Zenon DEF Leads
  <2>2. b = PlaceOf(m \cup ({e.eparam} \cap Modifiers), last, n)
    BY <1>1, <2>1 DEF PlaceOf
  <2>3. QED
    BY <1>2, <2>2 DEF PlaceOf
<1>4. ASSUME e.etype = "press", e.eparam < 128
      PROVE  /\ b.mods = a.mods /\ b.last = Char(e.eparam, a.mods) /\ b.count = a.count + 1
             /\ s[b.count] = b.last
  BY <1>4 DEF Leads
<1>5. ASSUME e.etype = "release"
      PROVE  b.mods = a.mods \ {e.eparam} /\ b.last = None /\ b.count = a.count
  BY <1>5 DEF Leads
<1>6. ASSUME e.etype \notin {"press", "release"} PROVE b = a
  BY <1>6 DEF Leads
<1>7. QED
  BY <1>3, <1>4, <1>5, <1>6

\* A beginning grows by the element behind it.
LEMMA BeginningGrows ==
    ASSUME NEW s \in Seq(Code), NEW n \in Nat, n + 1 <= Len(s)
    PROVE  Append(SubSeq(s, 1, n), s[n + 1]) = SubSeq(s, 1, n + 1)
<1>1. Len(SubSeq(s, 1, n)) = n /\ \A i \in 1 .. n : SubSeq(s, 1, n)[i] = s[i]
  OBVIOUS
<1>2. Len(SubSeq(s, 1, n + 1)) = n + 1 /\ \A i \in 1 .. n + 1 : SubSeq(s, 1, n + 1)[i] = s[i]
  OBVIOUS
<1>3. SubSeq(s, 1, n) \in Seq(Code) /\ SubSeq(s, 1, n + 1) \in Seq(Code) /\ s[n + 1] \in Code
  OBVIOUS
<1>4. PICK p \in Seq(Code), q \in Seq(Code), c \in Code : p = SubSeq(s, 1, n) /\ q = SubSeq(s, 1, n + 1) /\ c = s[n + 1]
  BY <1>3, Zenon
<1>5. Len(p) = n /\ Len(q) = n + 1 /\ q[n + 1] = c /\ \A i \in 1 .. n : p[i] = q[i]
  BY <1>1, <1>2, <1>4
<1>6. Append(p, c) = q
  BY <1>5
<1>7. QED
  BY <1>4, <1>6, Zenon

\* The loop reads one word as the reader does.
ReadLikewise(r, a, b, e, s, n) ==
    LET c == [ReadEvent(r, e) EXCEPT !.used = @ + 1]
    IN  ReadingAt(c, b, s, n + 1) /\ (r.lastkey = a.last => c.lastkey = b.last)

\* A reader at a place reads the word that leads from it and is at the place it leads to.
LEMMA WordIsRead ==
    ASSUME NEW s \in Seq(Code), NEW r, NEW a \in Place(s), NEW b \in Place(s), NEW e \in KeyWord, NEW n \in Nat,
           ReadingAt(r, a, s, n), Leads(a, b, e, s)
    PROVE  ReadLikewise(r, a, b, e, s, n)
<1>1. r \in Reading /\ r.used = n /\ r.keymap \cap Modifiers = a.mods /\ r.out = SubSeq(s, 1, a.count)
  BY Zenon DEF ReadingAt
<1>2. PICK t \in Reading : t = ReadEvent(r, e)
  BY <1>1, ReadEventIs, Zenon
<1>3. PICK c \in Reading : c = [t EXCEPT !.used = @ + 1] /\ c = ReadingOf(t.keymap, t.lastkey, t.out, t.used + 1)
  BY Counted, Zenon
<1>4. c.keymap = t.keymap /\ c.lastkey = t.lastkey /\ c.out = t.out /\ c.used = t.used + 1
  BY <1>3 DEF ReadingOf
<1>5. /\ t.used = n
      /\ t.keymap \cap Modifiers = b.mods /\ t.out = SubSeq(s, 1, b.count)
      /\ r.lastkey = a.last => t.lastkey = b.last
  <2>1. e.eparam \in 0 .. 255 /\ e.etype \in {"press", "release", "abstime", "word"}
    BY DEF KeyWord, Code
  <2>2. CASE e.etype = "press" /\ e.eparam >= 128
    <3>1. t = ReadingOf(r.keymap \cup {e.eparam}, r.lastkey, r.out, r.used)
      BY <1>1, <1>2, <2>2, ReadEventIs, Zenon
    <3>2. b.mods = a.mods \cup ({e.eparam} \cap Modifiers) /\ b.last = a.last /\ b.count = a.count
      BY <2>2, LeadsIs
    <3>3. t.keymap = r.keymap \cup {e.eparam} /\ t.lastkey = r.lastkey /\ t.out = r.out /\ t.used = r.used
      BY <3>1 DEF ReadingOf
    <3>4. t.keymap \cap Modifiers = b.mods
      BY <1>1, <3>2, <3>3
    <3>5. QED
      BY <1>1, <3>2, <3>3, <3>4
  <2>3. CASE e.etype = "press" /\ e.eparam < 128
    <3>1. t = ReadingOf(r.keymap \cup {e.eparam}, Char(e.eparam, a.mods), Append(r.out, Char(e.eparam, a.mods)), r.used)
      BY <1>1, <1>2, <2>3, ReadEventIs, Zenon
    <3>2. b.mods = a.mods /\ b.last = Char(e.eparam, a.mods) /\ b.count = a.count + 1 /\ s[b.count] = b.last
      BY <2>3, LeadsIs
    <3>3. /\ t.keymap = r.keymap \cup {e.eparam} /\ t.lastkey = b.last
          /\ t.out = Append(SubSeq(s, 1, a.count), s[a.count + 1]) /\ t.used = n
      BY <1>1, <3>1, <3>2 DEF ReadingOf
    <3>4. a.count \in Nat /\ a.count + 1 <= Len(s)
      <4>1. PICK i \in Nat, j \in 0 .. Len(s) : i = a.count /\ j = b.count
        BY PlaceIs, Zenon
      <4>2. j = i + 1 /\ Len(s) \in Nat
        BY <3>2, <4>1
      <4>3. QED
        BY <4>1, <4>2
    <3>5. t.out = SubSeq(s, 1, b.count)
      BY <3>2, <3>3, <3>4, BeginningGrows, Zenon
    <3>6. e.eparam \notin Modifiers
      BY <2>3 DEF Modifiers, SHIFT, CONTROL
    <3>7. t.keymap \cap Modifiers = b.mods
      BY <1>1, <3>2, <3>3, <3>6
    <3>8. QED
      BY <3>3, <3>5, <3>7
  <2>4. CASE e.etype = "release"
    <3>1. t = ReadingOf(r.keymap \ {e.eparam}, None, r.out, r.used)
      BY <1>1, <1>2, <2>4, ReadEventIs, Zenon
    <3>2. b.mods = a.mods \ {e.eparam} /\ b.last = None /\ b.count = a.count
      BY <2>4, LeadsIs
    <3>3. t.keymap = r.keymap \ {e.eparam} /\ t.lastkey = None /\ t.out = r.out /\ t.used = r.used
      BY <3>1 DEF ReadingOf
    <3>4. t.keymap \cap Modifiers = b.mods
      BY <1>1, <3>2, <3>3
    <3>5. QED
      BY <1>1, <3>2, <3>3, <3>4
  <2>5. CASE e.etype \notin {"press", "release"}
    <3>1. t = r
      BY <1>1, <1>2, <2>5, ReadEventIs, Zenon
    <3>2. b = a
      BY <2>5, LeadsIs
    <3>3. QED
      BY <1>1, <3>1, <3>2, Zenon
  <2>6. e.eparam >= 128 \/ e.eparam < 128
    BY <2>1, ByteSplits, Zenon
  <2>7. QED
    BY <2>2, <2>3, <2>4, <2>5, <2>6, Zenon
<1>6. ReadingAt(c, b, s, n + 1)
  BY <1>4, <1>5 DEF ReadingAt
<1>7. QED
  BY <1>2, <1>3, <1>4, <1>5, <1>6, Zenon DEF ReadLikewise

\* The loop comes to a place of the reader: the last one, or one where the
\* buffer is full.
LEMMA PartIsRead ==
    ASSUME NEW w \in Seq(KeyWord), NEW s \in Seq(Code), NEW f, ReadsAs(f, w, s), NEW map \in SUBSET Code,
           map \cap Modifiers = f[0].mods, NEW last \in Code, NEW room \in Nat
    PROVE  \E u \in 0 .. Len(w) :
              /\ ReadingAt(ReadEvents(w, map, last, room), f[u], s, u)
              /\ u = Len(w) \/ f[u].count >= room
              /\ last = f[0].last => ReadEvents(w, map, last, room).lastkey = f[u].last
<1>1. PICK g \in [0 .. Len(w) -> Reading] :
              /\ g[0] = [keymap |-> map, lastkey |-> last, out |-> <<>>, used |-> 0]
              /\ \A j \in 1 .. Len(w) : g[j] = OneMore(g[j - 1], w[j], room)
              /\ ReadEvents(w, map, last, room) = g[Len(w)]
  <2>1. ReadByWords(w, map, last, room)
    BY ReadEventsIs
  <2>2. QED
    BY <2>1, Zenon DEF ReadByWords
<1> DEFINE Good(n, u) == /\ ReadingAt(g[n], f[u], s, u)
                         /\ u = n \/ f[u].count >= room
                         /\ last = f[0].last => g[n].lastkey = f[u].last
           S == {n \in 0 .. Len(w) : \E u \in 0 .. n : Good(n, u)}
<1>2. f \in [0 .. Len(w) -> Place(s)] /\ f[0].count = 0 /\ \A n \in 1 .. Len(w) : Leads(f[n - 1], f[n], w[n], s)
  BY Zenon DEF ReadsAs
<1>3. Len(w) \in Nat
  OBVIOUS
<1>4. 0 \in S
  <2>1. g[0].keymap = map /\ g[0].lastkey = last /\ g[0].out = <<>> /\ g[0].used = 0 /\ g[0] \in Reading
    BY <1>1, <1>3
  <2>2. SubSeq(s, 1, 0) = <<>>
    OBVIOUS
  <2>3. ReadingAt(g[0], f[0], s, 0)
    BY <1>2, <2>1, <2>2, Zenon DEF ReadingAt
  <2>4. Good(0, 0)
    BY <2>1, <2>3, Zenon
  <2>5. 0 \in 0 .. 0 /\ 0 \in 0 .. Len(w)
    BY <1>3
  <2>6. QED
    BY <2>4, <2>5, Zenon
<1>5. ASSUME NEW n \in 1 .. Len(w), n - 1 \in S PROVE n \in S
  <2>1. PICK u \in 0 .. n - 1 : Good(n - 1, u)
    BY <1>5, Zenon
  <2>2. n \in Nat /\ n - 1 \in Nat /\ n - 1 \in 0 .. Len(w) /\ u \in Nat /\ u \in 0 .. Len(w) /\ u \in 0 .. n /\ n \in 0 .. Len(w)
    BY <2>1
  <2>3. g[n] = OneMore(g[n - 1], w[n], room)
    BY <1>1
  <2>4. g[n - 1].out = SubSeq(s, 1, f[u].count)
    BY <2>1, Zenon DEF ReadingAt
  <2>5. f[u] \in Place(s)
    BY <1>2, <2>2
  <2>6. PICK c \in 0 .. Len(s) : c = f[u].count
    BY <2>5, PlaceIs, Zenon
  <2>7. Len(g[n - 1].out) = c
    BY <2>4, <2>6
  <2>8. CASE c >= room
    <3>1. g[n] = g[n - 1]
      BY <2>3, <2>7, <2>8, Zenon DEF OneMore
    <3>2. Good(n, u)
      BY <2>1, <2>6, <2>8, <3>1, Zenon
    <3>3. QED
      BY <2>2, <3>2, Zenon
  <2>9. CASE ~(c >= room)
    <3>1. g[n] = [ReadEvent(g[n - 1], w[n]) EXCEPT !.used = @ + 1]
      BY <2>3, <2>7, <2>9, Zenon DEF OneMore
    <3>2. u = n - 1
      BY <2>1, <2>6, <2>9, Zenon
    <3>3. f[n - 1] \in Place(s) /\ f[n] \in Place(s) /\ Leads(f[n - 1], f[n], w[n], s)
      BY <1>2, <2>2
    <3>4. w[n] \in KeyWord
      OBVIOUS
    <3>5. ReadingAt(g[n - 1], f[n - 1], s, n - 1) /\ (last = f[0].last => g[n - 1].lastkey = f[n - 1].last)
      BY <2>1, <3>2, Zenon
    <3>6. ReadingAt(g[n], f[n], s, (n - 1) + 1) /\ (g[n - 1].lastkey = f[n - 1].last => g[n].lastkey = f[n].last)
      <4>1. ReadLikewise(g[n - 1], f[n - 1], f[n], w[n], s, n - 1)
        BY <2>2, <3>3, <3>4, <3>5, WordIsRead, Zenon
      <4>2. QED
        BY <3>1, <4>1, Zenon DEF ReadLikewise
    <3>7. (n - 1) + 1 = n /\ n \in 0 .. n
      BY <2>2
    <3>8. Good(n, n)
      BY <3>5, <3>6, <3>7, Zenon
    <3>9. QED
      BY <2>2, <3>7, <3>8, Zenon
  <2>10. QED
    BY <2>8, <2>9, Zenon
<1> HIDE DEF S
<1>6. \A n \in 0 .. Len(w) : n \in S
  BY <1>3, <1>4, <1>5, CountUp, Zenon
<1>7. Len(w) \in S
  BY <1>3, <1>6
<1>8. PICK u \in 0 .. Len(w) : Good(Len(w), u)
  BY <1>7, Zenon DEF S
<1>9. QED
  BY <1>1, <1>8, Zenon

\* A place among the characters behind the first c.
CountedFrom(a, c) == PlaceOf(a.mods, a.last, a.count - c)

\* A word leads likewise among other characters, if it finds the same there.
LEMMA LeadsElsewhere ==
    ASSUME NEW s \in Seq(Code), NEW t \in Seq(Code), NEW a \in Place(s), NEW b \in Place(s), NEW e \in KeyWord, NEW c \in Nat,
           Leads(a, b, e, s), b.count = a.count + 1 => t[b.count - c] = s[b.count]
    PROVE  Leads(CountedFrom(a, c), CountedFrom(b, c), e, t)
<1>1. PICK am \in SUBSET Modifiers, al \in Code, an \in Nat : a = PlaceOf(am, al, an) /\ a.mods = am /\ a.last = al /\ a.count = an
  <2>1. a = PlaceOf(a.mods, a.last, a.count) /\ a.mods \in SUBSET Modifiers /\ a.last \in Code /\ a.count \in Nat
    BY PlaceIs, Zenon
  <2>2. QED
    BY <2>1
<1>2. PICK bm \in SUBSET Modifiers, bl \in Code, bn \in Nat : b = PlaceOf(bm, bl, bn) /\ b.mods = bm /\ b.last = bl /\ b.count = bn
  <2>1. b = PlaceOf(b.mods, b.last, b.count) /\ b.mods \in SUBSET Modifiers /\ b.last \in Code /\ b.count \in Nat
    BY PlaceIs, Zenon
  <2>2. QED
    BY <2>1
<1>3. CountedFrom(a, c) = PlaceOf(am, al, an - c) /\ CountedFrom(b, c) = PlaceOf(bm, bl, bn - c)
  BY <1>1, <1>2, Zenon DEF CountedFrom
<1>4. PICK x, y : x = CountedFrom(a, c) /\ y = CountedFrom(b, c)
  OBVIOUS
<1>5. x = [mods |-> am, last |-> al, count |-> an - c] /\ y = [mods |-> bm, last |-> bl, count |-> bn - c]
  BY <1>3, <1>4, Zenon DEF PlaceOf
<1>6. ASSUME e.etype = "press", e.eparam >= 128
      PROVE  y = [x EXCEPT !.mods = @ \cup ({e.eparam} \cap Modifiers)]
  <2>1. bm = am \cup ({e.eparam} \cap Modifiers) /\ bl = al /\ bn = an
    BY <1>1, <1>2, <1>6, LeadsIs
  <2>2. PICK k : k = an - c
    OBVIOUS
  <2>3. x = [mods |-> am, last |-> al, count |-> k] /\ y = [mods |-> am \cup ({e.eparam} \cap Modifiers), last |-> al, count |-> k]
    BY <1>5, <2>1, <2>2, Zenon
  <2>4. PICK z : z = am \cup ({e.eparam} \cap Modifiers)
    OBVIOUS
  <2>5. y = [x EXCEPT !.mods = z] /\ x.mods = am
    <3>1. x = [mods |-> am, last |-> al, count |-> k] /\ y = [mods |-> z, last |-> al, count |-> k]
      BY <2>3, <2>4, Zenon
    <3>2. QED
      BY <3>1
  <2>6. QED
    BY <2>4, <2>5, Zenon
<1>7. ASSUME e.etype = "press", e.eparam < 128
      PROVE  y = [mods |-> x.mods, last |-> Char(e.eparam, x.mods), count |-> x.count + 1] /\ t[y.count] = y.last
  <2>1. bm = am /\ bl = Char(e.eparam, am) /\ bn = an + 1 /\ s[bn] = bl
    BY <1>1, <1>2, <1>7, LeadsIs
  <2>2. bn - c = (an - c) + 1
    BY <2>1
  <2>3. t[bn - c] = s[bn]
    BY <1>1, <1>2, <2>1, Zenon
  <2>4. x.mods = am /\ x.count = an - c /\ y.count = bn - c /\ y.last = bl
    BY <1>5
  <2>5. QED
    BY <1>5, <2>1, <2>2, <2>3, <2>4, Zenon
<1>8. ASSUME e.etype = "release"
      PROVE  y = [mods |-> x.mods \ {e.eparam}, last |-> None, count |-> x.count]
  <2>1. bm = am \ {e.eparam} /\ bl = None /\ bn = an
    BY <1>1, <1>2, <1>8, LeadsIs
  <2>2. QED
    BY <1>5, <2>1
<1>9. ASSUME e.etype \notin {"press", "release"} PROVE y = x
  <2>1. b = a
    BY <1>9, LeadsIs
  <2>2. QED
    BY <1>4, <2>1, Zenon
<1>10. Leads(x, y, e, t)
  BY <1>6, <1>7, <1>8, <1>9, Zenon DEF Leads
<1>11. QED
  BY <1>4, <1>10, Zenon

\* A place is one of other characters too, where there are enough.
LEMMA PlaceBehind ==
    ASSUME NEW s \in Seq(Code), NEW t \in Seq(Code), NEW a \in Place(s), NEW c \in Nat, a.count - c \in 0 .. Len(t)
    PROVE  CountedFrom(a, c) \in Place(t) /\ CountedFrom(a, c).count = a.count - c /\ CountedFrom(a, c).mods = a.mods /\ CountedFrom(a, c).last = a.last
<1>1. a.mods \in SUBSET Modifiers /\ a.last \in Code
  BY PlaceIs, Zenon
<1>2. CountedFrom(a, c) = [mods |-> a.mods, last |-> a.last, count |-> a.count - c]
  BY Zenon DEF CountedFrom, PlaceOf
<1>3. QED
  BY <1>1, <1>2 DEF Place

\* The places of the reader.
LEMMA PlacesAre ==
    ASSUME NEW w \in Seq(KeyWord), NEW s \in Seq(Code), NEW f, ReadsAs(f, w, s), NEW i \in 0 .. Len(w), NEW j \in i .. Len(w)
    PROVE  /\ f[i] \in Place(s) /\ f[j] \in Place(s)
           /\ f[i].count \in Nat /\ f[j].count \in Nat
           /\ f[i].count <= f[j].count /\ f[j].count <= Len(s) /\ f[i].count <= i
<1>1. f \in [0 .. Len(w) -> Place(s)] /\ f[0].count = 0 /\ Len(w) \in Nat /\ Len(s) \in Nat
  BY DEF ReadsAs
<1>2. f[i] \in Place(s) /\ f[j] \in Place(s) /\ 0 \in 0 .. Len(w) /\ i \in 0 .. Len(w) /\ j \in 0 .. Len(w)
  BY <1>1
<1>3. PICK a \in 0 .. Len(s), b \in 0 .. Len(s) : a = f[i].count /\ b = f[j].count
  BY <1>2, PlaceIs, Zenon
<1>4. b - a \in 0 .. j - i
  BY <1>3, CountsGrow, Zenon
<1>5. f[i].count - f[0].count \in 0 .. i - 0
  <2>1. i \in 0 .. Len(w)
    OBVIOUS
  <2>2. QED
    BY <1>2, <2>1, CountsGrow, Zenon
<1>6. a <= b /\ b <= Len(s) /\ a \in Nat /\ b \in Nat
  BY <1>1, <1>3, <1>4
<1>7. a <= i
  <2>1. a - 0 \in 0 .. i - 0
    BY <1>1, <1>3, <1>5, Zenon
  <2>2. QED
    BY <2>1
<1>8. QED
  BY <1>2, <1>3, <1>6, <1>7, Zenon

\* What remains of a reader behind the first u words.
RestOf(f, w, u) == [n \in 0 .. Len(w) - u |-> CountedFrom(f[u + n], f[u].count)]

\* Who starts after some of the words reads the rest of them as the rest of the characters.
LEMMA RestReads ==
    ASSUME NEW w \in Seq(KeyWord), NEW s \in Seq(Code), NEW f, ReadsAs(f, w, s), NEW u \in 0 .. Len(w)
    PROVE  LET v == SubSeq(w, u + 1, Len(w))
               t == SubSeq(s, f[u].count + 1, Len(s))
           IN  /\ v \in Seq(KeyWord) /\ t \in Seq(Code) /\ Len(v) = Len(w) - u /\ Len(t) = Len(s) - f[u].count
               /\ ReadsAs(RestOf(f, w, u), v, t)
<1> DEFINE c == f[u].count
           v == SubSeq(w, u + 1, Len(w))
           t == SubSeq(s, c + 1, Len(s))
           g == RestOf(f, w, u)
<1>1. f \in [0 .. Len(w) -> Place(s)] /\ Len(w) \in Nat /\ Len(s) \in Nat /\ u \in Nat /\ u <= Len(w)
  BY DEF ReadsAs
<1>2. c \in Nat /\ c <= Len(s)
  <2>1. u \in u .. Len(w)
    BY <1>1
  <2>2. QED
    BY <2>1, PlacesAre, Zenon
<1>3. v \in Seq(KeyWord) /\ Len(v) = Len(w) - u /\ \A n \in 1 .. Len(v) : v[n] = w[u + n]
  <2>1. PICK k \in Nat : k = Len(w) - u
    BY <1>1
  <2>2. v \in Seq(KeyWord) /\ Len(v) = k
    BY <1>1, <2>1
  <2>3. ASSUME NEW n \in 1 .. k PROVE v[n] = w[u + n]
    BY <1>1, <2>1
  <2>4. QED
    BY <2>1, <2>2, <2>3
<1>4. t \in Seq(Code) /\ Len(t) = Len(s) - c /\ \A n \in 1 .. Len(t) : t[n] = s[c + n]
  <2>1. PICK k \in Nat : k = Len(s) - c
    BY <1>1, <1>2
  <2>2. PICK d \in Nat : d = c
    BY <1>2
  <2>3. SubSeq(s, d + 1, Len(s)) \in Seq(Code) /\ Len(SubSeq(s, d + 1, Len(s))) = k
    BY <1>1, <1>2, <2>1, <2>2
  <2>4. ASSUME NEW n \in 1 .. k PROVE SubSeq(s, d + 1, Len(s))[n] = s[d + n]
    <3>1. d <= Len(s) /\ k = Len(s) - d
      BY <1>2, <2>1, <2>2, Zenon
    <3>2. QED
      BY <3>1
  <2>5. QED
    BY <2>1, <2>2, <2>3, <2>4
<1> HIDE DEF v, t
<1>5. ASSUME NEW n \in 0 .. Len(v)
      PROVE  /\ u + n \in 0 .. Len(w) /\ u + n \in u .. Len(w) /\ f[u + n] \in Place(s) /\ f[u + n].count \in Nat
             /\ f[u + n].count - c \in 0 .. Len(t)
             /\ g[n] = CountedFrom(f[u + n], c) /\ g[n] \in Place(t) /\ g[n].count = f[u + n].count - c
  <2>1. u + n \in 0 .. Len(w) /\ u + n \in u .. Len(w) /\ n \in 0 .. Len(w) - u
    BY <1>1, <1>3
  <2>2. f[u + n] \in Place(s) /\ f[u + n].count \in Nat /\ c <= f[u + n].count /\ f[u + n].count <= Len(s)
    BY <2>1, PlacesAre, Zenon
  <2>3. PICK d \in Nat : d = f[u + n].count
    BY <2>2, Zenon
  <2>4. d - c \in 0 .. Len(t)
    <3>1. c <= d /\ d <= Len(s)
      BY <2>2, <2>3, Zenon
    <3>2. QED
      BY <1>1, <1>2, <1>4, <3>1
  <2>5. g[n] = CountedFrom(f[u + n], c)
    BY <2>1, Zenon DEF RestOf
  <2>6. f[u + n].count - c \in 0 .. Len(t)
    BY <2>3, <2>4, Zenon
  <2>7. CountedFrom(f[u + n], c) \in Place(t) /\ CountedFrom(f[u + n], c).count = f[u + n].count - c
    BY <1>2, <1>4, <2>2, <2>6, PlaceBehind, Zenon
  <2>8. QED
    BY <2>1, <2>2, <2>5, <2>6, <2>7, Zenon
<1>6. g \in [0 .. Len(v) -> Place(t)]
  <2>1. g = [n \in 0 .. Len(v) |-> g[n]]
    BY <1>3, Zenon DEF RestOf
  <2>2. QED
    BY <1>5, <2>1
<1>7. g[0].count = 0
  <2>1. 0 \in 0 .. Len(v) /\ u + 0 = u
    BY <1>1, <1>3
  <2>2. g[0].count = c - c
    BY <1>5, <2>1, Zenon
  <2>3. QED
    BY <1>2, <2>2
<1>8. g[Len(v)].count = Len(t)
  <2>1. Len(v) \in 0 .. Len(v) /\ u + Len(v) = Len(w)
    BY <1>1, <1>3
  <2>2. f[Len(w)].count = Len(s)
    BY Zenon DEF ReadsAs
  <2>3. QED
    BY <1>4, <1>5, <2>1, <2>2, Zenon
<1>9. ASSUME NEW n \in 1 .. Len(v) PROVE Leads(g[n - 1], g[n], v[n], t)
  <2>1. n - 1 \in 0 .. Len(v) /\ n \in 0 .. Len(v) /\ u + n \in 1 .. Len(w) /\ u + (n - 1) = (u + n) - 1
    BY <1>1, <1>3
  <2>2. PICK a \in Place(s) : a = f[u + (n - 1)]
    BY <1>5, <2>1, Zenon
  <2>3. PICK b \in Place(s) : b = f[u + n]
    BY <1>5, <2>1, Zenon
  <2>4. PICK e \in KeyWord : e = w[u + n] /\ e = v[n]
    <3>1. w[u + n] \in KeyWord
      BY <2>1
    <3>2. v[n] = w[u + n]
      BY <1>3, Zenon
    <3>3. QED
      BY <3>1, <3>2, Zenon
  <2>5. Leads(a, b, e, s)
    BY <2>1, <2>2, <2>3, <2>4, Zenon DEF ReadsAs
  <2>6. b.count = a.count + 1 => t[b.count - c] = s[b.count]
    <3>1. PICK k \in Nat, d \in Nat : k = a.count /\ d = b.count
      BY PlaceIs, Zenon
    <3>2. k - c \in 0 .. Len(t) /\ d - c \in 0 .. Len(t)
      BY <1>5, <2>1, <2>2, <2>3, <3>1, Zenon
    <3>3. ASSUME d = k + 1 PROVE t[d - c] = s[d]
      <4>1. d - c \in 1 .. Len(t) /\ c + (d - c) = d
        <5>1. PICK z \in Nat, q \in Nat : z = c /\ q = Len(t)
          BY <1>2, <1>4
        <5>2. k - z \in 0 .. q /\ d - z \in 0 .. q
          BY <3>2, <5>1, Zenon
        <5>3. d - z \in 1 .. q /\ z + (d - z) = d
          BY <3>3, <5>2
        <5>4. QED
          BY <5>1, <5>3, Zenon
      <4>2. QED
        BY <1>4, <4>1, Zenon
    <3>4. QED
      BY <3>1, <3>3, Zenon
  <2>7. Leads(CountedFrom(a, c), CountedFrom(b, c), e, t)
    BY <1>2, <1>4, <2>5, <2>6, LeadsElsewhere, Zenon
  <2>8. QED
    BY <1>5, <2>1, <2>2, <2>3, <2>4, <2>7, Zenon
<1>10. ReadsAs(g, v, t)
  BY <1>6, <1>7, <1>8, <1>9, Zenon DEF ReadsAs
<1>11. QED
  BY <1>3, <1>4, <1>10, Zenon DEF v, t

\* A reader of the first m words.
BeginningOf(f, m) == [n \in 0 .. m |-> f[n]]

\* CountedFrom nothing a place is itself.
LEMMA BehindNothing ==
    ASSUME NEW s \in Seq(Code), NEW a \in Place(s)
    PROVE  CountedFrom(a, 0) = a
<1>1. a = PlaceOf(a.mods, a.last, a.count) /\ a.count \in Nat
  BY PlaceIs, Zenon
<1>2. a.count - 0 = a.count
  BY <1>1
<1>3. QED
  BY <1>1, <1>2, Zenon DEF CountedFrom

\* Words that lead somewhere among characters s lead there among characters t
\* that are the same as far as they are read.
LEMMA LeadsAmong ==
    ASSUME NEW s \in Seq(Code), NEW t \in Seq(Code), NEW a \in Place(s), NEW b \in Place(s), NEW e \in KeyWord,
           Leads(a, b, e, s), b.count = a.count + 1 => t[b.count] = s[b.count]
    PROVE  Leads(a, b, e, t)
<1>1. b.count - 0 = b.count
  <2>1. b.count \in Nat
    BY PlaceIs, Zenon
  <2>2. QED
    BY <2>1
<1>2. Leads(CountedFrom(a, 0), CountedFrom(b, 0), e, t)
  <2>1. b.count = a.count + 1 => t[b.count - 0] = s[b.count]
    BY <1>1, Zenon
  <2>2. 0 \in Nat
    OBVIOUS
  <2>3. QED
    BY <2>1, <2>2, LeadsElsewhere, Zenon
<1>3. QED
  BY <1>2, BehindNothing, Zenon

\* Who stops after some of the words has read the beginning of the characters.
LEMMA BeginningReads ==
    ASSUME NEW w \in Seq(KeyWord), NEW s \in Seq(Code), NEW f, ReadsAs(f, w, s), NEW m \in 0 .. Len(w)
    PROVE  LET v == SubSeq(w, 1, m)
               t == SubSeq(s, 1, f[m].count)
           IN  /\ v \in Seq(KeyWord) /\ t \in Seq(Code) /\ Len(v) = m /\ Len(t) = f[m].count
               /\ ReadsAs(BeginningOf(f, m), v, t)
<1> DEFINE c == f[m].count
           v == SubSeq(w, 1, m)
           t == SubSeq(s, 1, c)
           g == BeginningOf(f, m)
<1>1. f \in [0 .. Len(w) -> Place(s)] /\ Len(w) \in Nat /\ Len(s) \in Nat /\ m \in Nat /\ m <= Len(w)
  BY DEF ReadsAs
<1>2. c \in Nat /\ c <= Len(s)
  <2>1. m \in m .. Len(w)
    BY <1>1
  <2>2. QED
    BY <2>1, PlacesAre, Zenon
<1>3. v \in Seq(KeyWord) /\ Len(v) = m /\ \A n \in 1 .. m : v[n] = w[n]
  BY <1>1
<1>4. t \in Seq(Code) /\ Len(t) = c /\ \A n \in 1 .. c : t[n] = s[n]
  <2>1. PICK d \in Nat : d = c
    BY <1>2
  <2>2. d <= Len(s)
    BY <1>2, <2>1, Zenon
  <2>3. SubSeq(s, 1, d) \in Seq(Code) /\ Len(SubSeq(s, 1, d)) = d /\ \A n \in 1 .. d : SubSeq(s, 1, d)[n] = s[n]
    BY <2>2
  <2>4. QED
    BY <2>1, <2>3, Zenon
<1> HIDE DEF v, t
<1>5. ASSUME NEW n \in 0 .. m
      PROVE  f[n] \in Place(s) /\ f[n].count \in 0 .. c /\ g[n] = f[n] /\ g[n] \in Place(t)
  <2>1. n \in 0 .. Len(w) /\ m \in n .. Len(w)
    BY <1>1
  <2>2. f[n] \in Place(s) /\ f[n].count \in Nat /\ f[n].count <= c
    BY <2>1, PlacesAre, Zenon
  <2>3. g[n] = f[n]
    BY Zenon DEF BeginningOf
  <2>4. PICK d \in Nat : d = f[n].count
    BY <2>2, Zenon
  <2>5. d <= c
    BY <2>2, <2>4, Zenon
  <2>6. d - 0 = d /\ d \in 0 .. c
    BY <1>2, <2>5
  <2>7. f[n].count - 0 \in 0 .. Len(t) /\ 0 \in Nat
    BY <1>4, <2>4, <2>6
  <2>8. CountedFrom(f[n], 0) \in Place(t)
    BY <1>4, <2>2, <2>7, PlaceBehind, Zenon
  <2>9. f[n] \in Place(t)
    BY <2>2, <2>8, BehindNothing, Zenon
  <2>10. QED
    BY <2>2, <2>3, <2>4, <2>6, <2>9, Zenon
<1>6. g \in [0 .. m -> Place(t)]
  <2>1. g = [n \in 0 .. m |-> g[n]]
    BY Zenon DEF BeginningOf
  <2>2. QED
    BY <1>5, <2>1
<1>7. g[0].count = 0 /\ g[m].count = c
  <2>1. 0 \in 0 .. m /\ m \in 0 .. m
    BY <1>1
  <2>2. f[0].count = 0
    BY Zenon DEF ReadsAs
  <2>3. QED
    BY <1>5, <2>1, <2>2, Zenon
<1>8. ASSUME NEW n \in 1 .. m PROVE Leads(g[n - 1], g[n], v[n], t)
  <2>1. n - 1 \in 0 .. m /\ n \in 0 .. m /\ n \in 1 .. Len(w)
    BY <1>1
  <2>2. PICK a \in Place(s), b \in Place(s) : a = f[n - 1] /\ b = f[n]
    BY <1>5, <2>1, Zenon
  <2>3. PICK e \in KeyWord : e = w[n]
    BY <2>1
  <2>4. e = v[n]
    BY <1>3, <2>3, Zenon
  <2>5. Leads(a, b, e, s)
    BY <2>1, <2>2, <2>3, Zenon DEF ReadsAs
  <2>6. b.count = a.count + 1 => t[b.count] = s[b.count]
    <3>1. PICK k \in 0 .. c, d \in 0 .. c : k = a.count /\ d = b.count
      BY <1>5, <2>1, <2>2, Zenon
    <3>2. d = k + 1 => d \in 1 .. c
      BY <1>2, <3>1
    <3>3. QED
      BY <1>4, <3>1, <3>2, Zenon
  <2>7. Leads(a, b, e, t)
    BY <1>4, <2>5, <2>6, LeadsAmong, Zenon
  <2>8. QED
    BY <1>5, <2>1, <2>2, <2>4, <2>7, Zenon
<1>9. ReadsAs(g, v, t)
  BY <1>3, <1>4, <1>6, <1>7, <1>8, Zenon DEF ReadsAs
<1>10. QED
  BY <1>3, <1>4, <1>9, Zenon DEF v, t

\* A reader that goes one word further.
Longer(f, k, b) == [n \in 0 .. k + 1 |-> IF n = k + 1 THEN b ELSE f[n]]

\* One more word that leads to more characters makes a longer reading.
LEMMA LongerReads ==
    ASSUME NEW w \in Seq(KeyWord), NEW s \in Seq(Code), NEW f, ReadsAs(f, w, s), NEW e \in KeyWord,
           NEW t \in Seq(Code), Len(t) >= Len(s), \A n \in 1 .. Len(s) : t[n] = s[n],
           NEW b \in Place(t), Leads(f[Len(w)], b, e, t), b.count = Len(t)
    PROVE  /\ ReadsAs(Longer(f, Len(w), b), Append(w, e), t)
           /\ Append(w, e) \in Seq(KeyWord) /\ Len(Append(w, e)) = Len(w) + 1
           /\ Longer(f, Len(w), b)[0] = f[0] /\ Longer(f, Len(w), b)[Len(w) + 1] = b
           /\ \A n \in 0 .. Len(w) : Longer(f, Len(w), b)[n] = f[n]
<1> DEFINE k == Len(w)
           v == Append(w, e)
           g == Longer(f, k, b)
<1>1. f \in [0 .. k -> Place(s)] /\ k \in Nat /\ Len(s) \in Nat /\ Len(t) \in Nat
  BY DEF ReadsAs
<1>2. v \in Seq(KeyWord) /\ Len(v) = k + 1 /\ v[k + 1] = e /\ \A n \in 1 .. k : v[n] = w[n]
  OBVIOUS
<1>3. ASSUME NEW n \in 0 .. k
      PROVE  n # k + 1 /\ n \in 0 .. k + 1 /\ g[n] = f[n] /\ f[n] \in Place(s) /\ f[n] \in Place(t)
  <2>1. n # k + 1 /\ n \in 0 .. k + 1 /\ f[n] \in Place(s)
    BY <1>1
  <2>2. g[n] = f[n]
    BY <2>1, Zenon DEF Longer
  <2>3. PICK d \in 0 .. Len(s) : d = f[n].count
    BY <2>1, PlaceIs, Zenon
  <2>4. d - 0 = d /\ d \in 0 .. Len(t) /\ 0 \in Nat
    BY <1>1, <2>3
  <2>5. CountedFrom(f[n], 0) \in Place(t)
    BY <2>1, <2>3, <2>4, PlaceBehind, Zenon
  <2>6. QED
    BY <2>1, <2>2, <2>5, BehindNothing, Zenon
<1>4. g[k + 1] = b /\ k + 1 \in 0 .. k + 1
  <2>1. k + 1 \in 0 .. k + 1
    BY <1>1
  <2>2. QED
    BY <2>1, Zenon DEF Longer
<1>5. g \in [0 .. k + 1 -> Place(t)]
  <2>1. g = [n \in 0 .. k + 1 |-> g[n]]
    BY Zenon DEF Longer
  <2>2. ASSUME NEW n \in 0 .. k + 1 PROVE g[n] \in Place(t)
    <3>1. n = k + 1 \/ n \in 0 .. k
      BY <1>1
    <3>2. QED
      BY <1>3, <1>4, <3>1, Zenon
  <2>3. QED
    BY <2>1, <2>2
<1>6. g[0] = f[0] /\ f[0].count = 0
  <2>1. 0 \in 0 .. k
    BY <1>1
  <2>2. QED
    BY <1>3, <2>1, Zenon DEF ReadsAs
<1>7. ASSUME NEW n \in 1 .. k + 1 PROVE Leads(g[n - 1], g[n], v[n], t)
  <2>1. CASE n = k + 1
    <3>1. n - 1 = k /\ k \in 0 .. k
      BY <1>1, <2>1
    <3>2. QED
      BY <1>2, <1>3, <1>4, <2>1, <3>1, Zenon
  <2>2. CASE n # k + 1
    <3>1. n \in 1 .. k /\ n \in 0 .. k /\ n - 1 \in 0 .. k
      BY <1>1, <2>2
    <3>2. PICK a \in Place(s), c \in Place(s) : a = f[n - 1] /\ c = f[n]
      BY <1>3, <3>1, Zenon
    <3>3. PICK x \in KeyWord : x = w[n]
      BY <3>1
    <3>4. x = v[n]
      BY <1>2, <3>1, <3>3, Zenon
    <3>5. Leads(a, c, x, s)
      BY <3>1, <3>2, <3>3, Zenon DEF ReadsAs
    <3>6. c.count = a.count + 1 => t[c.count] = s[c.count]
      <4>1. PICK i \in 0 .. Len(s), j \in 0 .. Len(s) : i = a.count /\ j = c.count
        BY PlaceIs, Zenon
      <4>2. j = i + 1 => j \in 1 .. Len(s)
        BY <1>1, <4>1
      <4>3. QED
        BY <4>1, <4>2, Zenon
    <3>7. Leads(a, c, x, t)
      BY <3>5, <3>6, LeadsAmong, Zenon
    <3>8. QED
      BY <1>3, <3>1, <3>2, <3>4, <3>7, Zenon
  <2>3. QED
    BY <2>1, <2>2
<1>8. ReadsAs(g, v, t)
  BY <1>2, <1>4, <1>5, <1>6, <1>7, Zenon DEF ReadsAs
<1>9. QED
  BY <1>2, <1>3, <1>4, <1>6, <1>8, Zenon

\* The words lead a reader from a to b, and it takes no other modifiers than
\* those of M to be held.
LeadFrom(w, s, a, b, M) ==
    /\ w \in Seq(KeyWord)
    /\ \E f : /\ ReadsAs(f, w, s) /\ f[0] = a /\ f[Len(w)] = b
             /\ \A n \in 0 .. Len(w) : f[n].mods \subseteq M

\* They lead further with one word more.
LEMMA LeadFurther ==
    ASSUME NEW w, NEW s \in Seq(Code), NEW a, NEW b, NEW M, LeadFrom(w, s, a, b, M), NEW e \in KeyWord,
           NEW t \in Seq(Code), Len(t) >= Len(s), \A n \in 1 .. Len(s) : t[n] = s[n],
           NEW c \in Place(t), Leads(b, c, e, t), c.count = Len(t), c.mods \subseteq M
    PROVE  LeadFrom(Append(w, e), t, a, c, M)
<1>1. w \in Seq(KeyWord)
  BY Zenon DEF LeadFrom
<1>2. PICK f : ReadsAs(f, w, s) /\ f[0] = a /\ f[Len(w)] = b /\ \A n \in 0 .. Len(w) : f[n].mods \subseteq M
  BY Zenon DEF LeadFrom
<1>3. Leads(f[Len(w)], c, e, t)
  BY <1>2, Zenon
<1>4. /\ ReadsAs(Longer(f, Len(w), c), Append(w, e), t)
      /\ Append(w, e) \in Seq(KeyWord) /\ Len(Append(w, e)) = Len(w) + 1
      /\ Longer(f, Len(w), c)[0] = f[0] /\ Longer(f, Len(w), c)[Len(w) + 1] = c
      /\ \A n \in 0 .. Len(w) : Longer(f, Len(w), c)[n] = f[n]
  BY <1>1, <1>2, <1>3, LongerReads
<1>5. ASSUME NEW n \in 0 .. Len(w) + 1 PROVE Longer(f, Len(w), c)[n].mods \subseteq M
  <2>1. n = Len(w) + 1 \/ n \in 0 .. Len(w)
    BY <1>1
  <2>2. QED
    BY <1>2, <1>4, <2>1, Zenon
<1>6. QED
  BY <1>2, <1>4, <1>5, Zenon DEF LeadFrom

\* Where they lead to all characters have been read.
LEMMA LedIs ==
    ASSUME NEW w, NEW s \in Seq(Code), NEW a, NEW b, NEW M, LeadFrom(w, s, a, b, M)
    PROVE  /\ w \in Seq(KeyWord) /\ b \in Place(s) /\ b.count = Len(s) /\ Len(s) \in Nat /\ b.mods \subseteq M /\ a.mods \subseteq M
           /\ a \in Place(s) /\ (w = <<>> => a = b)
<1>1. w \in Seq(KeyWord)
  BY Zenon DEF LeadFrom
<1>2. PICK f : ReadsAs(f, w, s) /\ f[0] = a /\ f[Len(w)] = b /\ \A n \in 0 .. Len(w) : f[n].mods \subseteq M
  BY Zenon DEF LeadFrom
<1>3. Len(w) \in 0 .. Len(w) /\ 0 \in 0 .. Len(w) /\ Len(s) \in Nat /\ (w = <<>> => Len(w) = 0)
  BY <1>1
<1>4. f[0] \in Place(s) /\ f[Len(w)] \in Place(s) /\ f[Len(w)].count = Len(s)
  BY <1>2, <1>3 DEF ReadsAs
<1>5. QED
  BY <1>1, <1>2, <1>3, <1>4, Zenon

\* A word that is no key leaves a reader where it is.
LEMMA IdleIsRead ==
    ASSUME NEW w, NEW s \in Seq(Code), NEW a, NEW b, NEW M, LeadFrom(w, s, a, b, M), NEW e \in KeyWord, e.etype \notin {"press", "release"}
    PROVE  LeadFrom(Append(w, e), s, a, b, M)
<1>1. b \in Place(s) /\ b.count = Len(s) /\ Len(s) \in Nat /\ b.mods \subseteq M
  BY LedIs, Zenon
<1>2. Leads(b, b, e, s)
  BY DEF Leads
<1>3. Len(s) >= Len(s) /\ \A n \in 1 .. Len(s) : s[n] = s[n]
  BY <1>1
<1>4. QED
  BY <1>1, <1>2, <1>3, LeadFurther

\* Time stamps leave a reader where it is.
LEMMA StampsAreRead ==
    ASSUME NEW w, NEW s \in Seq(Code), NEW a, NEW b, NEW M, LeadFrom(w, s, a, b, M), NEW x \in {<<>>, AbsTime}
    PROVE  LeadFrom(w \o x, s, a, b, M)
<1> DEFINE c == [etype |-> "abstime", eparam |-> 0]
           e == [etype |-> "word", eparam |-> 0]
<1>1. c \in KeyWord /\ e \in KeyWord /\ c.etype \notin {"press", "release"} /\ e.etype \notin {"press", "release"}
  BY DEF KeyWord, Code
<1>2. AbsTime = <<c, e, e>>
  BY Zenon DEF AbsTime
<1>3. w \in Seq(KeyWord)
  BY Zenon DEF LeadFrom
<1> HIDE DEF c, e
<1>4. CASE x = <<>>
  <2>1. w \o x = w
    BY <1>3, <1>4
  <2>2. QED
    BY <2>1, Zenon
<1>5. CASE x = AbsTime
  <2>1. w \o x = Append(Append(Append(w, c), e), e)
    BY <1>1, <1>2, <1>3, <1>5
  <2>2. LeadFrom(Append(w, c), s, a, b, M)
    BY <1>1, IdleIsRead, Zenon
  <2>3. LeadFrom(Append(Append(w, c), e), s, a, b, M)
    BY <1>1, <2>2, IdleIsRead, Zenon
  <2>4. LeadFrom(Append(Append(Append(w, c), e), e), s, a, b, M)
    BY <1>1, <2>3, IdleIsRead, Zenon
  <2>5. QED
    BY <2>1, <2>4, Zenon
<1>6. QED
  BY <1>4, <1>5

-----------------------------------------------------------------------------
\* The ring of the graphics library

HostEvent == [etype : {"press", "release", "abstime", "word", "keyup"}, eparam : Code]
Slots == 0 .. RingSize - 1
Rings == [queue : [Slots -> KeyWord], write : Slots]
RingOf(queue, write) == [queue |-> queue, write |-> write]

\* The ring holds the first m of these words, from a slot on.
RingHolds(from, r, words, m) ==
    /\ r \in Rings
    /\ r.write = (from + m) % RingSize
    /\ \A i \in 1 .. m : r.queue[(from + i - 1) % RingSize] = words[i]

\* The slots behind one another.
LEMMA SlotsAre ==
    ASSUME NEW from \in Slots, NEW i \in 0 .. RingSize
    PROVE  /\ (from + i) % RingSize \in Slots
           /\ (from + i) % RingSize = IF from + i < RingSize THEN from + i ELSE from + i - RingSize
<1>1. RingSize \in Nat \ {0}
  BY KeysAssumption
<1>2. PICK R \in Nat \ {0} : R = RingSize
  BY <1>1
<1>3. from \in 0 .. R - 1 /\ i \in 0 .. R
  BY <1>2 DEF Slots
<1>4. PICK a \in 0 .. R - 1, j \in 0 .. R : a = from /\ j = i
  BY <1>3
<1>5. /\ (a + j) % R \in 0 .. R - 1
      /\ (a + j) % R = IF a + j < R THEN a + j ELSE a + j - R
  <2>1. PICK x \in 0 .. R + R - 1 : x = a + j
    OBVIOUS
  <2>2. x % R = IF x < R THEN x ELSE x - R
    BY SlotIs
  <2>3. QED
    BY <2>1, <2>2
<1>6. QED
  BY <1>2, <1>4, <1>5, Zenon DEF Slots

\* Different places in the ring are different slots.
LEMMA SlotsDiffer ==
    ASSUME NEW from \in Slots, NEW i \in 0 .. RingSize - 1, NEW j \in 0 .. RingSize - 1, i # j
    PROVE  (from + i) % RingSize # (from + j) % RingSize
<1>1. RingSize \in Nat \ {0}
  BY KeysAssumption
<1>2. i \in 0 .. RingSize /\ j \in 0 .. RingSize
  BY <1>1
<1>3. /\ (from + i) % RingSize = IF from + i < RingSize THEN from + i ELSE from + i - RingSize
      /\ (from + j) % RingSize = IF from + j < RingSize THEN from + j ELSE from + j - RingSize
  BY <1>2, SlotsAre
<1>4. QED
  BY <1>1, <1>3 DEF Slots

\* The difference modulo the size tells how far apart two slots are.
LEMMA SlotsApart ==
    ASSUME NEW from \in Slots, NEW i \in 0 .. RingSize - 1
    PROVE  (((from + i) % RingSize) - from + RingSize) % RingSize = i
<1>1. RingSize \in Nat \ {0}
  BY KeysAssumption
<1>2. PICK R \in Nat \ {0} : R = RingSize
  BY <1>1
<1>3. PICK x : x = (from + i) % R
  OBVIOUS
<1>4. x \in 0 .. R - 1 /\ x = IF from + i < R THEN from + i ELSE from + i - R
  <2>1. i \in 0 .. RingSize
    BY <1>2
  <2>2. QED
    BY <1>2, <1>3, <2>1, SlotsAre, Zenon DEF Slots
<1>5. x - from + R \in 0 .. R + R - 1
  BY <1>2, <1>4 DEF Slots
<1>6. PICK a \in 0 .. R - 1 : a = from
  BY <1>2 DEF Slots
<1>7. (x - from + R) % R = i
  <2>1. PICK y \in 0 .. R + R - 1 : y = x - a + R
    BY <1>4
  <2>2. y % R = IF y < R THEN y ELSE y - R
    BY SlotIs
  <2>3. y % R = i
    <3>1. i \in 0 .. R - 1 /\ x = IF a + i < R THEN a + i ELSE a + i - R
      BY <1>2, <1>4, <1>6, Zenon
    <3>2. QED
      BY <2>1, <2>2, <3>1
  <2>4. QED
    BY <1>6, <2>1, <2>3, Zenon
<1>8. QED
  BY <1>2, <1>3, <1>7, Zenon

\* EGetCount puts the next word into the ring, where there is a slot for it.
LEMMA EGetCountIs ==
    ASSUME NEW r \in Rings, NEW e \in KeyWord
    PROVE  /\ EGetCount(r, e) \in Rings
           /\ EGetCount(r, e) = RingOf([r.queue EXCEPT ![r.write] = e], (r.write + 1) % RingSize)
<1>1. PICK q \in [Slots -> KeyWord], x \in Slots : r = RingOf(q, x)
  BY DEF Rings, RingOf
<1>2. r.queue = q /\ r.write = x
  BY <1>1 DEF RingOf
<1>3. EGetCount(r, e) = RingOf([q EXCEPT ![x] = e], (x + 1) % RingSize)
  <2>1. PICK y : y = (x + 1) % RingSize
    OBVIOUS
  <2>2. EGetCount(r, e) = [r EXCEPT !.queue[x] = e, !.write = y]
    BY <1>2, <2>1 DEF EGetCount
  <2>3. PICK p : p = [q EXCEPT ![x] = e]
    OBVIOUS
  <2>4. [r EXCEPT !.queue[x] = e, !.write = y] = RingOf(p, y)
    <3>1. r = [queue |-> q, write |-> x]
      BY <1>1, Zenon DEF RingOf
    <3>2. [r EXCEPT !.queue[x] = e] = [queue |-> p, write |-> x]
      BY <1>2, <2>3, <3>1
    <3>3. [r EXCEPT !.queue[x] = e, !.write = y] = [[r EXCEPT !.queue[x] = e] EXCEPT !.write = y]
      BY <3>1
    <3>4. [[queue |-> p, write |-> x] EXCEPT !.write = y] = RingOf(p, y)
      BY DEF RingOf
    <3>5. QED
      BY <3>2, <3>3, <3>4, Zenon
  <2>5. QED
    BY <2>1, <2>2, <2>3, <2>4, Zenon
<1>4. (x + 1) % RingSize \in Slots
  <2>1. 1 \in 0 .. RingSize
    BY KeysAssumption
  <2>2. QED
    BY <2>1, SlotsAre
<1>5. [q EXCEPT ![x] = e] \in [Slots -> KeyWord]
  OBVIOUS
<1>6. QED
  BY <1>2, <1>3, <1>4, <1>5 DEF Rings, RingOf

\* A word that EGetCount() puts in a ring with room for it is held after the ones before.
LEMMA NextIsHeld ==
    ASSUME NEW from \in Slots, NEW r, NEW w \in Seq(KeyWord), NEW m \in Nat, RingHolds(from, r, w, m),
           m + 1 <= Len(w), Len(w) < RingSize
    PROVE  RingHolds(from, EGetCount(r, w[m + 1]), w, m + 1)
<1>1. r \in Rings /\ r.write = (from + m) % RingSize /\ \A i \in 1 .. m : r.queue[(from + i - 1) % RingSize] = w[i]
  BY Zenon DEF RingHolds
<1>2. PICK e \in KeyWord : e = w[m + 1]
  OBVIOUS
<1>3. PICK R \in Nat \ {0} : R = RingSize
  BY KeysAssumption
<1>4. PICK k \in Nat : k = Len(w)
  OBVIOUS
<1>5. m + 1 <= k /\ k < R
  BY <1>3, <1>4, Zenon
<1>6. m \in 0 .. R - 1 /\ m + 1 \in 0 .. R /\ m \in 0 .. R
  BY <1>3, <1>4, <1>5
<1>7. PICK x \in Slots : x = r.write /\ x = (from + m) % RingSize
  BY <1>1, <1>3, <1>6, SlotsAre, Zenon
<1>8. PICK q \in [Slots -> KeyWord] : q = r.queue
  BY <1>1 DEF Rings
<1>9. PICK c \in Rings : c = EGetCount(r, e) /\ c = RingOf([q EXCEPT ![x] = e], (x + 1) % RingSize)
  <2>1. r \in Rings /\ EGetCount(r, e) \in Rings /\ EGetCount(r, e) = RingOf([r.queue EXCEPT ![r.write] = e], (r.write + 1) % RingSize)
    BY <1>1, EGetCountIs
  <2>2. QED
    BY <1>7, <1>8, <2>1, Zenon
<1>10. c.queue = [q EXCEPT ![x] = e] /\ c.write = (x + 1) % RingSize
  BY <1>9 DEF RingOf
<1>11. (x + 1) % RingSize = (from + (m + 1)) % RingSize
  <2>1. x = IF from + m < R THEN from + m ELSE from + m - R
    BY <1>3, <1>6, <1>7, SlotsAre, Zenon
  <2>2. (from + (m + 1)) % RingSize = IF from + (m + 1) < R THEN from + (m + 1) ELSE from + (m + 1) - R
    BY <1>3, <1>6, SlotsAre, Zenon
  <2>3. 1 \in 0 .. R
    BY <1>3
  <2>4. (x + 1) % RingSize = IF x + 1 < R THEN x + 1 ELSE x + 1 - R
    BY <1>3, <2>3, SlotsAre, Zenon
  <2>5. PICK y, z : y = (x + 1) % RingSize /\ z = (from + (m + 1)) % RingSize
    OBVIOUS
  <2>6. y = z
    <3>1. y = IF x + 1 < R THEN x + 1 ELSE x + 1 - R
      BY <2>4, <2>5, Zenon
    <3>2. z = IF from + (m + 1) < R THEN from + (m + 1) ELSE from + (m + 1) - R
      BY <2>2, <2>5, Zenon
    <3>3. from \in 0 .. R - 1
      BY <1>3 DEF Slots
    <3>4. QED
      BY <1>6, <2>1, <3>1, <3>2, <3>3
  <2>7. QED
    BY <2>5, <2>6, Zenon
<1>12. ASSUME NEW i \in 1 .. m + 1 PROVE c.queue[(from + i - 1) % RingSize] = w[i]
  <2>1. CASE i = m + 1
    <3>1. from + i - 1 = from + m
      BY <2>1 DEF Slots
    <3>2. c.queue[x] = e
      BY <1>8, <1>10
    <3>3. QED
      BY <1>2, <1>7, <2>1, <3>1, <3>2, Zenon
  <2>2. CASE i # m + 1
    <3>1. i \in 1 .. m /\ i - 1 \in 0 .. R - 1 /\ i - 1 # m /\ from + (i - 1) = from + i - 1 /\ i - 1 \in 0 .. R
      BY <1>5, <1>6, <2>2 DEF Slots
    <3>2. PICK y \in Slots : y = (from + (i - 1)) % RingSize
      BY <1>3, <3>1, SlotsAre, Zenon
    <3>3. y # x
      BY <1>3, <1>6, <1>7, <3>1, <3>2, SlotsDiffer, Zenon
    <3>4. c.queue[y] = q[y]
      BY <1>10, <3>3
    <3>5. q[y] = w[i]
      BY <1>1, <1>8, <3>1, <3>2, Zenon
    <3>6. QED
      BY <3>1, <3>2, <3>4, <3>5, Zenon
  <2>3. QED
    BY <2>1, <2>2
<1>13. QED
  BY <1>2, <1>9, <1>10, <1>11, <1>12, Zenon DEF RingHolds

\* What is between eread and ewrite.
LEMMA InRingIs ==
    ASSUME NEW r, NEW w \in Seq(KeyWord), NEW m \in Nat, m <= Len(w), Len(w) < RingSize, eread \in Slots, RingHolds(eread, r, w, m)
    PROVE  InRing(r) = SubSeq(w, 1, m)
<1>1. PICK R \in Nat \ {0}, k \in Nat : R = RingSize /\ k = Len(w)
  BY KeysAssumption
<1>2. m <= k /\ k < R
  BY <1>1, Zenon
<1>3. m \in 0 .. R - 1
  BY <1>2
<1>4. (r.write - eread + RingSize) % RingSize = m
  <2>1. r.write = (eread + m) % RingSize
    BY Zenon DEF RingHolds
  <2>2. QED
    BY <1>1, <1>3, <2>1, SlotsApart, Zenon
<1>5. InRing(r) = [i \in 1 .. m |-> r.queue[(eread + i - 1) % RingSize]]
  BY <1>4, Zenon DEF InRing
<1>6. \A i \in 1 .. m : r.queue[(eread + i - 1) % RingSize] = w[i]
  BY Zenon DEF RingHolds
<1>7. InRing(r) = [i \in 1 .. m |-> w[i]]
  BY <1>5, <1>6, Zenon
<1>8. SubSeq(w, 1, m) = [i \in 1 .. m |-> w[i]]
  BY <1>1, <1>2
<1>9. QED
  BY <1>7, <1>8, Zenon

\* The ring after each event.
OneIn(r, e) == IF e.etype = "keyup" THEN r ELSE EGetCount(r, e)

FilledByEvents(r, events) ==
    \E g \in [0 .. Len(events) -> Rings] :
        /\ g[0] = r
        /\ \A j \in 1 .. Len(events) : g[j] = OneIn(g[j - 1], events[j])
        /\ FilledBy(r, events) = g[Len(events)]

\* The ring is filled by the events one after another, and by none that is a key let go.
LEMMA FilledByIs ==
    ASSUME NEW r \in Rings, NEW events \in Seq(HostEvent)
    PROVE  FilledByEvents(r, events)
<1> DEFINE k == Len(events)
           way == [j \in 1 .. k |-> [q \in Rings |-> OneIn(q, events[j])]]
           Is(f) == f = [j \in 0 .. k |-> IF j = 0 THEN r
                                          ELSE IF events[j].etype = "keyup" THEN f[j - 1] ELSE EGetCount(f[j - 1], events[j])]
<1>1. k \in Nat
  OBVIOUS
<1>2. way \in [1 .. k -> [Rings -> Rings]]
  <2>1. ASSUME NEW j \in 1 .. k, NEW q \in Rings PROVE OneIn(q, events[j]) \in Rings
    <3>1. PICK e \in HostEvent : e = events[j]
      OBVIOUS
    <3>2. e.etype # "keyup" => e \in KeyWord
      BY DEF HostEvent, KeyWord
    <3>3. e \in KeyWord => EGetCount(q, e) \in Rings
      BY EGetCountIs
    <3>4. QED
      BY <3>1, <3>2, <3>3, Zenon DEF OneIn
  <2>2. QED
    BY <2>1
<1>3. PICK g \in [0 .. k -> Rings] : g[0] = r /\ \A j \in 1 .. k : g[j] = way[j][g[j - 1]]
  <2>1. Recursive(k, Rings)
    BY <1>1, RecursionIs, Zenon
  <2>2. QED
    BY <1>2, <2>1, Zenon DEF Recursive
<1>4. ASSUME NEW j \in 1 .. k PROVE g[j] = OneIn(g[j - 1], events[j])
  <2>1. j - 1 \in 0 .. k
    OBVIOUS
  <2>2. g[j - 1] \in Rings /\ g[j] = way[j][g[j - 1]]
    BY <1>3, <2>1
  <2>3. QED
    BY <2>2
<1>5. Is(g)
  <2>1. ASSUME NEW j \in 0 .. k
        PROVE  g[j] = IF j = 0 THEN r
                      ELSE IF events[j].etype = "keyup" THEN g[j - 1] ELSE EGetCount(g[j - 1], events[j])
    <3>1. CASE j = 0
      BY <1>3, <3>1, Zenon
    <3>2. CASE j # 0
      <4>1. j \in 1 .. k
        BY <3>2
      <4>2. QED
        BY <1>4, <3>2, <4>1, Zenon DEF OneIn
    <3>3. QED
      BY <3>1, <3>2
  <2>2. g = [j \in 0 .. k |-> g[j]]
    BY <1>3
  <2>3. QED
    BY <2>1, <2>2, Zenon
<1>6. ASSUME NEW f, Is(f) PROVE f = g
  <2> DEFINE S == {j \in 0 .. k : f[j] = g[j]}
  <2>1. 0 \in S
    BY <1>3, <1>6
  <2>2. ASSUME NEW j \in 1 .. k, j - 1 \in S PROVE j \in S
    <3>1. j \in 0 .. k /\ j # 0 /\ f[j - 1] = g[j - 1]
      BY <2>2
    <3>2. f[j] = IF events[j].etype = "keyup" THEN f[j - 1] ELSE EGetCount(f[j - 1], events[j])
      BY <1>6, <3>1, Zenon
    <3>3. g[j] = OneIn(g[j - 1], events[j])
      BY <1>4
    <3>4. f[j] = g[j]
      BY <3>1, <3>2, <3>3, Zenon DEF OneIn
    <3>5. QED
      BY <3>1, <3>4
  <2> HIDE DEF S
  <2>3. \A j \in 0 .. k : j \in S
    BY <1>1, <2>1, <2>2, CountUp, Zenon
  <2>4. \A j \in 0 .. k : f[j] = g[j]
    BY <2>3 DEF S
  <2>5. f = [j \in 0 .. k |-> f[j]]
    BY <1>6, Zenon
  <2>6. g = [j \in 0 .. k |-> g[j]]
    BY <1>3
  <2>7. QED
    BY <2>4, <2>5, <2>6, Zenon
<1>7. FilledBy(r, events) = (CHOOSE f : Is(f))[k]
  BY Zenon DEF FilledBy
<1>8. (CHOOSE f : Is(f)) = g
  <2>1. \E f : Is(f)
    BY <1>5, Zenon
  <2>2. Is(CHOOSE f : Is(f))
    BY <2>1, Zenon
  <2>3. QED
    BY <1>6, <2>2, Zenon
<1>9. FilledBy(r, events) = g[Len(events)]
  BY <1>7, <1>8, Zenon
<1>10. QED
  BY <1>3, <1>4, <1>9, Zenon DEF FilledByEvents

\* How many of the words are in the ring when SDL's queue is emptied into it so
\* far: at first h[0], and one more for each event that is put there.
Counting(h, from, r, events, words) ==
    /\ h \in [0 .. Len(events) -> 0 .. Len(words)]
    /\ h[Len(events)] = Len(words)
    /\ RingHolds(from, r, words, h[0])
    /\ \A n \in 1 .. Len(events) :
            h[n] = IF events[n].etype = "keyup" THEN h[n - 1] ELSE h[n - 1] + 1
    /\ \A n \in 1 .. Len(events) : events[n].etype # "keyup" => words[h[n]] = events[n]

\* Once the events waiting have been put in the ring it holds the words they count as, in order.
LEMMA FilledHolds ==
    ASSUME NEW from \in Slots, NEW r \in Rings, NEW events \in Seq(HostEvent), NEW w \in Seq(KeyWord), Len(w) < RingSize,
           NEW h, Counting(h, from, r, events, w)
    PROVE  RingHolds(from, FilledBy(r, events), w, Len(w))
<1>1. PICK g \in [0 .. Len(events) -> Rings] :
        /\ g[0] = r
        /\ \A j \in 1 .. Len(events) : g[j] = OneIn(g[j - 1], events[j])
        /\ FilledBy(r, events) = g[Len(events)]
  <2>1. FilledByEvents(r, events)
    BY FilledByIs
  <2>2. QED
    BY <2>1, Zenon DEF FilledByEvents
<1> DEFINE S == {n \in 0 .. Len(events) : RingHolds(from, g[n], w, h[n])}
<1>2. Len(events) \in Nat /\ Len(w) \in Nat
  OBVIOUS
<1>3. 0 \in S
  <2>1. 0 \in 0 .. Len(events)
    BY <1>2
  <2>2. RingHolds(from, g[0], w, h[0])
    BY <1>1, Zenon DEF Counting
  <2>3. QED
    BY <2>1, <2>2
<1>4. ASSUME NEW n \in 1 .. Len(events), n - 1 \in S PROVE n \in S
  <2>1. n \in 0 .. Len(events) /\ n - 1 \in 0 .. Len(events) /\ RingHolds(from, g[n - 1], w, h[n - 1])
    BY <1>4
  <2>2. g[n] = OneIn(g[n - 1], events[n])
    BY <1>1
  <2>3. h[n] = IF events[n].etype = "keyup" THEN h[n - 1] ELSE h[n - 1] + 1
    BY Zenon DEF Counting
  <2>4. h[n] \in 0 .. Len(w) /\ h[n - 1] \in 0 .. Len(w)
    BY <2>1 DEF Counting
  <2>5. CASE events[n].etype = "keyup"
    BY <2>1, <2>2, <2>3, <2>5 DEF OneIn
  <2>6. CASE events[n].etype # "keyup"
    <3>1. PICK m \in Nat : m = h[n - 1]
      BY <2>4
    <3>2. h[n] = m + 1 /\ m + 1 <= Len(w)
      BY <1>2, <2>3, <2>4, <2>6, <3>1
    <3>3. events[n] = w[m + 1]
      BY <2>6, <3>2, Zenon DEF Counting
    <3>4. g[n] = EGetCount(g[n - 1], w[m + 1])
      BY <2>2, <2>6, <3>3, Zenon DEF OneIn
    <3>5. RingHolds(from, EGetCount(g[n - 1], w[m + 1]), w, m + 1)
      BY <2>1, <3>1, <3>2, NextIsHeld, Zenon
    <3>6. RingHolds(from, g[n], w, h[n])
      BY <3>2, <3>4, <3>5, Zenon
    <3>7. QED
      BY <2>1, <3>6
  <2>7. QED
    BY <2>5, <2>6
<1> HIDE DEF S
<1>5. \A n \in 0 .. Len(events) : n \in S
  BY <1>2, <1>3, <1>4, CountUp, Zenon
<1>6. Len(events) \in S
  BY <1>2, <1>5
<1>7. RingHolds(from, g[Len(events)], w, h[Len(events)])
  BY <1>6 DEF S
<1>8. QED
  BY <1>1, <1>7, Zenon DEF Counting

\* What is read is forgotten: the ring holds the rest, from further on.
LEMMA RestIsHeld ==
    ASSUME eread \in Slots, NEW r, NEW w \in Seq(KeyWord), Len(w) < RingSize, RingHolds(eread, r, w, Len(w)), NEW u \in 0 .. Len(w)
    PROVE  /\ (eread + u) % RingSize \in Slots
           /\ RingHolds((eread + u) % RingSize, RingOf(Forgotten(r.queue, u), r.write), SubSeq(w, u + 1, Len(w)), Len(w) - u)
<1>1. PICK R \in Nat \ {0} : R = RingSize
  BY KeysAssumption
<1>2. PICK k \in Nat : k = Len(w)
  OBVIOUS
<1>3. k \in 0 .. R - 1 /\ u \in 0 .. R - 1 /\ u \in 0 .. R /\ k \in 0 .. R /\ k - u \in 0 .. R /\ k - u \in Nat /\ u <= k /\ k < R /\ u \in Nat
  <2>1. k < R
    BY <1>1, <1>2, Zenon
  <2>2. QED
    BY <1>2, <2>1
<1>4. PICK a \in 0 .. R - 1 : a = eread
  BY <1>1 DEF Slots
<1>5. PICK b : b = (a + u) % R
  OBVIOUS
<1>6. b \in 0 .. R - 1 /\ b = IF a + u < R THEN a + u ELSE a + u - R
  BY <1>1, <1>3, <1>4, <1>5, SlotsAre, Zenon DEF Slots
<1>7. PICK v \in Seq(KeyWord) : v = SubSeq(w, u + 1, k)
  <2>1. SubSeq(w, u + 1, k) \in Seq(KeyWord)
    BY <1>2, <1>3
  <2>2. QED
    BY <2>1, Zenon
<1>8. \A i \in 1 .. k - u : v[i] = w[u + i]
  BY <1>2, <1>3, <1>7
<1>9. PICK q \in [Slots -> KeyWord], x \in Slots : q = r.queue /\ x = r.write
  BY DEF RingHolds, Rings
<1>10. x = (a + k) % R /\ \A i \in 1 .. k : q[(a + i - 1) % R] = w[i]
  BY <1>1, <1>2, <1>4, <1>9, Zenon DEF RingHolds
<1>11. ASSUME NEW i \in 0 .. k - u
       PROVE  (b + i) % R = (a + (u + i)) % R /\ u + i \in 0 .. R /\ i \in 0 .. R
  <2>1. u + i \in 0 .. R /\ i \in 0 .. R /\ i \in Nat
    BY <1>3
  <2>2. (b + i) % R = IF b + i < R THEN b + i ELSE b + i - R
    BY <1>1, <1>6, <2>1, SlotsAre, Zenon DEF Slots
  <2>3. (a + (u + i)) % R = IF a + (u + i) < R THEN a + (u + i) ELSE a + (u + i) - R
    BY <1>1, <2>1, SlotsAre, Zenon DEF Slots
  <2>4. PICK y, z : y = (b + i) % R /\ z = (a + (u + i)) % R
    OBVIOUS
  <2>5. y = IF b + i < R THEN b + i ELSE b + i - R
    BY <2>2, <2>4, Zenon
  <2>6. z = IF a + (u + i) < R THEN a + (u + i) ELSE a + (u + i) - R
    BY <2>3, <2>4, Zenon
  <2>7. y = z
    BY <1>3, <1>6, <2>1, <2>5, <2>6
  <2>8. QED
    BY <2>1, <2>4, <2>7, Zenon
<1>12. PICK f : f = Forgotten(q, u)
  OBVIOUS
<1>13. f = [s \in Slots |-> IF (s - a + R) % R < u THEN PressKey(None) ELSE q[s]]
  BY <1>1, <1>4, <1>9, <1>12 DEF Forgotten
<1>14. PressKey(None) \in KeyWord
  BY DEF PressKey, None, KeyWord, Code
<1>15. RingOf(f, x) \in Rings /\ RingOf(f, x).queue = f /\ RingOf(f, x).write = x
  <2>1. f \in [Slots -> KeyWord]
    BY <1>9, <1>13, <1>14
  <2>2. QED
    BY <1>9, <2>1 DEF RingOf, Rings
<1>16. x = (b + (k - u)) % R
  <2>1. k - u \in 0 .. k - u /\ u + (k - u) = k
    BY <1>3
  <2>2. QED
    BY <1>10, <1>11, <2>1, Zenon
<1>17. ASSUME NEW i \in 1 .. k - u PROVE f[(b + i - 1) % R] = v[i]
  <2>1. /\ i - 1 \in 0 .. k - u /\ u + i \in 1 .. k /\ u + (i - 1) \in 0 .. R - 1 /\ b + i - 1 = b + (i - 1)
        /\ a + (u + i) - 1 = a + (u + (i - 1))
    BY <1>3, <1>6
  <2>2. PICK s : s = (b + i - 1) % R /\ s = (a + (u + (i - 1))) % R
    BY <1>11, <2>1, Zenon
  <2>3. s \in Slots
    <3>1. u + (i - 1) \in 0 .. R
      BY <1>11, <2>1, Zenon
    <3>2. QED
      BY <1>1, <1>4, <2>2, <3>1, SlotsAre, Zenon
  <2>4. (s - a + R) % R = u + (i - 1)
    BY <1>1, <1>4, <2>1, <2>2, SlotsApart, Zenon
  <2>5. ~((s - a + R) % R < u)
    <3>1. ~(u + (i - 1) < u)
      BY <1>3
    <3>2. QED
      BY <2>4, <3>1, Zenon
  <2>6. f[s] = q[s]
    BY <1>13, <2>3, <2>5, Zenon
  <2>7. q[s] = w[u + i]
    BY <1>10, <2>1, <2>2, Zenon
  <2>8. QED
    BY <1>8, <2>2, <2>6, <2>7, Zenon
<1>18. RingHolds(b, RingOf(f, x), v, k - u)
  BY <1>1, <1>15, <1>16, <1>17, Zenon DEF RingHolds
<1>19. QED
  BY <1>1, <1>2, <1>4, <1>5, <1>6, <1>7, <1>9, <1>12, <1>18, Zenon DEF Slots

-----------------------------------------------------------------------------
\* Every key arrives once

\* The ring will hold these words when SDL's queue is emptied into it.
WillHold(from, r, events, w) ==
    /\ w \in Seq(KeyWord) /\ Len(w) < RingSize
    /\ \E h : Counting(h, from, r, events, w)

KeysTypes ==
    /\ host \in {"4404", "sdl"}
    /\ held \in SUBSET (Keys \cup Modifiers)
    /\ pending \in Seq(HostEvent)
    /\ eread \in Slots /\ Ring \in Rings
    /\ keymap \in SUBSET Code /\ lastkey \in Code
    /\ owed \in Seq(Code) /\ typed \in 0 .. MaxTyped /\ Len(owed) <= typed
    /\ misfired = FALSE

\* The modifiers that are seen: SDL tells them with the keys.
Seen == IF host = "4404" THEN Modifiers ELSE {}

LastIsHeld(c) == c # None => \E k \in held : c \in {Char(k, m) : m \in SUBSET Modifiers}

\* Reading these words leads from a to b: from what readkeyboardevents takes to
\* be held to what is, and over all the characters owed.
WordsAre(w, a, b) ==
    /\ LeadFrom(w, owed, a, b, Seen)
    /\ a.mods = keymap \cap Modifiers /\ a.last = lastkey
    /\ host = "4404" => w = pending /\ b.mods = held \cap Modifiers /\ LastIsHeld(b.last)
    /\ host = "sdl" => WillHold(eread, Ring, pending, w)

KeysInv == KeysTypes /\ \E w, a, b : WordsAre(w, a, b)

\* A byte is typed by keys that are no modifiers.
LEMMA KeysAre ==
    /\ Keys \in SUBSET (0 .. 127) /\ Keys \cap Modifiers = {} /\ Modifiers \in SUBSET Code
    /\ MaxTyped \in Nat /\ RingSize \in Nat /\ RingSize > 1
  BY KeysAssumption DEF Modifiers, SHIFT, CONTROL, Code

\* The words that are queued are those.
LEMMA QueuedIs ==
    ASSUME NEW w, NEW a, NEW b, KeysTypes, WordsAre(w, a, b)
    PROVE  /\ Queued = w
           /\ host = "sdl" => RingHolds(eread, Filled, w, Len(w)) /\ Len(w) < RingSize
<1>1. CASE host = "4404"
  BY <1>1 DEF Queued, WordsAre
<1>2. CASE host = "sdl"
  <2>1. w \in Seq(KeyWord) /\ Len(w) < RingSize
    BY <1>2, Zenon DEF WordsAre, WillHold
  <2>2. PICK h : Counting(h, eread, Ring, pending, w)
    BY <1>2, Zenon DEF WordsAre, WillHold
  <2>3. eread \in Slots /\ Ring \in Rings /\ pending \in Seq(HostEvent)
    BY Zenon DEF KeysTypes
  <2>4. RingHolds(eread, Filled, w, Len(w))
    BY <2>1, <2>2, <2>3, FilledHolds, Zenon DEF Filled
  <2>5. InRing(Filled) = SubSeq(w, 1, Len(w))
    <3>1. Len(w) \in Nat /\ Len(w) <= Len(w)
      BY <2>1
    <3>2. QED
      BY <2>1, <2>3, <2>4, <3>1, InRingIs, Zenon
  <2>6. SubSeq(w, 1, Len(w)) = w
    BY <2>1
  <2>7. host # "4404"
    BY <1>2
  <2>8. QED
    BY <1>2, <2>1, <2>4, <2>5, <2>6, Zenon DEF Queued
<1>3. QED
  BY <1>1, <1>2, Zenon DEF KeysTypes

\* There is room for all the characters that can come.
HasRoom(w, s, room) == room \in Nat /\ (Len(s) < room \/ Len(w) < room)

\* What is taken to be held at a place, and what is read from there.
HeldAt(map, a) == map \in SUBSET Code /\ map \cap Modifiers = a.mods
ReadInto(w, map, last, room, s) == ReadEvents(w, map, last, room).out = s

\* All characters owed are read, if there is room.
LEMMA AllIsRead ==
    ASSUME NEW w, NEW s \in Seq(Code), NEW a, NEW b, NEW M, LeadFrom(w, s, a, b, M),
           NEW map, HeldAt(map, a), NEW last \in Code, NEW room, HasRoom(w, s, room)
    PROVE  ReadInto(w, map, last, room, s)
<1>0. /\ map \in SUBSET Code /\ map \cap Modifiers = a.mods
      /\ room \in Nat /\ (Len(s) < room \/ Len(w) < room)
  BY Zenon DEF HeldAt, HasRoom
<1>1. w \in Seq(KeyWord)
  BY Zenon DEF LeadFrom
<1>2. PICK f : ReadsAs(f, w, s) /\ f[0] = a
  BY Zenon DEF LeadFrom
<1>3. PICK u \in 0 .. Len(w) : ReadingAt(ReadEvents(w, map, last, room), f[u], s, u) /\ (u = Len(w) \/ f[u].count >= room)
  BY <1>0, <1>1, <1>2, PartIsRead
<1>4. Len(w) \in u .. Len(w) /\ Len(w) \in Nat /\ Len(s) \in Nat /\ u \in Nat /\ u <= Len(w)
  BY <1>1
<1>5. f[u].count \in Nat /\ f[u].count <= f[Len(w)].count /\ f[Len(w)].count <= Len(s) /\ f[u].count <= u /\ f[Len(w)].count \in Nat
  BY <1>1, <1>2, <1>4, PlacesAre, Zenon
<1>6. PICK x \in Nat, y \in Nat : x = f[u].count /\ y = f[Len(w)].count
  BY <1>5, Zenon
<1>7. x <= y /\ y <= Len(s) /\ x <= u
  BY <1>5, <1>6, Zenon
<1>8. ~(x >= room)
  BY <1>0, <1>4, <1>7
<1>9. u = Len(w)
  BY <1>3, <1>6, <1>8, Zenon
<1>10. ReadEvents(w, map, last, room).out = SubSeq(s, 1, Len(s))
  BY <1>2, <1>3, <1>9, Zenon DEF ReadingAt, ReadsAs
<1>11. SubSeq(s, 1, Len(s)) = s
  OBVIOUS
<1>12. QED
  BY <1>10, <1>11, Zenon DEF ReadInto

\* What the property says follows.
LEMMA KeysMean == KeysInv => KeysAreRight
<1> SUFFICES ASSUME KeysInv PROVE KeysAreRight
  OBVIOUS
<1>1. KeysTypes
  BY Zenon DEF KeysInv
<1>2. PICK w, a, b : WordsAre(w, a, b)
  BY Zenon DEF KeysInv
<1>3. Queued = w
  BY <1>1, <1>2, QueuedIs, Zenon
<1>4. LeadFrom(w, owed, a, b, Seen) /\ a.mods = keymap \cap Modifiers /\ a.last = lastkey
  BY <1>2, Zenon DEF WordsAre
<1>5. owed \in Seq(Code) /\ keymap \in SUBSET Code /\ typed \in 0 .. MaxTyped /\ Len(owed) <= typed /\ misfired = FALSE
  BY <1>1, Zenon DEF KeysTypes
<1>6. ReadEvents(w, keymap, None, MaxTyped + 1).out = owed
  <2>1. None \in Code
    BY DEF None, Code
  <2>2. HasRoom(w, owed, MaxTyped + 1)
    BY <1>5, KeysAre DEF HasRoom
  <2>3. HeldAt(keymap, a)
    BY <1>4, <1>5, Zenon DEF HeldAt
  <2>4. ReadInto(w, keymap, None, MaxTyped + 1, owed)
    BY <1>4, <1>5, <2>1, <2>2, <2>3, AllIsRead, Zenon
  <2>5. QED
    BY <2>4, Zenon DEF ReadInto
<1>7. KeysAreDelivered
  BY <1>3, <1>5, <1>6, Zenon DEF KeysAreDelivered
<1>8. OnlyHeldKeysRepeat
  <2> SUFFICES ASSUME host = "4404", pending = <<>>, lastkey # None
               PROVE  \E k \in held : lastkey \in {Char(k, m) : m \in SUBSET {SHIFT, CONTROL}}
    BY Zenon DEF OnlyHeldKeysRepeat
  <2>1. w = <<>> /\ LastIsHeld(b.last)
    BY <1>2, Zenon DEF WordsAre
  <2>2. a = b
    BY <1>4, <1>5, <2>1, LedIs, Zenon
  <2>3. QED
    BY <1>4, <2>1, <2>2, Zenon DEF LastIsHeld, Modifiers
<1>9. QED
  BY <1>7, <1>8, Zenon DEF KeysAreRight

\* Nothing is queued at first.
LEMMA NothingLeads ==
    ASSUME NEW s, s = <<>>, NEW m \in SUBSET Modifiers, NEW last \in Code, NEW M, m \subseteq M
    PROVE  LeadFrom(<<>>, s, PlaceOf(m, last, 0), PlaceOf(m, last, 0), M)
<1> DEFINE p == PlaceOf(m, last, 0)
           f == [n \in 0 .. 0 |-> p]
<1>1. p \in Place(s) /\ p.count = 0 /\ p.mods = m
  BY DEF Place, PlaceOf
<1>2. Len(<<>>) = 0 /\ Len(s) = 0 /\ <<>> \in Seq(KeyWord)
  OBVIOUS
<1> HIDE DEF p
<1>3. f \in [0 .. 0 -> Place(s)] /\ f[0] = p
  BY <1>1
<1>4. ReadsAs(f, <<>>, s)
  BY <1>1, <1>2, <1>3 DEF ReadsAs
<1>5. \A n \in 0 .. 0 : f[n].mods \subseteq M
  BY <1>1
<1>6. QED
  BY <1>2, <1>3, <1>4, <1>5 DEF LeadFrom, p

\* A ring that holds no word but its own.
LEMMA RingAlone ==
    ASSUME NEW from, NEW r, NEW w \in Seq(KeyWord), Len(w) < RingSize, RingHolds(from, r, w, Len(w))
    PROVE  WillHold(from, r, <<>>, w)
<1> DEFINE h == [n \in 0 .. 0 |-> Len(w)]
<1>1. Len(<<>>) = 0 /\ Len(w) \in 0 .. Len(w) /\ h[0] = Len(w)
  OBVIOUS
<1>2. h \in [0 .. 0 -> 0 .. Len(w)]
  BY <1>1
<1>3. Counting(h, from, r, <<>>, w)
  BY <1>1, <1>2 DEF Counting
<1>4. QED
  BY <1>3, Zenon DEF WillHold

\* Nothing is held, typed or queued at the start.
LEMMA KeysStart == KeysInit => KeysInv
<1> SUFFICES ASSUME KeysInit PROVE KeysInv
  OBVIOUS
<1>1. PressKey(None) \in KeyWord /\ None \in Code
  BY DEF PressKey, None, KeyWord, Code
<1>2. 0 \in Slots
  BY KeysAre DEF Slots
<1>3. Ring \in Rings
  BY <1>1, <1>2 DEF KeysInit, Ring, Rings, Slots
<1>4. KeysTypes
  <2>1. host \in {"4404", "sdl"}
    BY KeysAssumption DEF KeysInit
  <2>2. held \in SUBSET (Keys \cup Modifiers) /\ keymap \in SUBSET Code /\ pending \in Seq(HostEvent) /\ owed \in Seq(Code) /\ Len(owed) <= typed
    BY DEF KeysInit
  <2>3. typed \in 0 .. MaxTyped
    BY KeysAre DEF KeysInit
  <2>4. QED
    BY <1>1, <1>2, <1>3, <2>1, <2>2, <2>3, Zenon DEF KeysTypes, KeysInit
<1>5. PICK p : p = PlaceOf({}, None, 0)
  OBVIOUS
<1>6. LeadFrom(<<>>, owed, p, p, Seen)
  <2>1. {} \in SUBSET Modifiers /\ {} \subseteq Seen
    OBVIOUS
  <2>2. owed = <<>>
    BY DEF KeysInit
  <2>3. QED
    BY <1>1, <1>5, <2>1, <2>2, NothingLeads, Zenon
<1>7. p.mods = {} /\ p.last = None
  BY <1>5 DEF PlaceOf
<1>8. p.mods = keymap \cap Modifiers /\ p.mods = held \cap Modifiers /\ p.last = lastkey /\ LastIsHeld(p.last)
  BY <1>7 DEF KeysInit, LastIsHeld
<1>9. WillHold(eread, Ring, <<>>, <<>>)
  <2>1. <<>> \in Seq(KeyWord) /\ Len(<<>>) = 0 /\ Len(<<>>) < RingSize
    BY KeysAre
  <2>2. Ring.write = 0 /\ eread = 0
    BY DEF KeysInit, Ring
  <2>3. (0 + 0) % RingSize = 0
    <3>1. 0 \in 0 .. RingSize - 1
      BY KeysAre
    <3>2. 0 \in 0 .. RingSize
      BY KeysAre
    <3>3. (0 + 0) % RingSize = IF 0 + 0 < RingSize THEN 0 + 0 ELSE 0 + 0 - RingSize
      BY <1>2, <3>2, SlotsAre
    <3>4. QED
      BY <3>3, KeysAre
  <2>4. RingHolds(eread, Ring, <<>>, 0)
    BY <1>3, <2>2, <2>3 DEF RingHolds
  <2>5. RingHolds(eread, Ring, <<>>, Len(<<>>))
    BY <2>1, <2>4
  <2>6. QED
    BY <2>1, <2>5, RingAlone, Zenon
<1>10. WordsAre(<<>>, p, p)
  BY <1>6, <1>8, <1>9, Zenon DEF WordsAre, KeysInit
<1>11. QED
  BY <1>4, <1>10, Zenon DEF KeysInv

\* A key that goes up on a modern host puts nothing into the ring.
LEMMA NothingIsPut ==
    ASSUME NEW from, NEW r, NEW events \in Seq(HostEvent), NEW w, WillHold(from, r, events, w), NEW e \in HostEvent, e.etype = "keyup"
    PROVE  WillHold(from, r, Append(events, e), w)
<1>1. w \in Seq(KeyWord) /\ Len(w) < RingSize
  BY Zenon DEF WillHold
<1>2. PICK h : Counting(h, from, r, events, w)
  BY Zenon DEF WillHold
<1> DEFINE k == Len(events)
           v == Append(events, e)
           g == [n \in 0 .. k + 1 |-> IF n = k + 1 THEN h[k] ELSE h[n]]
<1>3. k \in Nat /\ Len(v) = k + 1 /\ v[k + 1] = e /\ \A n \in 1 .. k : v[n] = events[n]
  OBVIOUS
<1>4. /\ h \in [0 .. k -> 0 .. Len(w)] /\ h[k] = Len(w) /\ RingHolds(from, r, w, h[0])
      /\ \A n \in 1 .. k : h[n] = IF events[n].etype = "keyup" THEN h[n - 1] ELSE h[n - 1] + 1
      /\ \A n \in 1 .. k : events[n].etype # "keyup" => w[h[n]] = events[n]
  BY <1>2, Zenon DEF Counting
<1>5. g \in [0 .. k + 1 -> 0 .. Len(w)]
  BY <1>3, <1>4
<1>6. g[k + 1] = h[k] /\ \A n \in 0 .. k : g[n] = h[n]
  BY <1>3
<1> HIDE DEF k, v, g
<1>7. ASSUME NEW n \in 1 .. k + 1
      PROVE  /\ g[n] = IF v[n].etype = "keyup" THEN g[n - 1] ELSE g[n - 1] + 1
             /\ v[n].etype # "keyup" => w[g[n]] = v[n]
  <2>1. CASE n = k + 1
    <3>1. n - 1 = k /\ k \in 0 .. k
      BY <1>3, <2>1
    <3>2. QED
      BY <1>3, <1>6, <2>1, <3>1, Zenon
  <2>2. CASE n # k + 1
    <3>1. n \in 1 .. k /\ n \in 0 .. k /\ n - 1 \in 0 .. k
      BY <1>3, <2>2
    <3>2. QED
      BY <1>3, <1>4, <1>6, <3>1, Zenon
  <2>3. QED
    BY <2>1, <2>2
<1>8. RingHolds(from, r, w, g[0])
  <2>1. 0 \in 0 .. k
    BY <1>3
  <2>2. QED
    BY <1>4, <1>6, <2>1, Zenon
<1>9. Counting(g, from, r, v, w)
  BY <1>3, <1>4, <1>5, <1>6, <1>7, <1>8, Zenon DEF Counting
<1>10. QED
  BY <1>1, <1>9, Zenon DEF WillHold, v

\* Any other event will.
LEMMA OneIsPut ==
    ASSUME NEW from, NEW r, NEW events \in Seq(HostEvent), NEW w, WillHold(from, r, events, w), NEW e \in KeyWord,
           Len(w) + 1 < RingSize
    PROVE  WillHold(from, r, Append(events, e), Append(w, e))
<1>1. w \in Seq(KeyWord)
  BY Zenon DEF WillHold
<1>2. PICK h : Counting(h, from, r, events, w)
  BY Zenon DEF WillHold
<1> DEFINE k == Len(events)
           m == Len(w)
           v == Append(events, e)
           x == Append(w, e)
           g == [n \in 0 .. k + 1 |-> IF n = k + 1 THEN m + 1 ELSE h[n]]
<1>3. /\ k \in Nat /\ Len(v) = k + 1 /\ v[k + 1] = e /\ \A n \in 1 .. k : v[n] = events[n]
      /\ m \in Nat /\ x \in Seq(KeyWord) /\ Len(x) = m + 1 /\ x[m + 1] = e /\ \A n \in 1 .. m : x[n] = w[n]
  BY <1>1 DEF HostEvent, KeyWord
<1>4. /\ h \in [0 .. k -> 0 .. m] /\ h[k] = m /\ RingHolds(from, r, w, h[0])
      /\ \A n \in 1 .. k : h[n] = IF events[n].etype = "keyup" THEN h[n - 1] ELSE h[n - 1] + 1
      /\ \A n \in 1 .. k : events[n].etype # "keyup" => w[h[n]] = events[n]
  BY <1>2, Zenon DEF Counting
<1>5. g \in [0 .. k + 1 -> 0 .. m + 1]
  BY <1>3, <1>4
<1>6. g[k + 1] = m + 1 /\ \A n \in 0 .. k : g[n] = h[n]
  BY <1>3
<1>7. e.etype # "keyup"
  BY DEF KeyWord
<1>8. Len(x) < RingSize
  BY <1>3
<1> HIDE DEF k, m, v, x, g
<1>9. ASSUME NEW n \in 1 .. k + 1
      PROVE  /\ g[n] = IF v[n].etype = "keyup" THEN g[n - 1] ELSE g[n - 1] + 1
             /\ v[n].etype # "keyup" => x[g[n]] = v[n]
  <2>1. CASE n = k + 1
    <3>1. n - 1 = k /\ k \in 0 .. k
      BY <1>3, <2>1
    <3>2. QED
      BY <1>3, <1>4, <1>6, <1>7, <2>1, <3>1, Zenon
  <2>2. CASE n # k + 1
    <3>1. n \in 1 .. k /\ n \in 0 .. k /\ n - 1 \in 0 .. k
      BY <1>3, <2>2
    <3>2. g[n] = h[n] /\ g[n - 1] = h[n - 1] /\ v[n] = events[n]
      BY <1>3, <1>6, <3>1, Zenon
    <3>3. h[n] \in 0 .. m /\ h[n - 1] \in 0 .. m
      BY <1>4, <3>1
    <3>4. ASSUME v[n].etype # "keyup" PROVE x[g[n]] = v[n]
      <4>1. h[n] = h[n - 1] + 1 /\ w[h[n]] = events[n]
        BY <1>4, <3>1, <3>2, <3>4, Zenon
      <4>2. h[n] \in 1 .. m
        BY <3>3, <4>1
      <4>3. QED
        BY <1>3, <3>2, <4>1, <4>2, Zenon
    <3>5. QED
      BY <1>4, <3>1, <3>2, <3>4, Zenon
  <2>3. QED
    BY <2>1, <2>2
<1>10. RingHolds(from, r, x, g[0])
  <2>1. 0 \in 0 .. k
    BY <1>3
  <2>2. g[0] = h[0] /\ h[0] \in 0 .. m
    BY <1>4, <1>6, <2>1
  <2>3. \A i \in 1 .. h[0] : i \in 1 .. m
    BY <1>3, <2>2
  <2>4. QED
    BY <1>3, <1>4, <2>2, <2>3, Zenon DEF RingHolds
<1>11. Counting(g, from, r, v, x)
  BY <1>3, <1>5, <1>6, <1>9, <1>10, Zenon DEF Counting
<1>12. QED
  BY <1>3, <1>8, <1>11, Zenon DEF WillHold, v, x

\* What keeps the words in order, after a step.
LEMMA KeysFollow ==
    ASSUME NEW w, NEW a, NEW b, KeysTypes', LeadFrom(w, owed', a, b, Seen'),
           a.mods = keymap' \cap Modifiers, a.last = lastkey',
           host' = "4404" => w = pending' /\ b.mods = held' \cap Modifiers /\ LastIsHeld(b.last)',
           host' = "sdl" => WillHold(eread', Ring', pending', w)
    PROVE  KeysInv'
<1>1. WordsAre(w, a, b)'
  BY DEF WordsAre
<1>2. QED
  BY <1>1 DEF KeysInv

\* What the repeated character stands for stays held.
LEMMA LastStays ==
    ASSUME NEW c, LastIsHeld(c), held \subseteq held'
    PROVE  LastIsHeld(c)'
BY DEF LastIsHeld

\* A key's character, and what the key as SDL tells it stands for.
LEMMA PressIsKey ==
    ASSUME NEW k \in Keys \cup {SHIFT, CONTROL}
    PROVE  PressKey(k) \in KeyWord /\ PressKey(k).etype = "press" /\ PressKey(k).eparam = k /\ k \in Code
<1>1. k \in Code
  BY KeysAre DEF Modifiers, Code
<1>2. QED
  BY <1>1 DEF PressKey, KeyWord

\* A letter or sign that SDL reports is a press of a code that is no modifier.
LEMMA SdlPressIs ==
    ASSUME NEW k \in Keys, NEW mods
    PROVE  LET e == SdlPress(k, mods)
           IN  e \in KeyWord /\ e.etype = "press" /\ e.eparam \in Code /\ e.eparam \notin Modifiers
<1>1. k \in 97 .. 122 \cup 49 .. 57 \cup {13, 32}
  BY KeysAssumption
<1>2. CASE IsLetter(k)
  <2>1. PICK x \in -31 .. 122 : x = k - (IF SHIFT \in mods THEN 32 ELSE 0) - (IF CONTROL \in mods THEN 96 ELSE 0)
    BY <1>2 DEF IsLetter
  <2>2. SdlPress(k, mods) = PressKey(x % 256)
    BY <1>2, <2>1 DEF SdlPress
  <2>3. x % 256 \in Code /\ x % 256 # 136 /\ x % 256 # 138
    BY <2>1 DEF Code
  <2>4. QED
    BY <2>2, <2>3 DEF PressKey, KeyWord, Modifiers, SHIFT, CONTROL
<1>3. CASE ~IsLetter(k)
  <2>1. shifted(k) \in 0 .. 127
    <3>1. CASE IsDigit(k)
      <4>1. k - 48 \in 1 .. 9
        BY <3>1 DEF IsDigit
      <4>2. shifted(k) = <<33, 64, 35, 36, 37, 94, 38, 42, 40>>[k - 48]
        BY <1>3, <3>1 DEF shifted
      <4>3. QED
        BY <4>1, <4>2
    <3>2. CASE ~IsDigit(k)
      BY <1>1, <1>3, <3>2 DEF shifted
    <3>3. QED
      BY <3>1, <3>2
  <2>2. PICK x \in 0 .. 127 : SdlPress(k, mods) = PressKey(x)
    BY <1>1, <1>3, <2>1 DEF SdlPress
  <2>3. QED
    BY <2>2 DEF PressKey, KeyWord, Code, Modifiers, SHIFT, CONTROL
<1>4. QED
  BY <1>2, <1>3

\* A key leads a reader over one character more.
LEMMA PressLeads ==
    ASSUME NEW w, NEW s \in Seq(Code), NEW a, NEW b, NEW M, LeadFrom(w, s, a, b, M),
           NEW e \in KeyWord, e.etype = "press", e.eparam < 128
    PROVE  LET c == Char(e.eparam, b.mods)
           IN  /\ c \in Code
               /\ LeadFrom(Append(w, e), Append(s, c), a, PlaceOf(b.mods, c, b.count + 1), M)
<1>1. b \in Place(s) /\ b.count = Len(s) /\ Len(s) \in Nat /\ b.mods \subseteq M
  BY LedIs, Zenon
<1>2. e.eparam \in 0 .. 127 /\ ~(e.eparam >= 128)
  <2>1. PICK p \in 0 .. 255 : p = e.eparam
    BY DEF KeyWord, Code
  <2>2. p < 128
    BY <2>1
  <2>3. p \in 0 .. 127 /\ ~(p >= 128)
    BY <2>2
  <2>4. QED
    BY <2>1, <2>3, Zenon
<1>3. PICK c \in Code : c = Char(e.eparam, b.mods)
  BY <1>2, CharIs
<1>4. PICK t : t = Append(s, c) /\ t \in Seq(Code)
  <2>1. Append(s, c) \in Seq(Code)
    OBVIOUS
  <2>2. QED
    BY <2>1, Zenon
<1>5. Len(t) = Len(s) + 1 /\ t[Len(s) + 1] = c /\ Len(t) >= Len(s) /\ \A n \in 1 .. Len(s) : t[n] = s[n]
  BY <1>4
<1>6. PICK p : p = PlaceOf(b.mods, c, b.count + 1)
  OBVIOUS
<1>7. b.mods \in SUBSET Modifiers
  BY <1>1, PlaceIs, Zenon
<1>8. /\ p \in Place(t) /\ p.count = b.count + 1 /\ p.mods = b.mods /\ p.last = c
      /\ p = [mods |-> b.mods, last |-> c, count |-> b.count + 1]
  <2>1. b.count + 1 \in 0 .. Len(t)
    BY <1>1, <1>5
  <2>2. QED
    BY <1>6, <1>7, <2>1 DEF Place, PlaceOf
<1>9. Leads(b, p, e, t)
  <2>1. t[p.count] = p.last
    BY <1>1, <1>5, <1>8
  <2>2. ~(e.eparam >= 128)
    BY <1>2
  <2>3. "press" # "release"
    OBVIOUS
  <2>4. QED
    BY <1>3, <1>8, <2>1, <2>2, <2>3, Zenon DEF Leads
<1>10. p.count = Len(t) /\ p.mods \subseteq M
  BY <1>1, <1>5, <1>8
<1>11. LeadFrom(Append(w, e), t, a, p, M)
  <2>1. p \in Place(t)
    BY <1>8
  <2>2. Len(t) >= Len(s) /\ \A n \in 1 .. Len(s) : t[n] = s[n]
    BY <1>5
  <2>3. QED
    BY <1>4, <1>9, <1>10, <2>1, <2>2, LeadFurther
<1>12. QED
  BY <1>3, <1>4, <1>6, <1>11, Zenon

\* A byte that is no key leads it to other modifiers at most.
LEMMA ByteLeads ==
    ASSUME NEW w, NEW s \in Seq(Code), NEW a, NEW b, NEW M, LeadFrom(w, s, a, b, M),
           NEW e \in KeyWord, e.etype = "press", e.eparam >= 128, {e.eparam} \cap Modifiers \subseteq M
    PROVE  LeadFrom(Append(w, e), s, a, PlaceOf(b.mods \cup ({e.eparam} \cap Modifiers), b.last, b.count), M)
<1>1. b \in Place(s) /\ b.count = Len(s) /\ Len(s) \in Nat /\ b.mods \subseteq M
  BY LedIs, Zenon
<1>2. b.mods \in SUBSET Modifiers /\ b.last \in Code /\ b.count \in 0 .. Len(s) /\ b = PlaceOf(b.mods, b.last, b.count)
  BY <1>1, PlaceIs, Zenon
<1>3. PICK m \in SUBSET Modifiers : m = b.mods \cup ({e.eparam} \cap Modifiers)
  BY <1>2
<1>4. PICK p : p = PlaceOf(m, b.last, b.count)
  OBVIOUS
<1>5. p \in Place(s) /\ p.count = b.count /\ p.mods = m
  BY <1>2, <1>4 DEF Place, PlaceOf
<1>6. p = [b EXCEPT !.mods = @ \cup ({e.eparam} \cap Modifiers)]
  <2>1. PICK bm, bl, bc, x : bm = b.mods /\ bl = b.last /\ bc = b.count /\ x = {e.eparam} \cap Modifiers
    OBVIOUS
  <2>2. b = [mods |-> bm, last |-> bl, count |-> bc]
    BY <1>2, <2>1, Zenon DEF PlaceOf
  <2>3. p = [mods |-> m, last |-> bl, count |-> bc]
    BY <1>4, <2>1, Zenon DEF PlaceOf
  <2>4. [[mods |-> bm, last |-> bl, count |-> bc] EXCEPT !.mods = @ \cup x]
           = [mods |-> bm \cup x, last |-> bl, count |-> bc]
    <3>1. PICK d : d = [mods |-> bm, last |-> bl, count |-> bc]
      OBVIOUS
    <3>2. d.mods = bm
      BY <3>1
    <3>3. PICK y : y = bm \cup x
      OBVIOUS
    <3>4. [d EXCEPT !.mods = y] = [mods |-> y, last |-> bl, count |-> bc]
      BY <3>1
    <3>5. [d EXCEPT !.mods = @ \cup x] = [d EXCEPT !.mods = y]
      BY <3>2, <3>3
    <3>6. QED
      BY <3>1, <3>3, <3>4, <3>5, Zenon
  <2>5. QED
    BY <1>3, <2>1, <2>2, <2>3, <2>4, Zenon
<1>7. Leads(b, p, e, s)
  <2>1. e.eparam \in 0 .. 255
    BY DEF KeyWord, Code
  <2>2. ~(e.eparam < 128)
    BY <2>1, ByteSplits
  <2>3. "press" # "release"
    OBVIOUS
  <2>4. QED
    BY <1>6, <2>2, <2>3, Zenon DEF Leads
<1>8. p.count = Len(s) /\ p.mods \subseteq M
  BY <1>1, <1>3, <1>5
<1>9. Len(s) >= Len(s) /\ \A n \in 1 .. Len(s) : s[n] = s[n]
  BY <1>1
<1>10. LeadFrom(Append(w, e), s, a, p, M)
  BY <1>5, <1>7, <1>8, <1>9, LeadFurther
<1>11. QED
  BY <1>3, <1>4, <1>10, Zenon

\* A key that goes up leads it to one modifier less, and nothing repeats.
LEMMA ReleaseLeads ==
    ASSUME NEW w, NEW s \in Seq(Code), NEW a, NEW b, NEW M, LeadFrom(w, s, a, b, M),
           NEW e \in KeyWord, e.etype = "release"
    PROVE  LeadFrom(Append(w, e), s, a, PlaceOf(b.mods \ {e.eparam}, None, b.count), M)
<1>1. b \in Place(s) /\ b.count = Len(s) /\ Len(s) \in Nat /\ b.mods \subseteq M
  BY LedIs, Zenon
<1>2. b.mods \in SUBSET Modifiers /\ b.count \in 0 .. Len(s)
  BY <1>1, PlaceIs, Zenon
<1>3. PICK p : p = PlaceOf(b.mods \ {e.eparam}, None, b.count)
  OBVIOUS
<1>4. p \in Place(s) /\ p.count = b.count /\ p.mods = b.mods \ {e.eparam} /\ p = [mods |-> b.mods \ {e.eparam}, last |-> None, count |-> b.count]
  BY <1>2, <1>3 DEF Place, PlaceOf, None, Code
<1>5. Leads(b, p, e, s)
  BY <1>4 DEF Leads
<1>6. p.count = Len(s) /\ p.mods \subseteq M
  BY <1>1, <1>4
<1>7. Len(s) >= Len(s) /\ \A n \in 1 .. Len(s) : s[n] = s[n]
  BY <1>1
<1>8. LeadFrom(Append(w, e), s, a, p, M)
  BY <1>4, <1>5, <1>6, <1>7, LeadFurther
<1>9. QED
  BY <1>3, <1>8, Zenon

\* What a step that leaves the ring and the reader alone keeps.
LEMMA KeptIs ==
    ASSUME KeysTypes, UNCHANGED <<host, ringvars, readvars, misfired>>
    PROVE  /\ host' = host /\ eread' = eread /\ Ring' = Ring /\ keymap' = keymap /\ lastkey' = lastkey /\ Seen' = Seen
           /\ misfired' = FALSE /\ host' \in {"4404", "sdl"} /\ eread' \in Slots /\ Ring' \in Rings
           /\ keymap' \in SUBSET Code /\ lastkey' \in Code
BY DEF KeysTypes, ringvars, readvars, Ring, Seen

\* The types of what a key that goes down changes.
LEMMA DownTypes ==
    ASSUME KeysTypes, NEW k \in Keys \cup {SHIFT, CONTROL}, KeyDown(k)
    PROVE  KeysTypes'
<1>1. UNCHANGED <<host, ringvars, readvars, misfired>>
  BY DEF KeyDown
<1>2. pending \in Seq(HostEvent) /\ owed \in Seq(Code) /\ typed \in 0 .. MaxTyped /\ Len(owed) <= typed
      /\ held \in SUBSET (Keys \cup Modifiers) /\ host \in {"4404", "sdl"}
  BY DEF KeysTypes
<1>3. held' \in SUBSET (Keys \cup Modifiers)
  BY <1>2 DEF KeyDown, Modifiers
<1>5. PressKey(k) \in HostEvent /\ (k \in Keys => SdlPress(k, held) \in HostEvent)
  <2>1. PressKey(k) \in KeyWord /\ (k \in Keys => SdlPress(k, held) \in KeyWord)
    BY PressIsKey, SdlPressIs, Zenon
  <2>2. \A e \in KeyWord : e \in HostEvent
    BY DEF KeyWord, HostEvent
  <2>3. QED
    BY <2>1, <2>2, Zenon
<1>6. AbsTime \in Seq(HostEvent) /\ <<>> \in Seq(HostEvent)
  <2>1. [etype |-> "abstime", eparam |-> 0] \in HostEvent /\ [etype |-> "word", eparam |-> 0] \in HostEvent
    BY DEF HostEvent, Code
  <2>2. QED
    BY <2>1 DEF AbsTime
<1>7. pending' \in Seq(HostEvent)
  <2>1. CASE host = "sdl"
    <3>1. pending' = IF k \in Keys THEN Append(pending, SdlPress(k, held)) ELSE pending
      BY <2>1 DEF KeyDown
    <3>2. QED
      BY <1>2, <1>5, <3>1
  <2>2. CASE host # "sdl"
    <3>1. PICK stamp \in {<<>>, AbsTime} : pending' = Append(pending \o stamp, PressKey(k))
      BY <2>2 DEF KeyDown
    <3>2. stamp \in Seq(HostEvent)
      BY <1>6
    <3>3. QED
      BY <1>2, <1>5, <3>1, <3>2
  <2>3. QED
    BY <2>1, <2>2
<1>8. /\ owed' \in Seq(Code) /\ typed' \in 0 .. MaxTyped /\ Len(owed') <= typed'
  <2>1. CASE k \in Keys
    <3>1. typed < MaxTyped /\ typed' = typed + 1 /\ typed' \in 0 .. MaxTyped
      <4>1. typed < MaxTyped
        BY <2>1 DEF KeyDown
      <4>2. typed' = typed + 1
        BY <2>1 DEF KeyDown
      <4>3. QED
        BY <1>2, <4>1, <4>2, KeysAre
    <3>2. SdlPress(k, held).eparam \in Code /\ Char(k, held) \in Code
      <4>1. k \in 0 .. 127
        BY <2>1, KeysAre
      <4>2. QED
        BY <2>1, <4>1, SdlPressIs, CharIs, Zenon
    <3>3. PICK c : c = (IF host = "sdl" THEN SdlPress(k, held).eparam ELSE Char(k, held))
      OBVIOUS
    <3>4. c \in Code
      BY <3>2, <3>3
    <3>5. owed' = owed \/ owed' = Append(owed, c)
      BY <3>3 DEF KeyDown
    <3>6. Append(owed, c) \in Seq(Code) /\ Len(Append(owed, c)) = Len(owed) + 1
      BY <1>2, <3>4
    <3>7. QED
      BY <1>2, <3>1, <3>5, <3>6
  <2>2. CASE k \notin Keys
    BY <1>2, <2>2 DEF KeyDown
  <2>3. QED
    BY <2>1, <2>2
<1>9. QED
  BY <1>1, <1>3, <1>7, <1>8, KeptIs, Zenon DEF KeysTypes

\* A key that goes down on the 4404.
LEMMA DownOn4404 ==
    ASSUME KeysInv, NEW k \in Keys \cup {SHIFT, CONTROL}, KeyDown(k), host = "4404"
    PROVE  KeysInv'
<1>1. KeysTypes
  BY Zenon DEF KeysInv
<1>2. PICK w, a, b : WordsAre(w, a, b)
  BY Zenon DEF KeysInv
<1>3. /\ LeadFrom(w, owed, a, b, Seen) /\ a.mods = keymap \cap Modifiers /\ a.last = lastkey
      /\ w = pending /\ b.mods = held \cap Modifiers /\ LastIsHeld(b.last) /\ owed \in Seq(Code)
  BY <1>1, <1>2, Zenon DEF WordsAre, KeysTypes
<1>4. KeysTypes'
  BY <1>1, DownTypes, Zenon
<1>5. host' = host /\ keymap' = keymap /\ lastkey' = lastkey /\ Seen' = Seen
  <2>1. UNCHANGED <<host, ringvars, readvars, misfired>>
    BY DEF KeyDown
  <2>2. QED
    BY <1>1, <2>1, KeptIs, Zenon
<1>6. host' # "sdl"
  BY <1>5
<1>7. held' = held \cup {k} /\ held \subseteq held'
  BY DEF KeyDown
<1>8. PICK stamp \in {<<>>, AbsTime} : pending' = Append(pending \o stamp, PressKey(k))
  BY DEF KeyDown
<1>9. PICK e \in KeyWord : e = PressKey(k) /\ e.etype = "press" /\ e.eparam = k
  BY PressIsKey, Zenon
<1>10. PICK v : v = w \o stamp
  OBVIOUS
<1>11. LeadFrom(v, owed, a, b, Seen) /\ pending' = Append(v, e)
  BY <1>3, <1>8, <1>9, <1>10, StampsAreRead, Zenon
<1>12. CASE k \in Keys
  <2>1. k \in 0 .. 127 /\ k \notin Modifiers
    BY <1>12, KeysAre
  <2>2. e.eparam < 128
    <3>1. k < 128
      BY <2>1
    <3>2. QED
      BY <1>9, <3>1, Zenon
  <2>3. PICK c : c = Char(k, held)
    OBVIOUS
  <2>4. c = Char(k, b.mods)
    <3>1. Char(k, held) = Char(k, held \cap Modifiers)
      BY <2>1, CharIs
    <3>2. QED
      BY <1>3, <2>3, <3>1, Zenon
  <2>5. owed' = Append(owed, c)
    BY <1>12, <2>3 DEF KeyDown
  <2>6. LeadFrom(Append(v, e), Append(owed, Char(k, b.mods)), a, PlaceOf(b.mods, Char(k, b.mods), b.count + 1), Seen)
    BY <1>3, <1>9, <1>11, <2>2, PressLeads, Zenon
  <2>7. PICK p : p = PlaceOf(b.mods, c, b.count + 1)
    OBVIOUS
  <2>8. LeadFrom(pending', owed', a, p, Seen')
    BY <1>5, <1>11, <2>4, <2>5, <2>6, <2>7, Zenon
  <2>9. p.mods = b.mods /\ p.last = c
    BY <2>7 DEF PlaceOf
  <2>10. p.mods = held' \cap Modifiers
    BY <1>3, <1>7, <2>1, <2>9
  <2>11. LastIsHeld(p.last)'
    <3>1. k \in held' /\ b.mods \in SUBSET Modifiers
      BY <1>3, <1>7
    <3>2. QED
      BY <2>4, <2>9, <3>1, Zenon DEF LastIsHeld
  <2>12. QED
    BY <1>3, <1>4, <1>5, <1>6, <2>8, <2>10, <2>11, KeysFollow, Zenon
<1>13. CASE k \notin Keys
  <2>1. k \in Modifiers /\ Seen = Modifiers
    BY <1>13 DEF Modifiers, Seen
  <2>2. e.eparam >= 128 /\ {e.eparam} \cap Modifiers \subseteq Seen
    BY <1>9, <2>1 DEF Modifiers, SHIFT, CONTROL
  <2>3. owed' = owed
    BY <1>13 DEF KeyDown
  <2>4. PICK p : p = PlaceOf(b.mods \cup ({e.eparam} \cap Modifiers), b.last, b.count)
    OBVIOUS
  <2>5. LeadFrom(pending', owed', a, p, Seen')
    BY <1>3, <1>5, <1>9, <1>11, <2>2, <2>3, <2>4, ByteLeads, Zenon
  <2>6. p.mods = held' \cap Modifiers /\ p.last = b.last
    BY <1>3, <1>7, <1>9, <2>4 DEF PlaceOf
  <2>7. LastIsHeld(p.last)'
    BY <1>3, <1>7, <2>6, LastStays, Zenon
  <2>8. QED
    BY <1>3, <1>4, <1>5, <1>6, <2>5, <2>6, <2>7, KeysFollow, Zenon
<1>14. QED
  BY <1>12, <1>13

\* A key that goes down on a modern host.
LEMMA DownOnSdl ==
    ASSUME KeysInv, NEW k \in Keys \cup {SHIFT, CONTROL}, KeyDown(k), host = "sdl"
    PROVE  KeysInv'
<1>1. KeysTypes
  BY Zenon DEF KeysInv
<1>2. PICK w, a, b : WordsAre(w, a, b)
  BY Zenon DEF KeysInv
<1>3. /\ LeadFrom(w, owed, a, b, Seen) /\ a.mods = keymap \cap Modifiers /\ a.last = lastkey
      /\ WillHold(eread, Ring, pending, w) /\ owed \in Seq(Code) /\ pending \in Seq(HostEvent)
  BY <1>1, <1>2, Zenon DEF WordsAre, KeysTypes
<1>4. KeysTypes'
  BY <1>1, DownTypes, Zenon
<1>5. host' = host /\ keymap' = keymap /\ lastkey' = lastkey /\ Seen' = Seen /\ eread' = eread /\ Ring' = Ring
  <2>1. UNCHANGED <<host, ringvars, readvars, misfired>>
    BY DEF KeyDown
  <2>2. QED
    BY <1>1, <2>1, KeptIs, Zenon
<1>6. host' # "4404" /\ Seen = {}
  BY <1>5 DEF Seen
<1>7. Queued = w /\ Len(w) \in Nat /\ w \in Seq(KeyWord)
  <2>1. Queued = w
    BY <1>1, <1>2, QueuedIs, Zenon
  <2>2. w \in Seq(KeyWord)
    BY <1>3, Zenon DEF WillHold
  <2>3. QED
    BY <2>1, <2>2
<1>8. CASE k \in Keys
  <2>1. PICK e \in KeyWord : e = SdlPress(k, held) /\ e.etype = "press" /\ e.eparam \in 0 .. 255 /\ e.eparam \notin Modifiers
    BY <1>8, SdlPressIs, Zenon DEF Code
  <2>2. pending' = Append(pending, e)
    BY <1>8, <2>1 DEF KeyDown
  <2>3. Len(w) + 1 < RingSize
    <3>1. Len(Queued) < RingSize - 1
      BY DEF KeyDown
    <3>2. QED
      BY <1>7, <3>1, KeysAre
  <2>4. WillHold(eread', Ring', pending', Append(w, e))
    BY <1>3, <1>5, <2>2, <2>3, OneIsPut, Zenon
  <2>5. CASE e.eparam >= 128
    <3>1. owed' = owed
      BY <1>8, <2>1, <2>5 DEF KeyDown
    <3>2. {e.eparam} \cap Modifiers = {}
      BY <2>1
    <3>3. PICK p : p = PlaceOf(b.mods \cup ({e.eparam} \cap Modifiers), b.last, b.count)
      OBVIOUS
    <3>4. {e.eparam} \cap Modifiers \subseteq Seen
      BY <3>2
    <3>5. LeadFrom(Append(w, e), owed', a, p, Seen')
      BY <1>3, <1>5, <2>1, <2>5, <3>1, <3>3, <3>4, ByteLeads, Zenon
    <3>6. QED
      BY <1>3, <1>4, <1>5, <1>6, <2>4, <3>5, KeysFollow, Zenon
  <2>6. CASE ~(e.eparam >= 128)
    <3>1. e.eparam < 128
      BY <2>1, <2>6
    <3>2. PICK c : c = e.eparam
      OBVIOUS
    <3>3. owed' = Append(owed, c)
      BY <1>8, <2>1, <2>6, <3>2 DEF KeyDown
    <3>4. b.mods = {}
      <4>1. b.mods \subseteq Seen
        BY <1>3, LedIs, Zenon
      <4>2. QED
        BY <1>6, <4>1
    <3>5. Char(e.eparam, b.mods) = c
      BY <3>2, <3>4 DEF Char
    <3>6. LeadFrom(Append(w, e), Append(owed, Char(e.eparam, b.mods)), a, PlaceOf(b.mods, Char(e.eparam, b.mods), b.count + 1), Seen)
      BY <1>3, <2>1, <3>1, PressLeads, Zenon
    <3>7. PICK p : p = PlaceOf(b.mods, c, b.count + 1)
      OBVIOUS
    <3>8. LeadFrom(Append(w, e), owed', a, p, Seen')
      BY <1>5, <3>3, <3>5, <3>6, <3>7, Zenon
    <3>9. QED
      BY <1>3, <1>4, <1>5, <1>6, <2>4, <3>8, KeysFollow, Zenon
  <2>7. QED
    BY <2>5, <2>6
<1>9. CASE k \notin Keys
  <2>1. pending' = pending /\ owed' = owed
    BY <1>9 DEF KeyDown
  <2>2. LeadFrom(w, owed', a, b, Seen') /\ WillHold(eread', Ring', pending', w)
    BY <1>3, <1>5, <2>1, Zenon
  <2>3. QED
    BY <1>3, <1>4, <1>5, <1>6, <2>2, KeysFollow, Zenon
<1>10. QED
  BY <1>8, <1>9

\* A key pressed keeps what the ring holds leading over what is owed, on either host.
LEMMA KeyDownStep ==
    ASSUME KeysInv, NEW k \in Keys \cup {SHIFT, CONTROL}, KeyDown(k)
    PROVE  KeysInv'
<1>1. host \in {"4404", "sdl"}
  BY DEF KeysInv, KeysTypes
<1>2. host = "4404" \/ host = "sdl"
  BY <1>1
<1>3. QED
  BY <1>2, DownOn4404, DownOnSdl, Zenon

\* The types when only an event is queued.
LEMMA QueueTypes ==
    ASSUME KeysTypes, UNCHANGED <<host, ringvars, readvars, typed, owed, misfired>>, held' \in SUBSET held,
           NEW e \in HostEvent, pending' = Append(pending, e)
    PROVE  KeysTypes'
<1>1. UNCHANGED <<host, ringvars, readvars, misfired>>
  OBVIOUS
<1>2. held' \in SUBSET (Keys \cup Modifiers)
  BY DEF KeysTypes
<1>3. pending' \in Seq(HostEvent)
  BY DEF KeysTypes
<1>4. owed' \in Seq(Code) /\ typed' \in 0 .. MaxTyped /\ Len(owed') <= typed'
  BY DEF KeysTypes
<1>5. QED
  BY <1>1, <1>2, <1>3, <1>4, KeptIs, Zenon DEF KeysTypes

\* So does a key let go.
LEMMA KeyUpStep ==
    ASSUME KeysInv, NEW k \in Keys \cup {SHIFT, CONTROL}, KeyUp(k)
    PROVE  KeysInv'
<1>1. KeysTypes
  BY Zenon DEF KeysInv
<1>2. PICK w, a, b : WordsAre(w, a, b)
  BY Zenon DEF KeysInv
<1>3. /\ LeadFrom(w, owed, a, b, Seen) /\ a.mods = keymap \cap Modifiers /\ a.last = lastkey
      /\ owed \in Seq(Code) /\ pending \in Seq(HostEvent) /\ host \in {"4404", "sdl"}
  BY <1>1, <1>2, Zenon DEF WordsAre, KeysTypes
<1>4. k \in Code
  BY PressIsKey
<1>5. PICK e \in HostEvent : /\ e = IF host = "sdl" THEN [etype |-> "keyup", eparam |-> k] ELSE ReleaseKey(k)
                             /\ pending' = Append(pending, e)
  <2>1. [etype |-> "keyup", eparam |-> k] \in HostEvent /\ ReleaseKey(k) \in HostEvent
    BY <1>4 DEF HostEvent, ReleaseKey
  <2>2. PICK x : x = IF host = "sdl" THEN [etype |-> "keyup", eparam |-> k] ELSE ReleaseKey(k)
    OBVIOUS
  <2>3. x \in HostEvent
    BY <2>1, <2>2, Zenon
  <2>4. pending' = Append(pending, x)
    BY <2>2 DEF KeyUp
  <2>5. QED
    BY <2>2, <2>3, <2>4, Zenon
<1>6. held' = held \ {k} /\ held' \in SUBSET held
  BY DEF KeyUp
<1>7. UNCHANGED <<host, ringvars, readvars, typed, owed, misfired>>
  BY DEF KeyUp
<1>8. KeysTypes'
  BY <1>1, <1>5, <1>6, <1>7, QueueTypes
<1>9. host' = host /\ keymap' = keymap /\ lastkey' = lastkey /\ Seen' = Seen /\ eread' = eread /\ Ring' = Ring /\ owed' = owed
  <2>1. UNCHANGED <<host, ringvars, readvars, misfired>> /\ owed' = owed
    BY <1>7
  <2>2. QED
    BY <1>1, <2>1, KeptIs, Zenon
<1>10. CASE host = "4404"
  <2>1. host' # "sdl" /\ e = ReleaseKey(k)
    BY <1>5, <1>9, <1>10
  <2>2. e \in KeyWord /\ e.etype = "release" /\ e.eparam = k
    BY <1>4, <2>1 DEF ReleaseKey, KeyWord
  <2>3. w = pending /\ b.mods = held \cap Modifiers
    BY <1>2, <1>10, Zenon DEF WordsAre
  <2>4. PICK p : p = PlaceOf(b.mods \ {e.eparam}, None, b.count)
    OBVIOUS
  <2>5. LeadFrom(pending', owed', a, p, Seen')
    BY <1>3, <1>5, <1>9, <2>2, <2>3, <2>4, ReleaseLeads, Zenon
  <2>6. p.mods = held' \cap Modifiers /\ p.last = None
    BY <1>6, <2>2, <2>3, <2>4 DEF PlaceOf
  <2>7. LastIsHeld(p.last)'
    BY <2>6 DEF LastIsHeld
  <2>8. QED
    BY <1>3, <1>8, <1>9, <2>1, <2>5, <2>6, <2>7, KeysFollow, Zenon
<1>11. CASE host = "sdl"
  <2>1. host' # "4404" /\ e.etype = "keyup"
    BY <1>5, <1>9, <1>11
  <2>2. WillHold(eread, Ring, pending, w)
    BY <1>2, <1>11, Zenon DEF WordsAre
  <2>3. WillHold(eread', Ring', pending', w)
    BY <1>3, <1>5, <1>9, <2>1, <2>2, NothingIsPut, Zenon
  <2>4. LeadFrom(w, owed', a, b, Seen')
    BY <1>3, <1>9, Zenon
  <2>5. QED
    BY <1>3, <1>8, <1>9, <2>1, <2>3, <2>4, KeysFollow, Zenon
<1>12. QED
  BY <1>3, <1>10, <1>11

\* So does a mouse button let go.
LEMMA MouseUpStep == ASSUME KeysInv, MouseUp PROVE KeysInv'
<1>1. KeysTypes
  BY Zenon DEF KeysInv
<1>2. PICK w, a, b : WordsAre(w, a, b)
  BY Zenon DEF KeysInv
<1>3. host = "sdl" /\ Len(Queued) < RingSize - 1 /\ pending' = Append(pending, ReleaseKey(4)) /\ held' \in SUBSET held
  BY DEF MouseUp
<1>4. /\ LeadFrom(w, owed, a, b, Seen) /\ a.mods = keymap \cap Modifiers /\ a.last = lastkey
      /\ WillHold(eread, Ring, pending, w) /\ owed \in Seq(Code) /\ pending \in Seq(HostEvent)
  BY <1>1, <1>2, <1>3, Zenon DEF WordsAre, KeysTypes
<1>5. PICK e \in HostEvent : e = ReleaseKey(4) /\ e \in KeyWord /\ e.etype = "release" /\ e.eparam = 4
  <2>1. PICK e : e = [etype |-> "release", eparam |-> 4]
    OBVIOUS
  <2>2. e \in KeyWord /\ e \in HostEvent /\ e.etype = "release" /\ e.eparam = 4
    BY <2>1 DEF KeyWord, HostEvent, Code
  <2>3. e = ReleaseKey(4)
    BY <2>1, Zenon DEF ReleaseKey
  <2>4. QED
    BY <2>2, <2>3, Zenon
<1>6. UNCHANGED <<host, ringvars, readvars, typed, owed, misfired>>
  BY DEF MouseUp
<1>7. KeysTypes'
  <2>1. pending' = Append(pending, e)
    BY <1>3, <1>5
  <2>2. QED
    BY <1>1, <1>3, <1>6, <2>1, QueueTypes
<1>8. host' = host /\ keymap' = keymap /\ lastkey' = lastkey /\ Seen' = Seen /\ eread' = eread /\ Ring' = Ring /\ owed' = owed
  <2>1. UNCHANGED <<host, ringvars, readvars, misfired>> /\ owed' = owed
    BY <1>6
  <2>2. QED
    BY <1>1, <2>1, KeptIs, Zenon
<1>9. Len(w) + 1 < RingSize
  <2>1. Queued = w
    BY <1>1, <1>2, QueuedIs, Zenon
  <2>2. w \in Seq(KeyWord)
    BY <1>4, Zenon DEF WillHold
  <2>3. Len(w) \in Nat /\ Len(w) < RingSize - 1
    BY <1>3, <2>1, <2>2
  <2>4. QED
    BY <2>3, KeysAre
<1>10. WillHold(eread', Ring', pending', Append(w, e))
  BY <1>3, <1>4, <1>5, <1>8, <1>9, OneIsPut, Zenon
<1>11. PICK p : p = PlaceOf(b.mods \ {e.eparam}, None, b.count)
  OBVIOUS
<1>12. LeadFrom(Append(w, e), owed', a, p, Seen')
  BY <1>4, <1>5, <1>8, <1>11, ReleaseLeads, Zenon
<1>13. host' # "4404"
  BY <1>3, <1>8
<1>14. QED
  BY <1>4, <1>7, <1>8, <1>10, <1>12, <1>13, KeysFollow, Zenon

\* Nothing that matters to the keys changes.
LEMMA KeysIdle ==
    ASSUME KeysInv, UNCHANGED <<host, held, pending, ringvars, readvars, typed, owed, misfired>>
    PROVE  KeysInv'
BY DEF KeysInv, KeysTypes, WordsAre, LastIsHeld, Seen, Ring, ringvars, readvars

\* So does another window in front.
LEMMA SwitchStep == ASSUME KeysInv, Switch PROVE KeysInv'
BY KeysIdle DEF Switch

\* A reader of the words' beginning comes to a beginning of the characters.
LEMMA BeginningLeads ==
    ASSUME NEW w \in Seq(KeyWord), NEW s \in Seq(Code), NEW a, NEW b, NEW M, LeadFrom(w, s, a, b, M), NEW m \in 0 .. Len(w)
    PROVE  \E t, c : /\ LeadFrom(SubSeq(w, 1, m), t, a, c, M)
                     /\ t \in Seq(Code) /\ Len(t) <= Len(s)
                     /\ SubSeq(w, 1, m) \in Seq(KeyWord) /\ Len(SubSeq(w, 1, m)) = m
<1>1. PICK f : ReadsAs(f, w, s) /\ f[0] = a /\ f[Len(w)] = b /\ \A n \in 0 .. Len(w) : f[n].mods \subseteq M
  BY Zenon DEF LeadFrom
<1> DEFINE v == SubSeq(w, 1, m)
           t == SubSeq(s, 1, f[m].count)
           g == BeginningOf(f, m)
<1>2. v \in Seq(KeyWord) /\ t \in Seq(Code) /\ Len(v) = m /\ Len(t) = f[m].count /\ ReadsAs(g, v, t)
  BY <1>1, BeginningReads
<1>3. Len(w) \in Nat /\ Len(w) \in m .. Len(w) /\ 0 \in 0 .. m /\ m \in 0 .. m /\ \A n \in 0 .. m : n \in 0 .. Len(w)
  OBVIOUS
<1>4. Len(t) <= Len(s)
  <2>1. f[m].count \in Nat /\ f[m].count <= f[Len(w)].count /\ f[Len(w)].count <= Len(s) /\ f[Len(w)].count \in Nat /\ Len(s) \in Nat
    BY <1>1, <1>3, PlacesAre
  <2>2. PICK x \in Nat, y \in Nat : x = f[m].count /\ y = f[Len(w)].count
    BY <2>1, Zenon
  <2>3. x <= y /\ y <= Len(s)
    BY <2>1, <2>2, Zenon
  <2>4. x <= Len(s)
    BY <2>1, <2>3
  <2>5. QED
    BY <1>2, <2>2, <2>4, Zenon
<1>5. \A n \in 0 .. m : g[n] = f[n]
  BY Zenon DEF BeginningOf
<1> HIDE DEF v, t, g
<1>6. g[0] = a /\ g[Len(v)] = f[m] /\ \A n \in 0 .. Len(v) : g[n].mods \subseteq M
  BY <1>1, <1>2, <1>3, <1>5, Zenon
<1>7. LeadFrom(v, t, a, f[m], M)
  BY <1>2, <1>6, Zenon DEF LeadFrom
<1>8. QED
  BY <1>2, <1>4, <1>7, Zenon DEF v

\* GetButtons lets the keys in SDL's queue go, and no others.
LEMMA GetButtonsStep == ASSUME KeysInv, GetButtons PROVE KeysInv'
<1>1. KeysTypes
  BY Zenon DEF KeysInv
<1>2. PICK w, a, b : WordsAre(w, a, b)
  BY Zenon DEF KeysInv
<1>3. /\ host = "sdl" /\ pending' = <<>> /\ held' = held /\ typed' = typed
      /\ owed' = ReadEvents(InRing(Ring), {}, None, RingSize).out
  BY DEF GetButtons
<1>4. /\ LeadFrom(w, owed, a, b, Seen) /\ a.mods = keymap \cap Modifiers /\ a.last = lastkey
      /\ WillHold(eread, Ring, pending, w) /\ owed \in Seq(Code) /\ pending \in Seq(HostEvent) /\ eread \in Slots
  BY <1>1, <1>2, <1>3, Zenon DEF WordsAre, KeysTypes
<1>5. UNCHANGED <<host, ringvars, readvars, misfired>>
  BY DEF GetButtons
<1>6. /\ host' = host /\ keymap' = keymap /\ lastkey' = lastkey /\ Seen' = Seen /\ eread' = eread /\ Ring' = Ring
  BY <1>1, <1>5, KeptIs, Zenon
<1>7. PICK h : Counting(h, eread, Ring, pending, w)
  BY <1>4, Zenon DEF WillHold
<1>8. w \in Seq(KeyWord) /\ Len(w) < RingSize
  BY <1>4, Zenon DEF WillHold
<1>9. PICK m \in 0 .. Len(w) : m = h[0] /\ RingHolds(eread, Ring, w, m)
  <2>1. h[0] \in 0 .. Len(w) /\ RingHolds(eread, Ring, w, h[0])
    <3>1. Len(pending) \in Nat
      BY <1>4
    <3>2. 0 \in 0 .. Len(pending)
      BY <3>1
    <3>3. h \in [0 .. Len(pending) -> 0 .. Len(w)] /\ RingHolds(eread, Ring, w, h[0])
      BY <1>7, Zenon DEF Counting
    <3>4. QED
      BY <3>2, <3>3
  <2>2. QED
    BY <2>1, Zenon
<1>10. m \in Nat /\ m <= Len(w) /\ Len(w) \in Nat /\ m < RingSize /\ \A i \in 1 .. m : i \in 1 .. Len(w)
  BY <1>8, KeysAre
<1>11. PICK v : v = SubSeq(w, 1, m)
  OBVIOUS
<1>12. InRing(Ring) = v
  BY <1>4, <1>8, <1>9, <1>10, <1>11, InRingIs, Zenon
<1>13. PICK t, c : LeadFrom(v, t, a, c, Seen) /\ t \in Seq(Code) /\ Len(t) <= Len(owed) /\ v \in Seq(KeyWord) /\ Len(v) = m
  BY <1>4, <1>8, <1>11, BeginningLeads, Zenon
<1>14. owed' = t
  <2>1. HasRoom(v, t, RingSize)
    BY <1>10, <1>13, KeysAre DEF HasRoom
  <2>2. HeldAt({}, a)
    <3>1. a.mods \subseteq Seen
      BY <1>4, LedIs, Zenon
    <3>2. Seen = {}
      BY <1>3 DEF Seen
    <3>3. a.mods = {}
      BY <3>1, <3>2
    <3>4. QED
      BY <3>3 DEF HeldAt
  <2>3. None \in Code
    BY DEF None, Code
  <2>4. ReadInto(v, {}, None, RingSize, t)
    BY <1>13, <2>1, <2>2, <2>3, AllIsRead, Zenon
  <2>5. QED
    BY <1>3, <1>12, <2>4, Zenon DEF ReadInto
<1>15. WillHold(eread', Ring', pending', v)
  <2>1. \A i \in 1 .. m : v[i] = w[i]
    BY <1>8, <1>9, <1>11
  <2>2. RingHolds(eread, Ring, v, Len(v))
    BY <1>9, <1>13, <2>1, Zenon DEF RingHolds
  <2>3. Len(v) < RingSize
    BY <1>10, <1>13, Zenon
  <2>4. WillHold(eread, Ring, <<>>, v)
    BY <1>13, <2>2, <2>3, RingAlone, Zenon
  <2>5. QED
    BY <1>3, <1>6, <2>4, Zenon
<1>16. KeysTypes'
  <2>1. held' \in SUBSET (Keys \cup Modifiers)
    BY <1>1, <1>3, Zenon DEF KeysTypes
  <2>2. pending' \in Seq(HostEvent)
    BY <1>3
  <2>3. owed' \in Seq(Code) /\ typed' \in 0 .. MaxTyped /\ Len(owed') <= typed'
    <3>1. typed \in 0 .. MaxTyped /\ Len(owed) <= typed /\ Len(owed) \in Nat /\ Len(t) \in Nat
      BY <1>1, <1>4, <1>13 DEF KeysTypes
    <3>2. Len(t) <= typed
      BY <1>13, <3>1
    <3>3. QED
      BY <1>3, <1>13, <1>14, <3>1, <3>2, Zenon
  <2>4. QED
    BY <1>1, <1>5, <2>1, <2>2, <2>3, KeptIs, Zenon DEF KeysTypes
<1>17. host' # "4404"
  BY <1>3, <1>6
<1>18. LeadFrom(v, owed', a, c, Seen')
  BY <1>6, <1>13, <1>14, Zenon
<1>19. QED
  BY <1>4, <1>6, <1>15, <1>16, <1>17, <1>18, KeysFollow, Zenon

\* So does a key that the terminal repeats.
LEMMA RepeatStep == ASSUME KeysInv, NEW write, Repeat(write) PROVE KeysInv'
<1>1. KeysTypes
  BY Zenon DEF KeysInv
<1>2. PICK w, a, b : WordsAre(w, a, b)
  BY Zenon DEF KeysInv
<1>3. /\ UNCHANGED <<host, ringvars, readvars, misfired>>
      /\ held' = held /\ typed' = typed /\ owed' = owed /\ pending' = <<>> /\ Queued = <<>>
  BY DEF Repeat
<1>4. w = <<>>
  BY <1>1, <1>2, <1>3, QueuedIs, Zenon
<1>5. /\ host' = host /\ keymap' = keymap /\ lastkey' = lastkey /\ Seen' = Seen /\ eread' = eread /\ Ring' = Ring
  BY <1>1, <1>3, KeptIs, Zenon
<1>6. LeadFrom(w, owed', a, b, Seen') /\ a.mods = keymap' \cap Modifiers /\ a.last = lastkey'
  BY <1>2, <1>3, <1>5, Zenon DEF WordsAre
<1>7. host' = "4404" => w = pending' /\ b.mods = held' \cap Modifiers /\ LastIsHeld(b.last)'
  <2> SUFFICES ASSUME host' = "4404" PROVE w = pending' /\ b.mods = held' \cap Modifiers /\ LastIsHeld(b.last)'
    OBVIOUS
  <2>1. b.mods = held \cap Modifiers /\ LastIsHeld(b.last)
    BY <1>2, <1>5, Zenon DEF WordsAre
  <2>2. LastIsHeld(b.last)'
    BY <1>3, <2>1, LastStays
  <2>3. QED
    BY <1>3, <1>4, <2>1, <2>2, Zenon
<1>8. host' = "sdl" => WillHold(eread', Ring', pending', w)
  <2> SUFFICES ASSUME host' = "sdl" PROVE WillHold(eread', Ring', pending', w)
    OBVIOUS
  <2>1. WillHold(eread, Ring, pending, w) /\ pending \in Seq(HostEvent)
    BY <1>1, <1>2, <1>5, Zenon DEF WordsAre, KeysTypes
  <2>2. PICK h : Counting(h, eread, Ring, pending, w)
    BY <2>1, Zenon DEF WillHold
  <2>3. w \in Seq(KeyWord) /\ Len(w) < RingSize /\ Len(w) = 0
    <3>1. w \in Seq(KeyWord) /\ Len(w) < RingSize
      BY <2>1, Zenon DEF WillHold
    <3>2. QED
      BY <1>4, <3>1
  <2>4. h[0] = 0
    <3>1. 0 \in 0 .. Len(pending)
      BY <2>1
    <3>2. h \in [0 .. Len(pending) -> 0 .. Len(w)]
      BY <2>2, Zenon DEF Counting
    <3>3. h[0] \in 0 .. 0
      BY <2>3, <3>1, <3>2
    <3>4. QED
      BY <3>3
  <2>5. RingHolds(eread, Ring, w, Len(w))
    BY <2>2, <2>3, <2>4, Zenon DEF Counting
  <2>6. WillHold(eread, Ring, <<>>, w)
    BY <2>3, <2>5, RingAlone, Zenon
  <2>7. QED
    BY <1>3, <1>5, <2>6, Zenon
<1>9. KeysTypes'
  <2>1. pending' \in Seq(HostEvent)
    BY <1>3
  <2>2. QED
    BY <1>1, <1>3, <2>1, KeptIs, Zenon DEF KeysTypes
<1>10. QED
  BY <1>6, <1>7, <1>8, <1>9, KeysFollow, Zenon

\* After the reading r of the words: what it has come to, and that the rest
\* leads on, over the characters that are still to come.
ReadSoFar(r, w, s, b, M) ==
    \E u, c, a, d :
        /\ u \in 0 .. Len(w) /\ c \in 0 .. Len(s)
        /\ r.used = u /\ r.out = SubSeq(s, 1, c) /\ Len(r.out) = c
        /\ a.mods = r.keymap \cap Modifiers /\ a.last = r.lastkey
        /\ d.mods = b.mods /\ d.last = b.last
        /\ r.keymap \in SUBSET Code /\ r.lastkey \in Code
        /\ SubSeq(w, u + 1, Len(w)) \in Seq(KeyWord) /\ Len(SubSeq(w, u + 1, Len(w))) = Len(w) - u
        /\ SubSeq(s, c + 1, Len(s)) \in Seq(Code) /\ Len(SubSeq(s, c + 1, Len(s))) = Len(s) - c
        /\ LeadFrom(SubSeq(w, u + 1, Len(w)), SubSeq(s, c + 1, Len(s)), a, d, M)

\* A reader who stops when its room is full leaves words that lead over the characters still owed.
LEMMA ReadingLeads ==
    ASSUME NEW w, NEW s \in Seq(Code), NEW a, NEW b, NEW M, LeadFrom(w, s, a, b, M),
           NEW map, HeldAt(map, a), NEW last \in Code, last = a.last, NEW room \in Nat
    PROVE  ReadSoFar(ReadEvents(w, map, last, room), w, s, b, M)
<1>1. w \in Seq(KeyWord)
  BY Zenon DEF LeadFrom
<1>2. PICK f : ReadsAs(f, w, s) /\ f[0] = a /\ f[Len(w)] = b /\ \A n \in 0 .. Len(w) : f[n].mods \subseteq M
  BY Zenon DEF LeadFrom
<1>3. map \in SUBSET Code /\ map \cap Modifiers = f[0].mods /\ last = f[0].last
  BY <1>2, Zenon DEF HeldAt
<1>4. PICK r : r = ReadEvents(w, map, last, room)
  OBVIOUS
<1>5. PICK u \in 0 .. Len(w) : ReadingAt(r, f[u], s, u) /\ r.lastkey = f[u].last
  BY <1>1, <1>2, <1>3, <1>4, PartIsRead
<1>6. /\ Len(w) \in Nat /\ Len(s) \in Nat /\ u \in Nat /\ Len(w) \in u .. Len(w) /\ u \in 0 .. u /\ Len(w) - u \in Nat
      /\ u + 0 = u /\ u + (Len(w) - u) = Len(w) /\ 0 \in 0 .. Len(w) - u /\ Len(w) - u \in 0 .. Len(w) - u
      /\ \A n \in 0 .. Len(w) - u : u + n \in u .. Len(w) /\ u + n \in 0 .. Len(w)
  BY <1>1
<1>7. f[u] \in Place(s)
  BY <1>1, <1>2, <1>6, PlacesAre
<1>8. PICK c \in 0 .. Len(s) : c = f[u].count
  BY <1>7, PlaceIs, Zenon
<1> DEFINE v == SubSeq(w, u + 1, Len(w))
           t == SubSeq(s, c + 1, Len(s))
           g == RestOf(f, w, u)
<1>9. v \in Seq(KeyWord) /\ t \in Seq(Code) /\ Len(v) = Len(w) - u /\ Len(t) = Len(s) - c /\ ReadsAs(g, v, t)
  BY <1>1, <1>2, <1>8, RestReads
<1>10. \A n \in 0 .. Len(w) - u : g[n] = CountedFrom(f[u + n], c)
  BY <1>8, Zenon DEF RestOf
<1>11. PICK x, y : x = CountedFrom(f[u], c) /\ y = CountedFrom(b, c)
  OBVIOUS
<1>12. x.mods = f[u].mods /\ x.last = f[u].last /\ y.mods = b.mods /\ y.last = b.last
  BY <1>11 DEF CountedFrom, PlaceOf
<1>13. \A n \in 0 .. Len(w) - u : CountedFrom(f[u + n], c).mods = f[u + n].mods
  BY DEF CountedFrom, PlaceOf
<1> HIDE DEF v, t, g
<1>14. g[0] = x /\ g[Len(v)] = y /\ \A n \in 0 .. Len(v) : g[n].mods \subseteq M
  <2>1. g[0] = x
    BY <1>6, <1>10, <1>11, Zenon
  <2>2. g[Len(v)] = y
    BY <1>2, <1>6, <1>9, <1>10, <1>11, Zenon
  <2>3. ASSUME NEW n \in 0 .. Len(v) PROVE g[n].mods \subseteq M
    <3>1. n \in 0 .. Len(w) - u /\ u + n \in 0 .. Len(w)
      BY <1>6, <1>9
    <3>2. g[n].mods = f[u + n].mods
      BY <1>10, <1>13, <3>1, Zenon
    <3>3. f[u + n].mods \subseteq M
      BY <1>2, <3>1, Zenon
    <3>4. QED
      BY <3>2, <3>3, Zenon
  <2>4. QED
    BY <2>1, <2>2, <2>3, Zenon
<1>15. LeadFrom(v, t, x, y, M)
  BY <1>9, <1>14, Zenon DEF LeadFrom
<1>16. /\ r.used = u /\ r.out = SubSeq(s, 1, c) /\ r \in Reading /\ x.mods = r.keymap \cap Modifiers /\ x.last = r.lastkey
  BY <1>5, <1>8, <1>12, Zenon DEF ReadingAt
<1>17. r.keymap \in SUBSET Code /\ r.lastkey \in Code
  BY <1>16, ReadingIs, Zenon
<1>18. Len(r.out) = c
  <2>1. Len(SubSeq(s, 1, c)) = c
    BY <1>6
  <2>2. QED
    BY <1>16, <2>1, Zenon
<1>19. ReadSoFar(r, w, s, b, M)
  BY <1>9, <1>12, <1>15, <1>16, <1>17, <1>18, Zenon DEF ReadSoFar, v, t
<1>20. QED
  BY <1>4, <1>19, Zenon

\* So does a round of the reader.
LEMMA RoundStep == ASSUME KeysInv, NEW write, Round(write) PROVE KeysInv'
<1>1. KeysTypes
  BY Zenon DEF KeysInv
<1>2. PICK w, a, b : WordsAre(w, a, b)
  BY Zenon DEF KeysInv
<1>3. Queued = w /\ (host = "sdl" => RingHolds(eread, Filled, w, Len(w)) /\ Len(w) < RingSize)
  BY <1>1, <1>2, QueuedIs, Zenon
<1>4. PICK r : r = ReadEvents(w, keymap, lastkey, MaxLen)
  OBVIOUS
<1>5. LeadFrom(w, owed, a, b, Seen) /\ a.mods = keymap \cap Modifiers /\ a.last = lastkey /\ owed \in Seq(Code) /\ lastkey \in Code
  BY <1>1, <1>2, Zenon DEF WordsAre, KeysTypes
<1>6. ReadSoFar(r, w, owed, b, Seen)
  <2>1. HeldAt(keymap, a)
    BY <1>1, <1>5, Zenon DEF HeldAt, KeysTypes
  <2>2. MaxLen \in Nat
    BY KeysAssumption
  <2>3. QED
    BY <1>4, <1>5, <2>1, <2>2, ReadingLeads, Zenon
<1>7. PICK u, c, p, d :
        /\ u \in 0 .. Len(w) /\ c \in 0 .. Len(owed)
        /\ r.used = u /\ r.out = SubSeq(owed, 1, c) /\ Len(r.out) = c
        /\ p.mods = r.keymap \cap Modifiers /\ p.last = r.lastkey
        /\ d.mods = b.mods /\ d.last = b.last
        /\ r.keymap \in SUBSET Code /\ r.lastkey \in Code
        /\ SubSeq(w, u + 1, Len(w)) \in Seq(KeyWord) /\ Len(SubSeq(w, u + 1, Len(w))) = Len(w) - u
        /\ SubSeq(owed, c + 1, Len(owed)) \in Seq(Code) /\ Len(SubSeq(owed, c + 1, Len(owed))) = Len(owed) - c
        /\ LeadFrom(SubSeq(w, u + 1, Len(w)), SubSeq(owed, c + 1, Len(owed)), p, d, Seen)
  BY <1>6, Zenon DEF ReadSoFar
<1>8. PICK v, t : v = SubSeq(w, u + 1, Len(w)) /\ t = SubSeq(owed, c + 1, Len(owed)) /\ u \in 0 .. Len(w) /\ c \in 0 .. Len(owed)
  BY <1>7, Zenon
<1>9. /\ keymap' = r.keymap /\ lastkey' = r.lastkey /\ host' = host /\ held' = held /\ typed' = typed
      /\ IF host = "sdl"
         THEN /\ pending' = <<>> /\ eventqueue' = Forgotten(Filled.queue, r.used) /\ ewrite' = Filled.write
              /\ eread' = (eread + r.used) % RingSize
         ELSE pending' = SubSeq(w, r.used + 1, Len(w)) /\ UNCHANGED ringvars
      /\ IF r.out # <<>> THEN Deliver(r.out, write) ELSE UNCHANGED <<owed, misfired, hangup, running>>
  BY <1>3, <1>4, Zenon DEF Round
<1>10. misfired' = FALSE /\ owed' = t
  <2>1. misfired = FALSE
    BY <1>1, Zenon DEF KeysTypes
  <2>2. CASE r.out # <<>>
    <3>1. Deliver(r.out, write)
      BY <1>9, <2>2
    <3>2. owed' = SubSeq(owed, c + 1, Len(owed))
      BY <1>7, <3>1, Zenon DEF Deliver
    <3>3. ~(r.out # SubSeq(owed, 1, Len(r.out)))
      BY <1>7, Zenon
    <3>4. misfired' = (misfired \/ r.out # SubSeq(owed, 1, Len(r.out)))
      BY <3>1, Zenon DEF Deliver
    <3>5. QED
      BY <1>8, <2>1, <3>2, <3>3, <3>4
  <2>3. CASE r.out = <<>>
    <3>1. owed' = owed /\ misfired' = misfired
      BY <1>9, <2>3
    <3>2. c = 0
      BY <1>7, <2>3
    <3>3. SubSeq(owed, 0 + 1, Len(owed)) = owed
      BY <1>5
    <3>4. QED
      BY <1>8, <2>1, <3>1, <3>2, <3>3, Zenon
  <2>4. QED
    BY <2>2, <2>3
<1>11. Seen' = Seen
  BY <1>9 DEF Seen
<1>12. LeadFrom(v, owed', p, d, Seen') /\ p.mods = keymap' \cap Modifiers /\ p.last = lastkey'
  BY <1>7, <1>8, <1>9, <1>10, <1>11, Zenon
<1>13. host' = "4404" => v = pending' /\ d.mods = held' \cap Modifiers /\ LastIsHeld(d.last)'
  <2> SUFFICES ASSUME host' = "4404" PROVE v = pending' /\ d.mods = held' \cap Modifiers /\ LastIsHeld(d.last)'
    OBVIOUS
  <2>1. b.mods = held \cap Modifiers /\ LastIsHeld(b.last)
    BY <1>2, <1>9, Zenon DEF WordsAre
  <2>2. LastIsHeld(b.last)'
    BY <1>9, <2>1, LastStays
  <2>3. pending' = v
    <3>1. host # "sdl"
      BY <1>9
    <3>2. QED
      BY <1>7, <1>8, <1>9, <3>1
  <2>4. LastIsHeld(d.last)'
    BY <1>7, <2>2, Zenon
  <2>5. QED
    BY <1>7, <1>9, <2>1, <2>3, <2>4, Zenon
<1>14. host = "sdl" => eread' \in Slots /\ Ring' \in Rings /\ WillHold(eread', Ring', pending', v) /\ pending' = <<>>
  <2> SUFFICES ASSUME host = "sdl"
               PROVE  eread' \in Slots /\ Ring' \in Rings /\ WillHold(eread', Ring', pending', v) /\ pending' = <<>>
    OBVIOUS
  <2>1. eread \in Slots /\ RingHolds(eread, Filled, w, Len(w)) /\ Len(w) < RingSize /\ w \in Seq(KeyWord)
    BY <1>1, <1>2, <1>3, Zenon DEF KeysTypes, WordsAre, LeadFrom
  <2>2. /\ (eread + u) % RingSize \in Slots
        /\ RingHolds((eread + u) % RingSize, RingOf(Forgotten(Filled.queue, u), Filled.write), v, Len(w) - u)
    BY <1>8, <2>1, RestIsHeld
  <2>3. /\ pending' = <<>> /\ eventqueue' = Forgotten(Filled.queue, u) /\ ewrite' = Filled.write
        /\ eread' = (eread + u) % RingSize
    BY <1>7, <1>9
  <2>4. Ring' = RingOf(Forgotten(Filled.queue, u), Filled.write)
    BY <2>3, Zenon DEF Ring, RingOf
  <2>5. RingHolds(eread', Ring', v, Len(v)) /\ v \in Seq(KeyWord)
    BY <1>7, <1>8, <2>2, <2>3, <2>4, Zenon
  <2>6. Len(v) < RingSize
    <3>1. Len(v) = Len(w) - u
      BY <1>7, <1>8, Zenon
    <3>2. QED
      BY <1>8, <2>1, <3>1, KeysAre
  <2>7. WillHold(eread', Ring', <<>>, v)
    BY <2>5, <2>6, RingAlone, Zenon
  <2>8. Ring' \in Rings
    BY <2>5, Zenon DEF RingHolds
  <2>9. QED
    BY <2>2, <2>3, <2>7, <2>8, Zenon
<1>15. host' = "sdl" => WillHold(eread', Ring', pending', v)
  BY <1>9, <1>14
<1>16. KeysTypes'
  <2>1. host' \in {"4404", "sdl"} /\ held' \in SUBSET (Keys \cup Modifiers) /\ keymap' \in SUBSET Code /\ lastkey' \in Code
    BY <1>1, <1>7, <1>9, Zenon DEF KeysTypes
  <2>2. pending' \in Seq(HostEvent)
    <3>1. CASE host = "sdl"
      BY <1>14, <3>1
    <3>2. CASE host # "sdl"
      <4>1. pending = w
        BY <1>1, <1>2, <3>2 DEF WordsAre, KeysTypes
      <4>2. w \in Seq(HostEvent) /\ pending' = SubSeq(w, u + 1, Len(w))
        BY <1>1, <1>7, <1>9, <3>2, <4>1 DEF KeysTypes
      <4>3. QED
        BY <1>8, <4>2
    <3>3. QED
      BY <3>1, <3>2
  <2>3. eread' \in Slots /\ Ring' \in Rings
    <3>1. CASE host = "sdl"
      BY <1>14, <3>1
    <3>2. CASE host # "sdl"
      BY <1>1, <1>9, <3>2 DEF KeysTypes, ringvars, Ring
    <3>3. QED
      BY <3>1, <3>2
  <2>4. owed' \in Seq(Code) /\ typed' \in 0 .. MaxTyped /\ Len(owed') <= typed'
    <3>1. typed \in 0 .. MaxTyped /\ Len(owed) <= typed /\ Len(owed) \in Nat
      BY <1>1, <1>5 DEF KeysTypes
    <3>2. t \in Seq(Code) /\ Len(t) = Len(owed) - c
      BY <1>7, <1>8, Zenon
    <3>3. Len(t) <= typed
      BY <1>8, <3>1, <3>2
    <3>4. QED
      BY <1>9, <1>10, <3>1, <3>2, <3>3, Zenon
  <2>5. QED
    BY <1>10, <2>1, <2>2, <2>3, <2>4, Zenon DEF KeysTypes
<1>17. QED
  BY <1>12, <1>13, <1>15, <1>16, KeysFollow, Zenon

\* Every step of the keyboard and its reader keeps it.
LEMMA KeysStep == KeysInv /\ [KeysNext]_keyvars => KeysInv'
<1> SUFFICES ASSUME KeysInv, [KeysNext]_keyvars PROVE KeysInv'
  OBVIOUS
<1>1. ASSUME NEW k \in Keys \cup {SHIFT, CONTROL}, KeyDown(k) PROVE KeysInv'
  BY <1>1, KeyDownStep
<1>2. ASSUME NEW k \in Keys \cup {SHIFT, CONTROL}, KeyUp(k) PROVE KeysInv'
  BY <1>2, KeyUpStep
<1>3. CASE MouseUp
  BY <1>3, MouseUpStep
<1>4. CASE Switch
  BY <1>4, SwitchStep
<1>5. CASE GetButtons
  BY <1>5, GetButtonsStep
<1>6. ASSUME NEW write \in {"ok", "again", "dead"}, Round(write) PROVE KeysInv'
  BY <1>6, RoundStep
<1>7. ASSUME NEW write \in {"ok", "again", "dead"}, Repeat(write) PROVE KeysInv'
  BY <1>7, RepeatStep
<1>8. CASE UNCHANGED keyvars
  <2>1. UNCHANGED <<host, held, pending, ringvars, readvars, typed, owed, misfired>>
    BY <1>8 DEF keyvars, ringvars, readvars
  <2>2. QED
    BY <2>1, KeysIdle
<1>9. QED
  BY <1>1, <1>2, <1>3, <1>4, <1>5, <1>6, <1>7, <1>8, Zenon DEF KeysNext

\* Keys are delivered as they were typed, each once, whatever the ring, the
\* full buffer and the time stamps between do, and only held ones again.
THEOREM KeysArrive == KeysSpec => []KeysAreRight
<1>1. KeysSpec => []KeysInv
  BY KeysStart, KeysStep, PTL DEF KeysSpec
<1>2. QED
  BY <1>1, KeysMean, PTL

=============================================================================
