----------------------------- MODULE Asteronix -----------------------------
(***************************************************************************)
(* The game asteronix: rocks, bullets and a ship drawn on two pages that   *)
(* are shown in turn.  What is erased on a page is what was drawn there    *)
(* two frames ago, so whatever dies has to live on, unseen, until it has   *)
(* been erased from both; and an array loses an element by moving its last *)
(* one into the gap, in the middle of a loop over it.                      *)
(*                                                                         *)
(* Positions are left out: a rock may hit, or be hit by, whatever the code *)
(* compares it with.  Of the picture the model keeps how many images a     *)
(* page holds.  The numbers of frames things last are constants.           *)
(***************************************************************************)
EXTENDS Integers, Sequences, FiniteSets

CONSTANTS
    Rocks,        \* the numbers of rocks a game may begin with
    MAXROCKS, MAXBULLETS,
    BoomBullets,  \* the bullets of an explosion
    Immortal,     \* frames in which a new rock cannot be hit
    FireLife, BoomLife, Cooldown, EndFrames

ASSUME AsteronixAssumption ==
    /\ MAXROCKS \in Nat /\ MAXBULLETS \in Nat
    /\ Rocks \subseteq 0 .. MAXROCKS
    /\ {BoomBullets, Immortal, FireLife, BoomLife, Cooldown, EndFrames} \subseteq Nat

VARIABLES
    bigrocks, mediumrocks, bullets,  \* what there is: a state, and the pages it is drawn on
    aship,
    respawn,      \* respawndelay is set
    gameoverman,
    pindex,       \* the page that is drawn
    images,       \* the images on each page
    looping, elem   \* the loop, and where it is

asteronixVars == <<bigrocks, mediumrocks, bullets, aship, respawn, gameoverman, pindex, images, looping, elem>>

DEAD == 0
DYING_FINISH == 1
DYING2 == 2
DYING_START == 5
ALIVE == 6

Sprite(state) == [state |-> state, old |-> {}]

AsteronixInit ==
    /\ \E n \in Rocks : bigrocks = [r \in 1..n |-> Sprite(ALIVE + Immortal)]
    /\ mediumrocks = <<>>
    /\ bullets = <<>>
    /\ aship = [state |-> DEAD, old |-> {}, cooldown |-> 0]
    /\ respawn = TRUE
    /\ gameoverman = EndFrames
    /\ pindex = 0
    /\ images = [p \in {0, 1} |-> 0]
    /\ looping = "frame"
    /\ elem = 1

\* restoreunder, the undrawing of a bullet and of the ship: only this page.
ErasedHere(s) == [s EXCEPT !.old = @ \ {pindex}]
ErasedImages(s) == IF pindex \in s.old THEN [images EXCEPT ![pindex] = @ - 1] ELSE images

Drawn(s) == [s EXCEPT !.old = @ \cup {pindex}]
DrawnImages(s) == [images EXCEPT ![pindex] = @ + 1]

Loop(name) == looping' = name /\ elem' = 1

Frame ==
    /\ looping = "frame" /\ gameoverman > 0
    /\ gameoverman' = IF bigrocks = <<>> /\ mediumrocks = <<>> THEN gameoverman - 1 ELSE gameoverman
    /\ aship' = ErasedHere(aship)
    /\ images' = ErasedImages(aship)
    /\ Loop("big")
    /\ UNCHANGED <<bigrocks, mediumrocks, bullets, respawn, pindex>>

Nothing == 0
Ship == -1

\* What a rock may have hit: nothing, the ship, or one of the bullets.
Hits(rock) ==
    {Nothing} \cup
    IF rock.state # ALIVE THEN {}
    ELSE (IF aship.state = ALIVE THEN {Ship} ELSE {}) \cup {b \in DOMAIN bullets : bullets[b].state >= ALIVE}

Hit(what) == /\ aship' = IF what = Ship THEN [aship EXCEPT !.state = DYING_START] ELSE aship

Shot(what) == [b \in DOMAIN bullets |-> IF b = what THEN [bullets[b] EXCEPT !.state = DYING2] ELSE bullets[b]]

makeboom(into) ==
    into \o [b \in 1..(IF MAXBULLETS - Len(into) > BoomBullets THEN BoomBullets ELSE MAXBULLETS - Len(into))
                |-> Sprite(ALIVE + BoomLife)]

\* Two fragments, when there is room for both.
Fragments == IF Len(mediumrocks) < MAXROCKS - 2
             THEN mediumrocks \o <<Sprite(ALIVE + Immortal), Sprite(ALIVE + Immortal)>>
             ELSE mediumrocks

HitBigRock ==
    /\ looping = "big" /\ elem <= Len(bigrocks)
    /\ LET rock == bigrocks[elem]
       IN  /\ images' = ErasedImages(rock)
           /\ \E what \in Hits(rock) :
               /\ bigrocks' = [bigrocks EXCEPT ![elem] = [ErasedHere(rock) EXCEPT !.state = IF what = Nothing THEN @ ELSE DYING_START]]
               /\ mediumrocks' = IF what = Nothing THEN mediumrocks ELSE Fragments
               /\ Hit(what)
               /\ bullets' = Shot(what)
    /\ elem' = elem + 1
    /\ UNCHANGED <<respawn, gameoverman, pindex, looping>>

\* A medium rock that is gone with the frame it was hit in.
MediumDies_Finish == DYING_FINISH

MediumDies == DYING2

HitMediumRock ==
    /\ looping = "medium" /\ elem <= Len(mediumrocks)
    /\ LET rock == mediumrocks[elem]
       IN  /\ images' = ErasedImages(rock)
           /\ \E what \in Hits(rock) :
               /\ mediumrocks' = [mediumrocks EXCEPT ![elem] = [ErasedHere(rock) EXCEPT !.state = IF what = Nothing THEN @ ELSE MediumDies]]
               /\ Hit(what)
               /\ bullets' = IF what = Nothing THEN bullets ELSE makeboom(Shot(what))
    /\ elem' = elem + 1
    /\ UNCHANGED <<bigrocks, respawn, gameoverman, pindex, looping>>

\* The last element in the place of this one.
Removed(seq, e) == SubSeq([seq EXCEPT ![e] = seq[Len(seq)]], 1, Len(seq) - 1)

\* A loop over rocks: those alive are drawn, the others get one frame older.
DrawRock(rocks) ==
    /\ elem <= Len(rocks)
    /\ LET rock == rocks[elem]
           aged == [rock EXCEPT !.state = @ - 1]
       IN  IF rock.state >= ALIVE
           THEN /\ rocks' = [rocks EXCEPT ![elem] = Drawn(IF rock.state > ALIVE THEN aged ELSE rock)]
                /\ images' = DrawnImages(rock)
                /\ elem' = elem + 1
           ELSE /\ UNCHANGED images
                /\ IF aged.state = DEAD
                   THEN rocks' = Removed(rocks, elem) /\ UNCHANGED elem
                   ELSE rocks' = [rocks EXCEPT ![elem] = aged] /\ elem' = elem + 1
    /\ UNCHANGED <<bullets, aship, respawn, gameoverman, pindex, looping>>

DrawBigRock == looping = "drawbig" /\ DrawRock(bigrocks) /\ UNCHANGED mediumrocks
DrawMediumRock == looping = "drawmedium" /\ DrawRock(mediumrocks) /\ UNCHANGED bigrocks

\* One bullet of dobullets: erased, aged, drawn again or removed.
DoBullet ==
    /\ looping = "bullets" /\ elem <= Len(bullets)
    /\ LET was == ErasedHere(bullets[elem])
           aged == [was EXCEPT !.state = @ - 1]
           clean == ErasedImages(bullets[elem])
       IN  IF aged.state >= ALIVE
           THEN /\ bullets' = [bullets EXCEPT ![elem] = Drawn(aged)]
                /\ images' = [clean EXCEPT ![pindex] = @ + 1]
                /\ elem' = elem + 1
           ELSE /\ images' = clean
                /\ IF aged.state = DEAD
                   THEN bullets' = Removed(bullets, elem) /\ UNCHANGED elem
                   ELSE bullets' = [bullets EXCEPT ![elem] = aged] /\ elem' = elem + 1
    /\ UNCHANGED <<bigrocks, mediumrocks, aship, respawn, gameoverman, pindex, looping>>

\* The loops follow one another.
NextLoop ==
    /\ \/ looping = "big" /\ elem > Len(bigrocks) /\ Loop("medium")
       \/ looping = "medium" /\ elem > Len(mediumrocks) /\ Loop("drawbig")
       \/ looping = "drawbig" /\ elem > Len(bigrocks) /\ Loop("drawmedium")
       \/ looping = "drawmedium" /\ elem > Len(mediumrocks) /\ Loop("bullets")
       \/ looping = "bullets" /\ elem > Len(bullets) /\ Loop("ship")
    /\ UNCHANGED <<bigrocks, mediumrocks, bullets, aship, respawn, gameoverman, pindex, images>>

\* respawndelay: the time comes in some frame.
newship ==
    /\ looping = "ship" /\ respawn
    /\ \/ respawn' = FALSE /\ aship' = [aship EXCEPT !.state = ALIVE, !.cooldown = 0]
       \/ UNCHANGED <<respawn, aship>>
    /\ Loop("flip")
    /\ UNCHANGED <<bigrocks, mediumrocks, bullets, gameoverman, pindex, images>>

Respawns(state) == state = DYING_FINISH

\* The ship is drawn and may fire, or it dies with an explosion a frame.
doship ==
    /\ looping = "ship" /\ ~respawn
    /\ \/ /\ aship.state = ALIVE
          /\ images' = DrawnImages(aship)
          /\ \/ /\ aship.cooldown = 0 /\ Len(bullets) < MAXBULLETS
                /\ bullets' = Append(bullets, Sprite(ALIVE + FireLife))
                /\ aship' = [Drawn(aship) EXCEPT !.cooldown = Cooldown]
             \/ /\ aship' = [Drawn(aship) EXCEPT !.cooldown = IF @ = 0 THEN 0 ELSE @ - 1]
                /\ UNCHANGED bullets
          /\ UNCHANGED respawn
       \/ /\ aship.state # ALIVE /\ aship.state > DEAD
          /\ respawn' = Respawns(aship.state)
          /\ aship' = [aship EXCEPT !.state = @ - 1]
          /\ bullets' = makeboom(bullets)
          /\ UNCHANGED images
       \/ aship.state = DEAD /\ UNCHANGED <<aship, bullets, images, respawn>>
    /\ Loop("flip")
    /\ UNCHANGED <<bigrocks, mediumrocks, gameoverman, pindex>>

flip ==
    /\ looping = "flip"
    /\ pindex' = 1 - pindex
    /\ Loop("frame")
    /\ UNCHANGED <<bigrocks, mediumrocks, bullets, aship, respawn, gameoverman, images>>

AsteronixNext == Frame \/ HitBigRock \/ HitMediumRock \/ DrawBigRock \/ DrawMediumRock
                 \/ DoBullet \/ NextLoop \/ newship \/ doship \/ flip

AsteronixSpec == AsteronixInit /\ [][AsteronixNext]_asteronixVars

-----------------------------------------------------------------------------
Holders(seq, p) == {s \in DOMAIN seq : p \in seq[s].old}

\* What is on a page is what something still there will erase: no rock, no
\* bullet and no ship leaves an image behind when it is removed or moved.
NoGhosts ==
    \A p \in {0, 1} :
        images[p] = Cardinality(Holders(bigrocks, p)) + Cardinality(Holders(mediumrocks, p))
                    + Cardinality(Holders(bullets, p)) + (IF p \in aship.old THEN 1 ELSE 0)

\* When a page is shown every rock that can be hit is on it, those too that
\* were moved into a gap while the loop ran.
RocksAreShown ==
    looping = "flip" => \A rocks \in {bigrocks, mediumrocks} :
                        \A r \in DOMAIN rocks : rocks[r].state >= ALIVE => pindex \in rocks[r].old

\* A ship that is gone comes back.
ShipComesBack == looping = "flip" => (aship.state = DEAD => respawn)

ArraysHold == Len(mediumrocks) <= MAXROCKS /\ Len(bullets) <= MAXBULLETS

AsteronixIsRight == NoGhosts /\ RocksAreShown /\ ShipComesBack /\ ArraysHold
=============================================================================
