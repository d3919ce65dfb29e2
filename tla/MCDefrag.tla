------------------------------ MODULE MCDefrag ------------------------------
(* Small disks: blocks 3 to 18, two direct blocks and two addresses in an indirect block. *)
EXTENDS Defrag

Fdn(type, blk) == [type |-> type, blk |-> blk, exec |-> TRUE, big |-> TRUE, best |-> 1]
Root == Fdn("dir", <<3, 0, 0, 0, 0>>)
Disk(files, names, indirect, swap) ==
    [fdns |-> <<Root>> \o files, children |-> [f \in 1 .. Len(files) + 1 |-> IF f = 1 THEN names ELSE <<>>],
     indirect |-> indirect, unreadable |-> {}, swap |-> swap]

Two == Disk(<<Fdn("reg", <<4, 12, 6, 0, 0>>), Fdn("reg", <<9, 5, 0, 0, 0>>), Fdn("chr", <<1, 1, 0, 0, 0>>)>>,
            <<2, 3, 4>>, 6 :> <<8, 15>>, {19})
Deep == Disk(<<Fdn("reg", <<4, 0, 0, 6, 0>>), Fdn("reg", <<14, 5, 13, 0, 0>>)>>,
             <<2, 3>>, 6 :> <<9, 10>> @@ 9 :> <<12, 0>> @@ 10 :> <<0, 15>> @@ 13 :> <<0, 7>>, {})
Holes == [Deep EXCEPT !.indirect[6] = <<0, 10>>]
Linked == [Two EXCEPT !.children[1] = <<2, 3, 2>>]
Doubled == [Two EXCEPT !.fdns[3] = Fdn("reg", <<9, 4, 0, 0, 0>>)]
OutOfRange == [Two EXCEPT !.fdns[3] = Fdn("reg", <<9, 25, 40, 0, 0>>)]
Far == Disk(<<Fdn("reg", <<4, 17, 18, 6, 8>>)>>, <<2>>,
            6 :> <<9, 0>> @@ 9 :> <<0, 0>> @@ 8 :> <<10, 0>> @@ 10 :> <<11, 0>> @@ 11 :> <<0, 12>> @@ 18 :> <<5, 0>>, {})
Unreadable == [Deep EXCEPT !.unreadable = {13}]

MCDisks == {Two, Deep, Holes, Linked, Doubled, OutOfRange, Far, Unreadable}
=============================================================================
