-------------------------------- MODULE MCVdp1 --------------------------------
(* Small command lists for Vdp1: three slots, a subroutine at slot 2. *)
EXTENDS Vdp1

Cmd(o, j, l) == [op |-> o, jump |-> j, link |-> l]

End    == Cmd("end", "next", 0)
Sprite == Cmd("draw", "next", 0)
Clip   == Cmd("skip", "next", 0)
Call   == Cmd("draw", "call", 2)
Return == Cmd("draw", "return", 0)
Loop   == Cmd("skip", "assign", 0)
Bad    == Cmd("bad", "next", 0)

MCCommands == {End, Sprite, Clip, Call, Return, Loop, Bad}

List(a, b, c) == [s \in 0 .. 2 |-> <<a, b, c>>[s + 1]]

(* A subroutine that returns, one that ends the list, a straight list that *)
(* runs off the end of the RAM, an empty list.                             *)
ListImages == {List(Call, End, Return), List(Call, Sprite, End),
               List(Sprite, Sprite, Sprite), List(End, End, End)}

ListWrites == {<<0, Sprite>>, <<1, Loop>>, <<1, Bad>>, <<1, Return>>, <<2, End>>, <<2, Clip>>}

FieldImages == {List(Sprite, End, End), List(End, End, End)}

FieldWrites == {<<0, Sprite>>, <<0, End>>}
===============================================================================
