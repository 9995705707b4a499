------------------------------ MODULE MCCdBlock ------------------------------
(***************************************************************************)
(* Instances of CdBlock: a disc of five sectors, the third one filtered    *)
(* out, the fourth one audio; one play of two sectors and one to the end.  *)
(***************************************************************************)
EXTENDS CdBlock

DiscRoute == <<"A", "B", "Reject", "Audio", "A">>

SomePlays == {<<1, 2>>, <<2, 4>>}
===============================================================================
