----------------------------- MODULE MCUploader -----------------------------
(* Instances of Uploader for TLC.                                          *)
EXTENDS Uploader

Info(n) == <<"weight_info", n>>
Photo(n) == <<"weight_photo", n>>

(* Two weighings and a photo whose id is also a weighing's key.            *)
ThreeRows == {Info(1), Info(2), Photo(1)}

(* And a photo without serial number.                                      *)
FourRows == ThreeRows \cup {Photo(2)}

(* Default configuration: the primary keys are the columns C uses.         *)
SameKeys == [r \in Rows |-> r]

(* SQLSERVER_INFO_PRIMARY_KEY names another column than serialNo: the two  *)
(* weighings carry each other's key and serial number 3 respectively.      *)
OtherKeys == [r \in Rows |->
    CASE r = Info(1) -> Info(2) [] r = Info(2) -> Info(3) [] OTHER -> r]

BlankPhoto == {Photo(1)}
BlankSecondPhoto == {Photo(2)}
AllFaults == FaultKinds
=============================================================================
