--------------------------- MODULE MCMabangExports ---------------------------
(***************************************************************************)
(* Two commands beside each other: any of the longer exports, and one that *)
(* only looks for a store; or two searches of the warehouse. The hosts,    *)
(* files and lists they meet.                                              *)
(***************************************************************************)
EXTENDS MabangExports, TLC

CONSTANTS p1, p2

TwoCommands ==
  p1 :> {"msku", "store_msku", "delivery", "unlinked", "stock", "warehouse", "wms"} @@ p2 :> {"stores"}

TwoSearches == p1 :> {"warehouse"} @@ p2 :> {"warehouse"}

PrivateDomain == <<"com", "mabangerp", "private">>
PrivateAmzDomain == <<"com", "mabangerp", "private-amz">>
WmsDomain == <<"com", "mabangerp", "private", "wms">>
Dingtalk == <<"com", "dingtalk">>

(* ".mabangerp.com" < "private-amz..." < "private..." < "wms..." as str compares them. *)
PlaceAsText ==
  << "com", "mabangerp" >> :> 1 @@ PrivateAmzDomain :> 2 @@ PrivateDomain :> 3 @@ WmsDomain :> 4

TwoBatches == << <<"s1", "s2">>, <<"s3">> >>
TwoStockFiles ==
  << << [name |-> "n1", sku |-> "s1"], [name |-> "n2", sku |-> "s2"], [name |-> "other", sku |-> "s1"] >>,
     << [name |-> "n3", sku |-> "s3"] >> >>

DeliveryOfTwo ==
  << [msku |-> "m1", shop |-> "a"], [msku |-> "m2", shop |-> "a"], [msku |-> "", shop |-> "a"] >>
DetailOfThree ==
  << [msku |-> "m1", shop |-> "a"], [msku |-> "m1", shop |-> "b"], [msku |-> "m2", shop |-> "a"] >>

Query == <<"x">>
Listed ==
  << [name |-> <<"x", "y">>, id |-> 1], [name |-> <<"x">>, id |-> 2], [name |-> <<"x">>, id |-> 2] >>

SixBoxes ==
  << [box |-> 3, item |-> 1], [box |-> 5, item |-> 2], [box |-> 5, item |-> 3],
     [box |-> 8, item |-> 4], [box |-> 9, item |-> 5], [box |-> 12, item |-> 6] >>
=============================================================================
