---------------------------- MODULE AssetCustody ----------------------------
(* What the loan component promises about an asset, without requests or     *)
(* records: at any time one user has it or nobody does, and it passes from  *)
(* one user to another only by being taken back in between.                 *)
CONSTANTS Assets, Users

Nobody == "nobody"

VARIABLE holder

CustodyTypeOK == holder \in [Assets -> Users \cup {Nobody}]

CustodyInit == holder = [a \in Assets |-> Nobody]

Lend(a, u) ==
  /\ holder[a] = Nobody
  /\ holder' = [holder EXCEPT ![a] = u]

TakeBack(a) ==
  /\ holder[a] # Nobody
  /\ holder' = [holder EXCEPT ![a] = Nobody]

CustodyNext == \E a \in Assets : TakeBack(a) \/ \E u \in Users : Lend(a, u)

CustodySpec == CustodyInit /\ [][CustodyNext]_holder
=============================================================================
