--------------------------- MODULE MCUserStorage ---------------------------
(* Instances of UserStorage for TLC. *)
EXTENDS UserStorage, TLC

CONSTANTS ann, bob, t1, t2

Row(t, version) == [title |-> t, zed |-> version, mark |-> version]

Save(u, version, page) == [user |-> u, profile |-> version, role |-> "student", page |-> page]

(* Two editions of ann's page, in different orders, the second with a       *)
(* subject twice; bob's page; and a login without a page.                   *)
SharedSubjects ==
  {Save(ann, 1, <<Row(t1, 1), Row(t2, 1)>>),
   Save(ann, 2, <<Row(t2, 2), Row(t1, 1), Row(t2, 1)>>),
   Save(bob, 2, <<Row(t2, 2), Row(t1, 2)>>),
   Save(ann, 2, None)}

(* The same without the subject listed twice. *)
TwoOrders ==
  {Save(ann, 1, <<Row(t1, 1), Row(t2, 1)>>),
   Save(ann, 1, <<Row(t2, 1), Row(t1, 1)>>),
   Save(bob, 1, <<Row(t2, 1), Row(t1, 1)>>),
   Save(ann, 1, None)}

Goroutines == Permutations(Savers)
=============================================================================
