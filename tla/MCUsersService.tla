--------------------------- MODULE MCUsersService ---------------------------
(* Values for model-checking UsersService. *)
EXTENDS UsersService
CONSTANTS u1, g1, g2, m1, m2, r1, r2

MCOff == [on |-> FALSE, every |-> 1, groups |-> {}]
MCAll == [on |-> TRUE, every |-> 1, groups |-> {}]
MCSome == [on |-> TRUE, every |-> 2, groups |-> {g2}]
MCFirst == {MCOff}

(* Two linked groups; a user of the directory, in one of them. *)
MCProject == {[users |-> [u \in User |-> Nobody],
               groups |-> [g \in Group |-> "linked"]]}
MCDirectory == {[u \in User |-> Member({g1})]}

MCAsks ==
  {[kind |-> "create", user |-> u1, groups |-> {g1}], [kind |-> "update", user |-> u1, groups |-> {g1, g2}],
   [kind |-> "delete", user |-> u1], [kind |-> "link", group |-> g1],
   [kind |-> "drop", group |-> g1], [kind |-> "method", method |-> m2],
   [kind |-> "list", users |-> {}], [kind |-> "pick", users |-> {u1}], [kind |-> "run"],
   [kind |-> "settings", setting |-> MCAll], [kind |-> "settings", setting |-> MCSome]}

(* Requests are interchangeable: the second is made after the first. *)
InTurn == job[r2].pc # "idle" => job[r1].pc # "idle"
=============================================================================
