---------------------------- MODULE MCApiRequests ----------------------------
(* Model checking ApiRequests: two users, one of them an administrator of the *)
(* first restaurant only, and one call of each operation.                     *)
EXTENDS ApiRequests, TLC

CONSTANTS r1, r2, boss, cook, shop, bar, pub, admin, staff, guest, chain, other

\* A new role, group or restaurant; permissions, assignments and flags that are there.
Ask(op) ==
  [op         |-> op,
   role       |-> CASE op = "create_role" -> guest
                    [] op = "remove_assignment" -> admin
                    [] OTHER -> staff,
   permission |-> IF op = "remove_permission" THEN "SALES" ELSE "TENANTS",
   user       |-> cook,
   restaurant |-> IF op = "create_restaurant" THEN pub ELSE bar,
   group      |-> IF op = "create_group" THEN other ELSE chain,
   groups     |-> {chain, other},
   value      |-> TRUE]

\* The administrator removes an administrator.
Remove == [Ask("remove_assignment") EXCEPT !.user = boss, !.restaurant = shop]

\* The second request changes what authorises the first, or is an import like it.
Call(user, o) == <<user, shop, o>>

SomeCalls ==
  (r1 :> {Call(boss, Ask(op)) : op \in DOMAIN Requires}
           \cup {Call(cook, Ask(op)) : op \in {"create_role", "sudo"}})
    @@ (r2 :> {Call(boss, Remove), Call(cook, Ask("import"))})

\* The shop and the bar are there; staff may run imports, admin anything.
Start ==
  [active      |-> [u \in Users |-> TRUE],
   assigned    |-> [k \in Users \X Restaurants |->
                      IF k \in {<<boss, shop>>, <<cook, bar>>} THEN admin
                      ELSE IF k = <<cook, shop>> THEN staff ELSE None],
   roles       |-> {admin, staff},
   grants      |-> ({admin} \X Permissions) \cup {<<staff, "SALES">>},
   groups      |-> [g \in Groups |-> IF g = chain THEN "live" ELSE "absent"],
   restaurants |-> [x \in Restaurants |-> IF x = pub THEN None ELSE chain],
   flags       |-> [x \in Restaurants |-> FALSE]]

SomeStarts == {Start}
=============================================================================
