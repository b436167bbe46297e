----------------------------- MODULE MCKvsWatch ----------------------------
(* Instances of KvsWatch: histories and the flags of two requests. *)
EXTENDS KvsWatch

Created == [t |-> "created", key |-> FALSE, val |-> "none"]
Removed == [t |-> "removed", key |-> FALSE, val |-> "none"]
Put(v) == [t |-> "setroot", key |-> TRUE, val |-> v]
Other(v) == [t |-> "setroot", key |-> FALSE, val |-> v]
Unlink == [t |-> "setroot", key |-> TRUE, val |-> "none"]

Plan(h, f1, f2) == [hist |-> h, flags |-> [x \in Watcher |-> IF x = "w1" THEN f1 ELSE f2]]

(* The key is put, put again with the same value, and put with another     *)
(* one, with a commit of another key in between; the key is removed and    *)
(* put again; the key is put once; the namespace is removed after that; it *)
(* is removed and created again.                                           *)
Growing == <<Created, Put("a"), Other("a"), Put("a"), Put("b")>>
Changing == <<Created, Put("a"), Put("b"), Unlink, Put("a")>>
Once == <<Created, Put("a")>>
Short == <<Created, Put("a"), Removed>>
Again == <<Created, Put("a"), Removed, Created, Put("b")>>

Watch == {"WATCH"}
Wait == {"WAITCREATE"}
Full == {"WATCH", "FULL"}
Uniq == {"WATCH", "UNIQ"}
PlansAll ==
    {Plan(Growing, Watch, {}), Plan(Growing, Wait, {}), Plan(Growing, Full, {}),
     Plan(Changing, Watch \cup Wait, {}), Plan(Changing, Uniq \cup Wait, {}),
     Plan(Once, Watch \cup Wait, Watch \cup Wait),
     Plan(Short, Watch, Watch \cup Wait), Plan(Short, Wait, {}),
     Plan(Again, Watch \cup Wait, {}), Plan(Again, Watch, {"WATCH", "GUEST"})}

BothOwn == [x \in Watcher |-> x]
=============================================================================
