----------------------------- MODULE MCSessions -----------------------------
(* Organisation A of the super-admin s, organisation B of the partner p and  *)
(* of an account d to be created, organisations C and E of one slug to be    *)
(* founded for c and e; s and p have one address, and s has entered B.       *)
EXTENDS Sessions, TLC

CONSTANTS A, B, C, E, s, p, d, c, e, x, y

MCUsers == {s, p, d, c, e}
MCTenants == {A, B, C, E}
MCHome == s :> A @@ p :> B @@ d :> B @@ c :> C @@ e :> E
MCEmail == s :> "e" @@ p :> "e" @@ d :> "f" @@ c :> "f" @@ e :> "f"
MCSlug == A :> "a" @@ B :> "b" @@ C :> "c" @@ E :> "c"

MCAccount(status, super, pwd) ==
  [status |-> status, role |-> "partner", super |-> super, pwd |-> pwd, must |-> FALSE]
MCAccounts0 == s :> MCAccount("active", TRUE, x) @@ p :> MCAccount("active", FALSE, y)
                 @@ d :> MCAccount("absent", FALSE, x) @@ c :> MCAccount("absent", FALSE, x)
                 @@ e :> MCAccount("absent", FALSE, x)

\* Requests about accounts and organisations that can be there.
MCBodies == {b \in Body:
  /\ b.kind = "update_user" => b.on \in {s, p} /\ b.new \in {"suspended", "active", "it_admin", "associate"}
  /\ b.kind = "reset_password" => b.on = p
  /\ b.kind = "reset_user" => b.on = p /\ b.new = x
  /\ b.kind = "create_user" => b.on = d /\ b.new = x
  /\ b.kind = "create_tenant" => b.on \in {c, e} /\ b.new = x
  /\ b.kind \in {"enter", "delete_tenant", "update_tenant"} => b.on \in {A, B}}

RequestsAlike == Permutations(Requests)
=============================================================================
