---------------------------- MODULE MCProviders -----------------------------
(* A row g of the platform, a row h of organisation A with its own key, a row *)
(* l that is older than the validation (a key of the platform at an own       *)
(* address), and a row n to be created; two overlapping requests of A's       *)
(* administrator, a super-admin and B's administrator.                        *)
EXTENDS Providers, TLC

CONSTANTS A, B, g, h, l, n, big, small

MCRow(owner, url, env, own, ceiling, models, priority) ==
  [owner |-> owner, type |-> "anthropic", url |-> url, env |-> env, own |-> own,
   ceiling |-> ceiling, models |-> models, active |-> TRUE, healthy |-> TRUE, priority |-> priority]

MCRows0 == g :> MCRow(None, FALSE, "listed", Unset, 2, {big, small}, 2)
             @@ h :> MCRow(A, TRUE, Unset, "good", 3, {big}, 1)
             @@ l :> MCRow(B, TRUE, "listed", "broken", 1, {small}, 1)
MCNewRows == {[MCRow(A, FALSE, Unset, Unset, 1, {small}, 3) EXCEPT !.type = "deepseek"],
              MCRow(None, TRUE, Unset, Unset, 3, {big}, 3)}

\* What administrators change, one column or two at a time; a DELETE changes none.
MCPatches == {<<>>, "url" :> TRUE, "url" :> FALSE @@ "own" :> Unset, "env" :> "listed" @@ "own" :> Unset,
              "env" :> Unset, "own" :> "good", "ceiling" :> 0, "healthy" :> FALSE}

MCUsers == {[tenant |-> A, super |-> FALSE], [tenant |-> A, super |-> TRUE],
            [tenant |-> B, super |-> FALSE]}

\* A privileged document beside plain words; text with a name in it beside one that is public.
MCContents == {{[text |-> FALSE, pii |-> TRUE, level |-> 3], [text |-> TRUE, pii |-> FALSE, level |-> 1]},
               {[text |-> TRUE, pii |-> TRUE, level |-> 1], [text |-> FALSE, pii |-> TRUE, level |-> 0]}}

RequestsAlike == Permutations(Requests)
=============================================================================
