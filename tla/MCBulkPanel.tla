----------------------------- MODULE MCBulkPanel -----------------------------
(* Instances of BulkPanel for TLC: devices behind two proxies, and a        *)
(* desktop, whose connection is slow, and a phone that have the panel open. *)
EXTENDS BulkPanel, TLC

CONSTANTS hall, cellar, near, far, desktop, phone

MCProxyOf == [m \in Macs |-> IF m = cellar THEN far ELSE near]
MCMaxInFlight == [p \in Panels |-> IF p = desktop THEN 2 ELSE 1]

(* Counters, failures and keys of a job, its outcomes and what was seen of it *)
(* take no part in any guard: where no property is about them they are left   *)
(* out of the state.                                                          *)
MCFacts(j) == <<j.active, j.cancel, j.result # Nothing>>
MCView == <<current, worker, [k \in DOMAIN jobs |-> MCFacts(jobs[k])],
            panel, requests, answers, own, budget>>
=============================================================================
