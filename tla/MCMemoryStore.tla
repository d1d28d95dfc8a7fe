---------------------------- MODULE MCMemoryStore ----------------------------
(***************************************************************************)
(* Small values for MemoryStore: two runs that write, of a question about  *)
(* an element and of one about everything, and one that only reads, if     *)
(* memory is on; and a seed of each sort: the case of an evaluation suite, *)
(* one that expires, and a row of a legacy layer with an answer in it.     *)
(***************************************************************************)
EXTENDS MemoryStore

CONSTANTS r1, r2, r3

MCRuns == {r1, r2, r3}

MCQuestion ==
  (r1 :> [scope |-> "a", family |-> "drop"]) @@
  (r2 :> [scope |-> Unscoped, family |-> "drop"]) @@
  (r3 :> [scope |-> Unscoped, family |-> "rise"])

MCModes ==
  (r1 :> {"write"}) @@ (r2 :> {"write"}) @@ (r3 :> {"off", "read"})

Seed(id, layer) ==
  [id |-> id, by |-> "seed", layer |-> layer, scope |-> NoFilters, family |-> "drop",
   suite |-> FALSE, answer |-> FALSE, advice |-> TRUE, trusted |-> TRUE, version |-> 1,
   born |-> 0, ttl |-> NoTtl, saw |-> {}]

MCSeeds ==
  {[Seed("treatment", "case") EXCEPT !.suite = TRUE],
   [Seed("expiring", "case") EXCEPT !.ttl = 1, !.version = 2],
   [Seed("legacy", "old") EXCEPT !.scope = "b", !.answer = TRUE, !.version = 2]}
===============================================================================
