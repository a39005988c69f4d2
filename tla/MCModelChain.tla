----------------------------- MODULE MCModelChain -----------------------------
(***************************************************************************)
(* Half a minute is one: a request to a provider may take 120 s, a strict   *)
(* stage waits 60 or 90 s, the negotiating agent 180 s, a pause is at most  *)
(* 20 s (rounded up) and a model stays benched for ten minutes.             *)
(***************************************************************************)
EXTENDS ModelChain

CONSTANTS m1, m2, agent, stage

MCChain == <<m1, m2>>
MCKindOf == [c \in Asks |-> IF c = stage THEN "complete" ELSE "shaped"]
MCPatience == [c \in Asks |-> IF c = agent THEN 6 ELSE 3]
=============================================================================
