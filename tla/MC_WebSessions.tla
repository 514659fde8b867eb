---- MODULE MC_WebSessions ----
EXTENDS WebSessions, TLC

RequestSymmetry == Permutations(Requests)
====
