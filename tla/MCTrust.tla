------------------------------- MODULE MCTrust -------------------------------
EXTENDS Trust

CONSTANTS r, a, b, c, d, t

\* Who may sign whom.  Two keys between, and a way back from the target to the root;
Two == [k \in Key |-> CASE k = r -> {t} [] k = a -> {r, b, t} [] k = b -> {r, a, t}
                        [] k = t -> {r, a, b} [] OTHER -> {}]
\* three keys between;
Three == [k \in Key |-> CASE k = a -> {r, b, c} [] k = b -> {r, a, c} [] k = c -> {r, a, b}
                          [] k = t -> {r, a, b, c} [] OTHER -> {}]
\* two keys next to the root and two next to the target, with every signature across,
\* so that a flow may have to be turned back.
Mesh == [k \in Key |-> CASE k \in {a, b} -> {r} [] k \in {c, d} -> {a, b}
                         [] k = t -> {a, c, d} [] OTHER -> {}]

\* Every part of the signatures in w.
PartsOf(w) ==
    LET parts[S \in SUBSET Key] ==
          IF S = {} THEN {[k \in Key |-> {}]}
          ELSE LET x == CHOOSE x \in S : TRUE
               IN  {[p EXCEPT ![x] = s] : p \in parts[S \ {x}], s \in SUBSET w[x]}
    IN  parts[Key]

SmallLedgers == PartsOf(Two) \cup PartsOf(Three) \cup PartsOf(Mesh)
=============================================================================
