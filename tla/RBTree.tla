------------------------------- MODULE RBTree -------------------------------
(***************************************************************************)
(* The red-black tree that holds topics, domains and the registrations of  *)
(* a topic server by their 32-bit keys, with the comparator these give it: *)
(* the difference of the two keys as signed words, which wraps around (in  *)
(* C++ an overflow; a function called by pointer subtracts).               *)
(*                                                                         *)
(* One step is one turn of a loop; the mutex keeps other calls away from   *)
(* those in between.  The two mirror images of the fixups are one side.    *)
(* Insert() clears a node's own fields; here Delete() does it.             *)
(***************************************************************************)
EXTENDS Integers, FiniteSets

CONSTANTS
    Nodes, Null,
    Width,         \* of a key in bits
    KeySets        \* the keys the nodes may have, a set of functions

Half == 2^(Width - 1)
Words == 0..(2 * Half - 1)
Sides == {"left", "right"}
NodesOrNull == Nodes \cup {Null}

TreeAssumption ==
    /\ Width \in Nat \ {0} /\ Null \notin Nodes /\ KeySets \subseteq [Nodes -> Words]
    /\ \A k \in KeySets : \A m, n \in Nodes : m # n => k[m] # k[n]

VARIABLES
    key,           \* the key each node is inserted with
    tree,          \* root_, and the nodes' colours, children and parents
    inserted,      \* nodes in the tree
    pc, node, parent  \* the fixup that runs, and its two variables

vars == <<key, tree, inserted, pc, node, parent>>

TreeTypeOK ==
    /\ key \in KeySets /\ inserted \subseteq Nodes /\ pc \in {"idle", "insert", "delete"}
    /\ tree \in [root : NodesOrNull, red : [Nodes -> BOOLEAN],
                 kid : [Nodes -> [Sides -> NodesOrNull]], parent : [Nodes -> NodesOrNull]]
    /\ {node, parent} \subseteq NodesOrNull

Init ==
    /\ key \in KeySets /\ inserted = {} /\ pc = "idle" /\ node = Null /\ parent = Null
    /\ tree = [root |-> Null, red |-> [n \in Nodes |-> FALSE],
               kid |-> [n \in Nodes |-> [s \in Sides |-> Null]], parent |-> [n \in Nodes |-> Null]]

Signed(x) == ((x + Half) % (2 * Half)) - Half
Compare(a, b) == Signed(a - b)
Toward(n, m) == IF Compare(key[n], key[m]) < 0 THEN "left" ELSE "right"

Other(s) == IF s = "left" THEN "right" ELSE "left"
Red(t, n) == n # Null /\ t.red[n]
Paint(t, n, red) == IF n = Null THEN t ELSE [t EXCEPT !.red[n] = red]
SideOf(t, n) ==
    IF t.parent[n] # Null /\ t.kid[t.parent[n]]["right"] = n THEN "right" ELSE "left"

\* n becomes p's child on side s, or the root.
SetKid(t, p, s, n) == IF p = Null THEN [t EXCEPT !.root = n] ELSE [t EXCEPT !.kid[p][s] = n]
Link(t, p, s, n) ==
    LET hung == SetKid(t, p, s, n) IN IF n = Null THEN hung ELSE [hung EXCEPT !.parent[n] = p]
InPlaceOf(t, old, new) == Link(t, t.parent[old], SideOf(t, old), new)

\* mutant: the subtree between the two keeps its old parent.
RotateUnparented(t, x, s) ==
    LET y == t.kid[x][Other(s)]
        up == InPlaceOf(t, x, y)
    IN  Link(SetKid(up, x, Other(s), t.kid[y][s]), y, s, x)

\* x goes down on side s, and its child on the other side up.
Rotate(t, x, s) ==
    LET y == t.kid[x][Other(s)]
        up == InPlaceOf(t, x, y)
    IN  Link(Link(up, x, Other(s), t.kid[y][s]), y, s, x)

----------------------------------------------------------------------------
(* Insert.                                                                    *)

Insert(n) ==
    /\ pc = "idle" /\ n \notin inserted /\ inserted' = inserted \cup {n}
    /\ LET below(m) == tree.kid[m][Toward(n, m)]
           last[m \in Nodes] == IF below(m) = Null THEN m ELSE last[below(m)]
           p == IF tree.root = Null THEN Null ELSE last[tree.root]
       IN  tree' = Paint(Link(tree, p, IF p = Null THEN "left" ELSE Toward(n, p), n), n, TRUE)
    /\ pc' = "insert" /\ node' = n
    /\ UNCHANGED <<key, parent>>

InsertDone ==
    /\ pc = "insert" /\ ~Red(tree, tree.parent[node])
    /\ tree' = Paint(tree, tree.root, FALSE) /\ pc' = "idle" /\ node' = Null
    /\ UNCHANGED <<key, inserted, parent>>

InsertFixup ==
    /\ pc = "insert" /\ Red(tree, tree.parent[node])
    /\ LET p == tree.parent[node]
           g == tree.parent[p]
           s == SideOf(tree, p)
           uncle == tree.kid[g][Other(s)]
           inner == node = tree.kid[p][Other(s)]
           top == IF inner THEN node ELSE p
           straight == IF inner THEN Rotate(tree, p, s) ELSE tree
       IN  IF Red(tree, uncle)
           THEN /\ tree' = Paint(Paint(Paint(tree, uncle, FALSE), p, FALSE), g, TRUE)
                /\ node' = g
           ELSE /\ tree' = Rotate(Paint(Paint(straight, top, FALSE), g, TRUE), g, Other(s))
                /\ node' = IF inner THEN p ELSE node
    /\ UNCHANGED <<key, inserted, pc, parent>>

----------------------------------------------------------------------------
(* Delete.                                                                    *)

\* A node with two children gives its place and its colour to the next one.
Successor(n) ==
    LET first[m \in Nodes] ==
          IF tree.kid[m]["left"] = Null THEN m ELSE first[tree.kid[m]["left"]]
    IN  first[tree.kid[n]["right"]]

Replaced(n, r) ==
    LET out == IF tree.parent[r] = n THEN tree
               ELSE Link(Link(tree, tree.parent[r], "left", tree.kid[r]["right"]),
                         r, "right", tree.kid[n]["right"])
    IN  Paint(Link(InPlaceOf(out, n, r), r, "left", tree.kid[n]["left"]), r, tree.red[n])

Cleared(t, n) ==
    [t EXCEPT !.kid[n] = [s \in Sides |-> Null], !.parent[n] = Null, !.red[n] = FALSE]

Delete(n) ==
    /\ pc = "idle" /\ n \in inserted /\ inserted' = inserted \ {n}
    /\ LET two == \A s \in Sides : tree.kid[n][s] # Null
           r == IF two THEN Successor(n) ELSE n     \* the place that falls out
           child == IF tree.kid[r]["left"] # Null THEN tree.kid[r]["left"] ELSE tree.kid[r]["right"]
       IN  /\ tree' = Cleared(IF two THEN Replaced(n, r) ELSE InPlaceOf(tree, n, child), n)
           /\ IF tree.red[r] THEN UNCHANGED <<pc, node, parent>>
              ELSE /\ pc' = "delete" /\ node' = child
                   /\ parent' = IF tree.parent[r] = n THEN r ELSE tree.parent[r]
    /\ UNCHANGED key

DeleteDone ==
    /\ pc = "delete" /\ (Red(tree, node) \/ node = tree.root)
    /\ tree' = Paint(tree, node, FALSE) /\ pc' = "idle" /\ node' = Null /\ parent' = Null
    /\ UNCHANGED <<key, inserted>>

DeleteFixup ==
    /\ pc = "delete" /\ ~Red(tree, node) /\ node # tree.root
    /\ LET s == IF tree.kid[parent]["left"] = node THEN "left" ELSE "right"
           o == Other(s)
           red == tree.kid[parent][o]
           t == IF Red(tree, red)
                THEN Rotate(Paint(Paint(tree, red, FALSE), parent, TRUE), parent, s) ELSE tree
           other == t.kid[parent][o]
           near == t.kid[other][s]
           turned == IF Red(t, t.kid[other][o]) THEN t
                     ELSE Rotate(Paint(Paint(t, near, FALSE), other, TRUE), other, o)
           far == turned.kid[parent][o]
           coloured == Paint(Paint(Paint(turned, far, t.red[parent]), parent, FALSE),
                             turned.kid[far][o], FALSE)
       IN  IF \A side \in Sides : ~Red(t, t.kid[other][side])
           THEN /\ tree' = Paint(t, other, TRUE)
                /\ node' = parent /\ parent' = t.parent[parent]
           ELSE /\ tree' = Rotate(coloured, parent, s)
                /\ node' = tree'.root /\ UNCHANGED parent
    /\ UNCHANGED <<key, inserted, pc>>

----------------------------------------------------------------------------
Next ==
    \/ \E n \in Nodes : Insert(n) \/ Delete(n)
    \/ InsertDone \/ InsertFixup \/ DeleteDone \/ DeleteFixup

Spec == Init /\ [][Next]_vars

----------------------------------------------------------------------------
(* Properties.                                                                *)

\* What Search() finds: it goes toward the key until it meets it.
Search(n) ==
    LET found[m \in NodesOrNull] ==
          IF m = Null \/ (m # Null /\ Compare(key[n], key[m]) = 0) THEN m
          ELSE found[tree.kid[m][Toward(n, m)]]
    IN  found[tree.root]

\* ForeachDisc(): the node after n, or the first one.
After(n) ==
    LET leftmost[m \in NodesOrNull] ==
          IF m = Null \/ (m # Null /\ tree.kid[m]["left"] = Null) THEN m
          ELSE leftmost[tree.kid[m]["left"]]
        above[m \in Nodes] ==
          IF SideOf(tree, m) = "right" THEN above[tree.parent[m]] ELSE tree.parent[m]
    IN  IF n = Null THEN leftmost[tree.root]
        ELSE IF tree.kid[n]["right"] # Null THEN leftmost[tree.kid[n]["right"]]
        ELSE above[n]

\* The comparator orders the keys only if half of the words hold them all.
KeysFit == \E low \in Words : \A n \in Nodes : (key[n] - low) % (2 * Half) < Half

\* Between calls what was inserted and not deleted is found, and nothing else.
FindsInserted == KeysFit => \A n \in Nodes : Search(n) = IF n \in inserted THEN n ELSE Null

\* Walking from the first node to the next visits each inserted one, in order.
VisitsInserted ==
    LET place[k \in 0..(Cardinality(inserted) + 1)] ==
          IF k = 0 THEN Null ELSE After(place[k - 1])
        visited == 1..Cardinality(inserted)
    IN  /\ {place[k] : k \in visited} = inserted /\ place[Cardinality(inserted) + 1] = Null
        /\ KeysFit => \A k \in visited : k > 1 => Compare(key[place[k - 1]], key[place[k]]) < 0

\* Red nodes have black children, every path from the root has the same number
\* of black nodes, and the nodes reached are those inserted.
Balanced ==
    LET blacks[m \in NodesOrNull] ==
          IF m = Null THEN {0}
          ELSE {b + (IF tree.red[m] THEN 0 ELSE 1) :
                  b \in blacks[tree.kid[m]["left"]] \cup blacks[tree.kid[m]["right"]]}
        count[m \in NodesOrNull] ==
          IF m = Null THEN 0 ELSE 1 + count[tree.kid[m]["left"]] + count[tree.kid[m]["right"]]
    IN  /\ Cardinality(blacks[tree.root]) = 1 /\ count[tree.root] = Cardinality(inserted)
        /\ ~Red(tree, tree.root)
        /\ \A n \in inserted, s \in Sides : LET kid == tree.kid[n][s] IN
              kid # Null => tree.parent[kid] = n /\ ~(tree.red[n] /\ tree.red[kid])

TreeCorrect == TreeTypeOK /\ (pc = "idle" => FindsInserted /\ VisitsInserted /\ Balanced)
=============================================================================
