------------------------------ MODULE MCSeating ------------------------------
(***************************************************************************)
(* Instances of Seating for TLC.  The engine looks at nobody's name, so    *)
(* rosters that differ only in who is who are taken once: the people are   *)
(* listed category by category, the largest first, and the designated      *)
(* captains of a category are its first people.                            *)
(***************************************************************************)
EXTENDS Seating, TLC

CONSTANTS p1, p2, p3, p4, p5, p6, a, b, c

SixPeople       == {p1, p2, p3, p4, p5, p6}
ThreeCategories == {a, b, c}

Line == <<p1, p2, p3, p4, p5, p6>>

\* How many of n people are in each category.
Sizes(n) == {s \in [ThreeCategories -> 0..n] :
               s[a] >= s[b] /\ s[b] >= s[c] /\ s[a] + s[b] + s[c] = n}

First(s, x) == CASE x = a -> 0 [] x = b -> s[a] [] x = c -> s[a] + s[b]

Group(s, x, k) == {Line[i] : i \in First(s, x) + 1 .. First(s, x) + k}

Rosters(n) == {[cat        |-> [p \in Group(s, a, n) |->
                                  CHOOSE x \in ThreeCategories : p \in Group(s, x, s[x])],
                designated |-> UNION {Group(s, x, d[x]) : x \in ThreeCategories}] :
                 <<s, d>> \in {<<s, d>> \in Sizes(n) \X [ThreeCategories -> 0..n] :
                                 \A x \in ThreeCategories : d[x] <= s[x]}}

Asked(n, pers, counts) ==
  {[cat |-> r.cat, designated |-> r.designated, per |-> per, tables |-> count, autoFill |-> auto] :
     r \in Rosters(n), per \in pers, count \in counts, auto \in BOOLEAN}

Usual(r) == r.autoFill = (r.designated = {})

\* Two or three to a table; or a table more than needed, and more captains than
\* that designated.
SixAsk == {r \in Asked(6, {2, 3}, {0}) : Usual(r)}
            \cup {r \in Asked(6, {2}, {4}) : Usual(r) /\ Cardinality(r.designated) = 5}

\* Two to a table, with no chair to spare.
SixFit == {r \in Asked(6, {2}, {0}) : r.autoFill}
=============================================================================
