----------------------------- MODULE MCAdventure -----------------------------
(***************************************************************************)
(* Files for Adventure that TLC can enumerate.                             *)
(***************************************************************************)
EXTENDS AdventureProperties

CONSTANTS coin, rope   \* gadgets

Page(n, t) == [kind |-> "page", num |-> n, type |-> t]
Choice(n, m) == [kind |-> "choice", num |-> n, gadget |-> NoGadget, value |-> 0, next |-> m]
If(n, x, v, m) == [kind |-> "choice", num |-> n, gadget |-> x, value |-> v, next |-> m]
Gadget(n, x, v) == [kind |-> "gadget", num |-> n, gadget |-> x, value |-> v]

Declare(types) == [i \in DOMAIN types |-> Page(i - 1, types[i])]
Pages5 == Declare(<<"N", "N", "N", "W", "L">>)
Pages4 == Declare(<<"N", "N", "W", "L">>)

\* Every story of four pages with at most two choices on its normal pages.
Upto2(n, max) == {<<>>} \cup {<<Choice(n, m)>> : m \in 0..max}
                 \cup {<<Choice(n, m), Choice(n, o)>> : m \in 0..max, o \in 0..max}
Stories4 == {Pages4 \o a \o b : a \in Upto2(0, 3), b \in Upto2(1, 3)}
\* Stories of five pages, the last of them won and lost from page 2.
Exactly2(n, max) == {<<Choice(n, m), Choice(n, o)>> : m \in 0..max, o \in 0..max}
Stories5 == {Pages5 \o a \o b \o <<Choice(2, 3), Choice(2, 4)>> : a \in Exactly2(0, 3), b \in Exactly2(1, 3)}

\* A file with choices between the pages, and all files with one line changed or two
\* lines exchanged.
Good == <<Page(0, "N"), Page(1, "N"), Choice(0, 1), Choice(1, 2), Page(2, "W"), Choice(1, 3), Page(3, "L"), Gadget(1, coin, 1)>>
Lines == {Page(n, t) : n \in 0..4, t \in {"N", "W", "L"}} \cup {Choice(n, m) : n \in 0..4, m \in 0..4}
         \cup {Gadget(4, coin, 1), [kind |-> "blank"], [kind |-> "malformed"]}
Altered == {[Good EXCEPT ![i] = l] : i \in DOMAIN Good, l \in Lines}
           \cup {[Good EXCEPT ![i] = Good[j], ![j] = Good[i]] : i \in DOMAIN Good, j \in DOMAIN Good}

\* Two pages set a gadget to different values, one page sets two, choices ask for each value.
WithGadgets == {Pages4 \o <<Gadget(0, coin, v), Gadget(1, coin, w), Gadget(1, rope, 1), Gadget(1, coin, u),
                            Choice(0, 1), If(0, x, y, 2), Choice(1, 0), If(1, rope, 1, 3)>>
                  : v \in 0..2, w \in 0..2, u \in 0..2, x \in {coin, rope}, y \in 0..2}
\* Pages that ascend but leave numbers out, which readAStory accepts.
Gapped == {<<Page(n, "N"), Page(n + 2, "W"), Page(n + 3, "L"), Choice(n, n + 2), Choice(n, n + 3)>> : n \in 0..1}

\* The story of README:341-348, with two pages that only lead to each other.
TwoWays == Declare(<<"N", "N", "N", "N", "N", "W", "L", "N", "N">>)
           \o <<Choice(0, 1), Choice(0, 3), Choice(1, 2), Choice(2, 5), Choice(2, 6), Choice(3, 4),
                Choice(4, 2), Choice(7, 8), Choice(8, 7)>>
FromReadme == {TwoWays}

Everything == Stories4 \cup Stories5 \cup Altered \cup WithGadgets \cup Gapped
=============================================================================
