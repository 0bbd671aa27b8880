------------------------- MODULE AdventureProperties -------------------------
(***************************************************************************)
(* What holds of the stories that Adventure.tla reads, plays and searches,   *)
(* and what the README asks of them.                                        *)
(***************************************************************************)
EXTENDS Adventure

\* A path has one page more than choices.
IsPath(p) == /\ \A i \in DOMAIN p.pages : p.pages[i] \in Nat
             /\ \A i \in DOMAIN p.choices : p.choices[i] \in Nat \ {0}
             /\ Len(p.pages) = Len(p.choices) + 1

\* What readAStory returns: choices are numbered, and every gadget starts at 0.
StoryOK ==
    /\ Len(story.pages) \in Nat /\ DOMAIN story.pages = 1 .. Len(story.pages)
    /\ \A g \in DOMAIN story.gadgets : story.gadgets[g] = 0
    /\ \A n \in DOMAIN story.pages : LET choices == story.pages[n].choices IN
          /\ Len(choices) \in Nat /\ DOMAIN choices = 1 .. Len(choices)
          /\ \A i \in DOMAIN choices : choices[i].next \in Nat

\* Types of the story, the search and the game.
TypeOK ==
    /\ StoryOK
    /\ phase \in {"read", "refused", "playing", "searching", "done", "undefined"}
    /\ current \in Nat /\ visited \subseteq Nat
    /\ \A i \in DOMAIN todo : IsPath(todo[i])
    /\ \A i \in DOMAIN lovely : IsPath(lovely[i])
-----------------------------------------------------------------------------
(* Reading                                                                  *)

\* The lines' conditions taken together, without the order of the checks.
Declares(l, n) == l.kind = "page" /\ l.num = n
Declared == {file[i].num : i \in {j \in DOMAIN file : file[j].kind = "page"}}
Nexts == {file[i].next : i \in {j \in DOMAIN file : file[j].kind = "choice"}}
First == CHOOSE n \in Declared : \A m \in Declared : n <= m
WellFormed ==
    /\ \A i, j \in DOMAIN file :
          i < j /\ file[i].kind = "page" /\ file[j].kind = "page" => file[i].num < file[j].num
    /\ \A j \in DOMAIN file :
          /\ file[j].kind # "malformed"
          /\ file[j].kind = "gadget" => \E i \in 1..j : Declares(file[i], file[j].num)
          /\ file[j].kind = "choice" => \E i \in 1..j : Declares(file[i], file[j].num) /\ file[i].type = "N"
    /\ Nexts \subseteq Declared /\ Declared \ {First} \subseteq Nexts
    /\ \A type \in {"W", "L"} : \E i \in DOMAIN file : file[i].kind = "page" /\ file[i].type = type

\* Two rules of the README that readAStory does not look at: pages are numbered 0, 1, 2 and
\* so on (README:87-97), and a choice of another page leads to each but the first (README:250).
Numbered == Declared = 0..Cardinality(Declared) - 1
ByOthers ==
    \A n \in (Nexts \cap Declared) \ {0} :
        \E i \in DOMAIN file : file[i].kind = "choice" /\ file[i].next = n /\ file[i].num # n

\* Where these two are kept, readAStory refuses exactly the files that break one of the README's
\* rules, whatever the order of their lines.
RefusesExactly ==
    Numbered /\ ByOthers =>
        /\ phase = "refused" => ~WellFormed
        /\ phase = "read" => WellFormed
-----------------------------------------------------------------------------
(* Playing                                                                  *)

\* The README's meaning of a gadget: the value of the last page that set it, else 0.
Setters(k, g) == {j \in 1..k : g \in DOMAIN PageAt(trail[j].page).gadgets}
Value(k, g) ==
    IF Setters(k, g) = {} THEN 0
    ELSE PageAt(trail[CHOOSE j \in Setters(k, g) : \A i \in Setters(k, g) : i <= j].page).gadgets[g]

\* The reader never gets past a condition on a gadget that some page sets, unless it holds.
\* Nothing is said of a gadget that no page sets: README:417-418 gives it the value 0, and
\* hit_unavilable lets every choice on it through (cyoa.cpp:690-693).
ConditionsHold ==
    \A k \in DOMAIN trail :
        LET c == PageAt(trail[k].page).choices[trail[k].choice]
        IN  c.gadget \in DOMAIN story.gadgets => Value(k, c.gadget) = c.value
-----------------------------------------------------------------------------
(* Searching                                                                *)

ChoicesOf(n) == PageAt(n).choices
Nums == 0..Len(story.pages) - 1
\* The pages that some choices lead to from page 0.
Reachable ==
    LET r[k \in 0..Len(story.pages)] ==
            IF k = 0 THEN {0}
            ELSE r[k - 1] \cup {m \in Nums : \E n \in r[k - 1] : \E i \in DOMAIN ChoicesOf(n) : ChoicesOf(n)[i].next = m}
    IN  r[Len(story.pages)]
\* Leads from page 0 to a page that is won, by choices that are there, and comes to no page twice.
IsWinningPath(p) ==
    /\ p.pages[1] = 0 /\ PageAt(Last(p.pages)).type = "W"
    /\ \A i, j \in DOMAIN p.pages : p.pages[i] = p.pages[j] => i = j
    /\ \A i \in DOMAIN p.choices :
          /\ p.choices[i] \in DOMAIN ChoicesOf(p.pages[i])
          /\ ChoicesOf(p.pages[i])[p.choices[i]].next = p.pages[i + 1]

\* What is printed so far are such paths.
LovelyPathsWin == \A k \in DOMAIN lovely : IsWinningPath(lovely[k])

Listed == phase = "done" /\ visited # {}

\* What is printed are ways to win, none of them with a cycle; and each page that is won and
\* can be reached ends one of them.  That is less than the README asks for, see EveryWayPrinted.
PathsWin ==
    /\ LovelyPathsWin
    /\ Listed => \A n \in Reachable :
                    PageAt(n).type = "W" => \E k \in DOMAIN lovely : Last(lovely[k].pages) = n

\* Every page is where its number says, can be reached, and is an end or leads on.
Connected ==
    /\ \A i \in DOMAIN story.pages : story.pages[i].num = i - 1
    /\ Reachable = Nums
    /\ \A n \in Nums : PageAt(n).type = "N" => ChoicesOf(n) # <<>>

\* Whatever cycles a connected story has, the search of it comes to its end.
SearchEnds == (phase = "searching" /\ Connected) ~> phase = "done"

\* The ways to win that come to no page twice.
Ways ==
    LET way[k \in 0..Len(story.pages)] ==
            IF k = 0 THEN {Path(<<0>>, <<>>)}
            ELSE UNION {{Path(Append(p.pages, ChoicesOf(Last(p.pages))[i].next), Append(p.choices, i)) :
                            i \in {j \in DOMAIN ChoicesOf(Last(p.pages)) :
                                      ChoicesOf(Last(p.pages))[j].next \notin Range(p.pages)}} :
                          p \in way[k - 1]}
    IN  {p \in UNION {way[k] : k \in 0..Len(story.pages)} : PageAt(Last(p.pages)).type = "W"}

\* README:282-307: the program prints every way to win that repeats no page, whether or not
\* there are pages that cannot be reached (README:253-255), and exits successfully (README:326).
EveryWayPrinted ==
    phase \in {"done", "undefined"} /\ visited # {} =>
        phase = "done" /\ \A way \in Ways : \E k \in DOMAIN lovely : lovely[k] = way
=============================================================================
