------------------------------ MODULE Adventure ------------------------------
(***************************************************************************)
(* The choose-your-own-adventure programs (cyoa.cpp): a story is read, and   *)
(* then either played by a reader (steps 2 and 4) or searched for the ways   *)
(* to win (step 3).  A step is one turn of playStory's loop, the reader's     *)
(* refused inputs left out, or one of printWinPath's.  A vector is indexed    *)
(* by page number plus one; what is read beyond its end ends the model.       *)
(***************************************************************************)
EXTENDS StoryFile, FiniteSets

CONSTANTS
    Files,      \* the files that are read, sequences of lines
    MaxTurns    \* bound on the pages a reader turns to

\* begin() + 1 of an empty vector is past its end: files without a page are left out.
ASSUME AdventureAssumption ==
    /\ \A f \in Files :
          /\ Len(f) \in Nat /\ DOMAIN f = 1 .. Len(f)
          /\ \A i \in DOMAIN f : IsLine(f[i])
          /\ \E i \in DOMAIN f : f[i].kind = "page"
    /\ MaxTurns \in Nat

VARIABLES
    file,      \* story.txt
    story,     \* what is read from it: pages and the gadgets they set
    phase,     \* "read", "refused", "playing", "searching", "done", "undefined"
    gadgets,   \* gadgets_story
    current,   \* current_pg_Num
    trail,     \* the turns of the reader: [page, choice]
    visited,   \* visited_pgs
    todo,      \* pgs_to_take and choices_to_take, a stack of paths
    lovely     \* lovely_paths

play == <<gadgets, current, trail>>
search == <<visited, todo, lovely>>
input == <<file, story>>
vars == <<input, phase, play, search>>

Path(pages, choices) == [pages |-> pages, choices |-> choices]

Init ==
    /\ file \in Files /\ story = readAStory(file)
    /\ phase = IF story.ok THEN "read" ELSE "refused"
    /\ gadgets = story.gadgets
    /\ current = 0 /\ trail = <<>>
    /\ visited = {} /\ lovely = <<>>
    /\ todo = <<Path(<<0>>, <<>>)>>

InVector(n) == n < Len(story.pages)
PageAt(n) == story.pages[n + 1]

Begin ==
    /\ phase = "read"
    /\ phase' \in {"playing", "searching"}
    /\ UNCHANGED <<input, play, search>>

\* An access beyond the end of a vector.
Undefined ==
    /\ phase' = "undefined"
    /\ UNCHANGED <<input, play, search>>
-----------------------------------------------------------------------------
(* playStory                                                                *)

\* Mutant of Set: a gadget keeps its first value.
SetOnce(g, page) ==
    [n \in DOMAIN g |-> IF n \in DOMAIN page.gadgets /\ g[n] = 0 THEN page.gadgets[n] ELSE g[n]]

\* Only gadgets of the story are set, which are those of all its pages.
Set(g, page) == [n \in DOMAIN g |-> IF n \in DOMAIN page.gadgets THEN page.gadgets[n] ELSE g[n]]

is_ggt_match(g, c) == c.gadget \in DOMAIN g /\ g[c.gadget] = c.value

\* A gadget the story does not have makes no choice unavailable.
hit_unavilable(g, c) == c.gadget \in DOMAIN g /\ ~is_ggt_match(g, c)

\* Anything else that the reader enters is asked for again.
valid_choices(n) == DOMAIN PageAt(n).choices

\* One turn: the page sets its gadgets and is printed, the reader picks choice i.
Turn(i) ==
    /\ phase = "playing" /\ Len(trail) < MaxTurns
    /\ PageAt(current).type = "N"
    /\ LET g == Set(gadgets, PageAt(current))
           c == PageAt(current).choices[i]
       IN  /\ ~hit_unavilable(g, c)
           /\ gadgets' = g
           /\ current' = c.next
           /\ trail' = Append(trail, [page |-> current, choice |-> i])
    /\ UNCHANGED <<input, phase, search>>

\* A page that is won or lost is printed, and the game ends.
LastPage ==
    /\ phase = "playing"
    /\ InVector(current) /\ PageAt(current).type # "N"
    /\ phase' = "done"
    /\ UNCHANGED <<input, play, search>>

PlayBeyond == phase = "playing" /\ ~InVector(current) /\ Undefined

playStory ==
    \/ InVector(current) /\ \E i \in valid_choices(current) : Turn(i)
    \/ LastPage
    \/ PlayBeyond
-----------------------------------------------------------------------------
(* printWinPath                                                             *)

\* Mutant of Extensions: the choices are not noted.
ExtensionsUnnumbered(path) ==
    LET choices == PageAt(Last(path.pages)).choices
    IN  [i \in DOMAIN choices |-> Path(Append(path.pages, choices[i].next), path.choices)]

\* Mutant of Extensions: a choice is not taken back before the next is tried.
ExtensionsNotTakenBack(path) ==
    LET choices == PageAt(Last(path.pages)).choices
    IN  [i \in DOMAIN choices |->
            Path(path.pages \o [j \in 1..i |-> choices[j].next], path.choices \o [j \in 1..i |-> j])]

\* The paths that go on from path by each choice of its last page.
Extensions(path) ==
    LET choices == PageAt(Last(path.pages)).choices
    IN  [i \in DOMAIN choices |-> Path(Append(path.pages, choices[i].next), Append(path.choices, i))]

SearchOn == todo # <<>> \/ Cardinality(visited) # Len(story.pages)

\* Mutant of Visit: a path to a lost page stays on the stack.
VisitKeepingLost(path, n) ==
    /\ visited' = visited \cup {n}
    /\ \/ PageAt(n).type = "W" /\ lovely' = Append(lovely, path) /\ todo' = Front(todo)
       \/ PageAt(n).type = "L" /\ UNCHANGED <<todo, lovely>>
       \/ PageAt(n).type = "N" /\ n \notin visited /\ todo' = Front(todo) \o Extensions(path) /\ UNCHANGED lovely
       \/ PageAt(n).type = "N" /\ n \in visited /\ todo' = Front(todo) /\ UNCHANGED lovely

\* A page that is won or lost ends its path; any other is taken up the first time
\* only.
Visit(path, n) ==
    /\ visited' = visited \cup {n}
    /\ \/ PageAt(n).type = "W" /\ lovely' = Append(lovely, path) /\ todo' = Front(todo)
       \/ PageAt(n).type = "L" /\ todo' = Front(todo) /\ UNCHANGED lovely
       \/ PageAt(n).type = "N" /\ n \notin visited /\ todo' = Front(todo) \o Extensions(path) /\ UNCHANGED lovely
       \/ PageAt(n).type = "N" /\ n \in visited /\ todo' = Front(todo) /\ UNCHANGED lovely

\* The vector of choices has a first element.
HasChoice(n) == PageAt(n).type # "N" \/ n \in visited \/ PageAt(n).choices # <<>>

TakeUp ==
    /\ phase = "searching" /\ SearchOn
    /\ todo # <<>>
    /\ LET path == Last(todo)
           n == Last(path.pages)
       IN  /\ InVector(n) /\ HasChoice(n)
           /\ Visit(path, n)
    /\ UNCHANGED <<input, phase, play>>

\* back() of an empty stack, a page beyond the vector, a page without choices.
SearchBeyond ==
    /\ phase = "searching" /\ SearchOn
    /\ \/ todo = <<>>
       \/ todo # <<>> /\ LET n == Last(Last(todo).pages) IN ~(InVector(n) /\ HasChoice(n))
    /\ Undefined

PrintPaths ==
    /\ phase = "searching" /\ ~SearchOn
    /\ phase' = "done"
    /\ UNCHANGED <<input, play, search>>

printWinPath == TakeUp \/ SearchBeyond \/ PrintPaths
-----------------------------------------------------------------------------
Next == Begin \/ playStory \/ printWinPath

Spec == Init /\ [][Next]_vars

\* The search is a loop of its own thread; a reader need not answer.
FairSpec == Spec /\ WF_vars(printWinPath)
=============================================================================
