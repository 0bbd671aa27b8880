------------------------------ MODULE StoryFile ------------------------------
(***************************************************************************)
(* How readAStory (cyoa.cpp) turns the lines of story.txt into a story, or   *)
(* ends the program.  A line is a record of what its parser returns:         *)
(*                                                                          *)
(*   [kind |-> "page", num, type]                 readAPage                  *)
(*   [kind |-> "gadget", num, gadget, value]      readGadget_pg              *)
(*   [kind |-> "choice", num, gadget, value, next]  readAChoice              *)
(*   [kind |-> "blank"]                                                      *)
(*   [kind |-> "malformed"]                       what the parsers refuse    *)
(*                                                                          *)
(* The text of pages and choices is left out.                                *)
(***************************************************************************)
EXTENDS Integers, Sequences, SequencesExt

CONSTANTS NoGadget   \* the name in a choice without a condition

\* What the parsers return.
IsLine(l) ==
    /\ l.kind \in {"page", "gadget", "choice", "blank", "malformed"}
    /\ l.kind \in {"page", "gadget", "choice"} => l.num \in Nat
    /\ l.kind = "page" => l.type \in {"N", "W", "L"}
    /\ l.kind = "choice" => l.next \in Nat

NewPage(l) == [num |-> l.num, type |-> l.type, gadgets |-> [g \in {} |-> 0], choices |-> <<>>]
NewChoice(l) == [gadget |-> l.gadget, value |-> l.value, next |-> l.next]

\* goodpages, gadgets_seen, nextpages_in_choices, and whether the program runs on.
Story(pages, gadgets, nexts, ok) == [pages |-> pages, gadgets |-> gadgets, nexts |-> nexts, ok |-> ok]
Nothing == Story(<<>>, [g \in {} |-> 0], {}, TRUE)
Refused(s) == [s EXCEPT !.ok = FALSE]

\* page_Ive_seen
Seen(s) == {s.pages[i].num : i \in DOMAIN s.pages}
IndexOf(s, n) == CHOOSE i \in DOMAIN s.pages : s.pages[i].num = n

\* Mutant of readPage: a page may come twice.
readPageAgain(s, l) ==
    IF s.pages # <<>> /\ l.num < Last(s.pages).num
    THEN Refused(s)
    ELSE [s EXCEPT !.pages = Append(@, NewPage(l))]

\* Pages come in ascending order; that they start at 0 and miss none is not asked.
readPage(s, l) ==
    IF s.pages # <<>> /\ l.num <= Last(s.pages).num
    THEN Refused(s)
    ELSE [s EXCEPT !.pages = Append(@, NewPage(l))]

\* A later value for the same page and gadget replaces the earlier.
addGadget(page, l) ==
    [page EXCEPT !.gadgets = [g \in DOMAIN @ \cup {l.gadget} |-> IF g = l.gadget THEN l.value ELSE @[g]]]
addChoice(page, l) == [page EXCEPT !.choices = Append(@, NewChoice(l))]

\* The story starts every gadget it has seen at 0.
readGadget(s, l) ==
    IF l.num \notin Seen(s)
    THEN Refused(s)
    ELSE [s EXCEPT !.pages[IndexOf(s, l.num)] = addGadget(@, l),
                   !.gadgets = [g \in DOMAIN @ \cup {l.gadget} |-> 0]]

\* Pages that are won or lost have no choices.
readChoice(s, l) ==
    IF l.num \notin Seen(s) \/ s.pages[IndexOf(s, l.num)].type # "N"
    THEN Refused(s)
    ELSE [s EXCEPT !.pages[IndexOf(s, l.num)] = addChoice(@, l),
                   !.nexts = @ \cup {l.next}]

readLine(s, l) ==
    IF ~s.ok THEN s
    ELSE CASE l.kind = "page" -> readPage(s, l)
           [] l.kind = "gadget" -> readGadget(s, l)
           [] l.kind = "choice" -> readChoice(s, l)
           [] l.kind = "blank" -> s
           [] l.kind = "malformed" -> Refused(s)

HasPage(s, type) == \E i \in DOMAIN s.pages : s.pages[i].type = type

\* The checks that follow the last line.  The first page needs no choice that
\* leads to it; a choice of the page itself counts for the others.
Complete(s) ==
    /\ s.nexts \subseteq Seen(s)
    /\ \A i \in DOMAIN s.pages \ {1} : s.pages[i].num \in s.nexts
    /\ HasPage(s, "W") /\ HasPage(s, "L")

readAStory(file) ==
    LET read[n \in 0 .. Len(file)] == IF n = 0 THEN Nothing ELSE readLine(read[n - 1], file[n])
        s == read[Len(file)]
    IN  [s EXCEPT !.ok = s.ok /\ Complete(s)]
=============================================================================
