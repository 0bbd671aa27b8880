--------------------------- MODULE AdventureProofs ---------------------------
(***************************************************************************)
(* For any files and any number of turns: readAStory refuses exactly the      *)
(* files that break a rule, a reader passes no condition that does not hold,  *)
(* and what the search lists are ways to win, each choice that wins once.     *)
(*                                                                         *)
(* Reading is a recursion on the lines of a file; Matches says what the story *)
(* has of the lines that are read, and Induction carries it over all of them. *)
(***************************************************************************)
EXTENDS AdventureProperties, Induction, SequenceTheorems, TLAPS
-----------------------------------------------------------------------------
(* Reading                                                                  *)

\* The names, values, choices and pages that the lines of a file make.
Named(f) == {i \in DOMAIN f : f[i].kind \in {"gadget", "choice"}}
Names(f) == {f[i].gadget : i \in Named(f)}
Values(f) == {f[i].value : i \in Named(f)}
ChoicesIn(f) == [gadget : Names(f), value : Values(f), next : Nat]
Pages(f) == [num : Nat, type : {"N", "W", "L"},
             gadgets : UNION {[G -> Values(f)] : G \in SUBSET Names(f)}, choices : Seq(ChoicesIn(f))]
\* What has been read is a story.
IsStory(f, s) ==
    /\ s = [pages |-> s.pages, gadgets |-> s.gadgets, nexts |-> s.nexts, ok |-> s.ok]
    /\ s.pages \in Seq(Pages(f))
    /\ s.gadgets \in UNION {[G -> {0}] : G \in SUBSET Names(f)}
    /\ s.nexts \in SUBSET Nat
    /\ s.ok \in BOOLEAN

IsFile(f) == Len(f) \in Nat /\ DOMAIN f = 1 .. Len(f) /\ \A i \in DOMAIN f : IsLine(f[i])

\* The story after each line.
IsRead(r, f) == r = [n \in 0 .. Len(f) |-> IF n = 0 THEN Nothing ELSE readLine(r[n - 1], f[n])]

\* Up to line n.
IsReadUpTo(r, f, n) == r = [k \in 0 .. n |-> IF k = 0 THEN Nothing ELSE readLine(r[k - 1], f[k])]

\* Reading is a recursion on the lines.
LEMMA ReadExists ==
    ASSUME NEW f, IsFile(f)
    PROVE  \E r : IsRead(r, f)
<1> DEFINE T == {n \in 0 .. Len(f) : \E r : IsReadUpTo(r, f, n)}
<1>1. Len(f) \in Nat
    BY DEF IsFile
<1>2. 0 \in T
    <2>1. IsReadUpTo([k \in 0 .. 0 |-> Nothing], f, 0)
        BY DEF IsReadUpTo
    <2> QED
        BY <1>1, <2>1
<1>3. ASSUME NEW n \in 0 .. Len(f) - 1, n \in T PROVE n + 1 \in T
    <2>1. PICK r : IsReadUpTo(r, f, n)
        BY <1>3
    <2> DEFINE g == [k \in 0 .. n + 1 |-> IF k = n + 1 THEN readLine(r[n], f[n + 1]) ELSE r[k]]
    <2>2. \A k \in 0 .. n + 1 : g[k] = IF k = 0 THEN Nothing ELSE readLine(g[k - 1], f[k])
        <3> SUFFICES ASSUME NEW k \in 0 .. n + 1
                     PROVE  g[k] = IF k = 0 THEN Nothing ELSE readLine(g[k - 1], f[k])
            OBVIOUS
        <3>1. CASE k = n + 1
            <4>1. k # 0 /\ k - 1 = n /\ n \in 0 .. n + 1 /\ n # n + 1
                BY <3>1
            <4>2. g[k] = readLine(r[n], f[k]) /\ g[n] = r[n]
                BY <3>1, <4>1
            <4> HIDE DEF g
            <4> QED
                BY <4>1, <4>2
        <3>2. CASE k \in 0 .. n
            <4>1. r[k] = IF k = 0 THEN Nothing ELSE readLine(r[k - 1], f[k])
                BY <2>1, <3>2 DEF IsReadUpTo
            <4>2. g[k] = r[k] /\ (k # 0 => g[k - 1] = r[k - 1])
                BY <3>2
            <4> HIDE DEF g
            <4> QED
                BY <4>1, <4>2
        <3> QED
            BY <3>1, <3>2
    <2>3. g = [k \in 0 .. n + 1 |-> g[k]]
        OBVIOUS
    <2> HIDE DEF g
    <2>4. IsReadUpTo(g, f, n + 1)
        BY <2>2, <2>3 DEF IsReadUpTo
    <2>5. n + 1 \in 0 .. Len(f)
        BY <1>1
    <2> QED
        BY <2>4, <2>5
<1>4. Len(f) \in T
    <2> HIDE DEF T
    <2>1. 0 .. Len(f) \subseteq T
        BY <1>1, <1>2, <1>3, BoundedInduction
    <2> QED
        BY <1>1, <2>1
<1> QED
    BY <1>4 DEF IsRead, IsReadUpTo

LEMMA ReadAStory ==
    ASSUME NEW f, IsFile(f)
    PROVE  \E r : /\ IsRead(r, f)
                  /\ readAStory(f) = [r[Len(f)] EXCEPT !.ok = r[Len(f)].ok /\ Complete(r[Len(f)])]
<1> DEFINE r == CHOOSE r : IsRead(r, f)
<1>1. IsRead(r, f)
    BY ReadExists
<1>2. readAStory(f) = [r[Len(f)] EXCEPT !.ok = r[Len(f)].ok /\ Complete(r[Len(f)])]
    BY DEF readAStory, IsRead
<1> QED
    BY <1>1, <1>2

\* The rule a line must follow, given those before it.
Rule(f, j) ==
    /\ f[j].kind # "malformed"
    /\ f[j].kind = "page" => \A i \in 1 .. j - 1 : f[i].kind = "page" => f[i].num < f[j].num
    /\ f[j].kind = "gadget" => \E i \in 1 .. j : Declares(f[i], f[j].num)
    /\ f[j].kind = "choice" => \E i \in 1 .. j : Declares(f[i], f[j].num) /\ f[i].type = "N"

\* A page of the story is that of a line.
Same(p, l) == l.kind = "page" /\ p.num = l.num /\ p.type = l.type

\* The story has the pages of the first n lines, in ascending order, and the pages
\* their choices lead to.
Matches(f, n, s) ==
    /\ \A i, j \in 1 .. Len(s.pages) : i < j => s.pages[i].num < s.pages[j].num
    /\ \A p \in 1 .. Len(s.pages) : \E i \in 1 .. n : Same(s.pages[p], f[i])
    /\ \A i \in 1 .. n : f[i].kind = "page" => \E p \in 1 .. Len(s.pages) : Same(s.pages[p], f[i])
    /\ s.nexts = {f[i].next : i \in {j \in 1 .. n : f[j].kind = "choice"}}

LEMMA RefusedStory ==
    ASSUME NEW f, NEW s, IsStory(f, s)
    PROVE  IsStory(f, Refused(s)) /\ ~Refused(s).ok
<1>1. s = [pages |-> s.pages, gadgets |-> s.gadgets, nexts |-> s.nexts, ok |-> s.ok]
    BY DEF IsStory
<1>2. DOMAIN s = {"pages", "gadgets", "nexts", "ok"}
    BY <1>1
<1>3. PICK t : t = Refused(s)
    OBVIOUS
<1>4. t = [s EXCEPT !.ok = FALSE]
    BY <1>3 DEF Refused
<1>5. t.pages = s.pages /\ t.gadgets = s.gadgets /\ t.nexts = s.nexts /\ t.ok = FALSE
      /\ t = [pages |-> t.pages, gadgets |-> t.gadgets, nexts |-> t.nexts, ok |-> t.ok]
    <2>1. t.pages = s.pages
        BY <1>2, <1>4
    <2>2. t.gadgets = s.gadgets
        BY <1>2, <1>4
    <2>3. t.nexts = s.nexts
        BY <1>2, <1>4
    <2>4. t.ok = FALSE
        BY <1>2, <1>4
    <2>5. t = [pages |-> t.pages, gadgets |-> t.gadgets, nexts |-> t.nexts, ok |-> t.ok]
        BY <1>1, <1>4
    <2> QED
        BY <2>1, <2>2, <2>3, <2>4, <2>5
<1>6. t.ok \in BOOLEAN /\ ~t.ok
    BY <1>5, Zenon
<1> QED
    BY <1>3, <1>5, <1>6 DEF IsStory

\* Every page has a number and a type.
LEMMA PageFields ==
    ASSUME NEW f, NEW x \in Pages(f)
    PROVE  /\ x.num \in Nat /\ x.type \in {"N", "W", "L"} /\ x.choices \in Seq(ChoicesIn(f))
           /\ x = [num |-> x.num, type |-> x.type, gadgets |-> x.gadgets, choices |-> x.choices]
BY DEF Pages

\* Pages are told apart by their numbers.
LEMMA SeenPage ==
    ASSUME NEW f, NEW s, IsStory(f, s), NEW m \in Seen(s)
    PROVE  /\ IndexOf(s, m) \in 1 .. Len(s.pages) /\ s.pages[IndexOf(s, m)].num = m
           /\ s.pages[IndexOf(s, m)] \in Pages(f)
<1>1. s.pages \in Seq(Pages(f)) /\ DOMAIN s.pages = 1 .. Len(s.pages)
    BY DEF IsStory
<1>2. \E i \in DOMAIN s.pages : s.pages[i].num = m
    BY DEF Seen
<1> QED
    BY <1>1, <1>2 DEF IndexOf

\* A page that is seen is declared by a line before, and none else is.
LEMMA SeenIsDeclared ==
    ASSUME NEW f, NEW s, IsStory(f, s), NEW n \in Nat, Matches(f, n, s), NEW m
    PROVE  /\ m \in Seen(s) <=> \E i \in 1 .. n : Declares(f[i], m)
           /\ m \in Seen(s) => ( s.pages[IndexOf(s, m)].type = "N"
                                 <=> \E i \in 1 .. n : Declares(f[i], m) /\ f[i].type = "N" )
<1>1. s.pages \in Seq(Pages(f)) /\ DOMAIN s.pages = 1 .. Len(s.pages)
    BY DEF IsStory
<1>2. m \in Seen(s) <=> \E p \in 1 .. Len(s.pages) : s.pages[p].num = m
    BY <1>1 DEF Seen
<1>3. m \in Seen(s) <=> \E i \in 1 .. n : Declares(f[i], m)
    <2>1. ASSUME NEW p \in 1 .. Len(s.pages), s.pages[p].num = m PROVE \E i \in 1 .. n : Declares(f[i], m)
        BY <2>1 DEF Matches, Same, Declares
    <2>2. ASSUME NEW i \in 1 .. n, Declares(f[i], m) PROVE \E p \in 1 .. Len(s.pages) : s.pages[p].num = m
        BY <2>2 DEF Matches, Same, Declares
    <2> QED
        BY <1>2, <2>1, <2>2
<1>4. ASSUME m \in Seen(s)
      PROVE  s.pages[IndexOf(s, m)].type = "N" <=> \E i \in 1 .. n : Declares(f[i], m) /\ f[i].type = "N"
    <2>1. PICK x \in 1 .. Len(s.pages) : x = IndexOf(s, m) /\ s.pages[x].num = m
        BY <1>4, SeenPage
    <2>2. \A y \in 1 .. Len(s.pages) : s.pages[y].num = m => y = x
        <3>1. \A y \in 1 .. Len(s.pages) : s.pages[y].num \in Nat
            <4>1. \A y \in 1 .. Len(s.pages) : s.pages[y] \in Pages(f)
                BY <1>1
            <4> QED
                BY <4>1, PageFields
        <3> QED
            BY <1>1, <2>1, <3>1 DEF Matches
    <2>3. ASSUME s.pages[x].type = "N" PROVE \E i \in 1 .. n : Declares(f[i], m) /\ f[i].type = "N"
        <3>1. PICK i \in 1 .. n : Same(s.pages[x], f[i])
            BY DEF Matches
        <3> QED
            BY <2>1, <2>3, <3>1 DEF Same, Declares
    <2>4. ASSUME NEW i \in 1 .. n, Declares(f[i], m), f[i].type = "N" PROVE s.pages[x].type = "N"
        <3>1. PICK y \in 1 .. Len(s.pages) : Same(s.pages[y], f[i])
            BY <2>4 DEF Matches, Declares
        <3>2. y = x
            BY <2>2, <2>4, <3>1 DEF Same, Declares
        <3> QED
            BY <2>4, <3>1, <3>2 DEF Same
    <2> QED
        BY <2>1, <2>3, <2>4
<1> QED
    BY <1>3, <1>4

\* A page.
LEMMA ReadsPage ==
    ASSUME NEW f, IsFile(f), NEW n \in 0 .. Len(f) - 1, NEW s, IsStory(f, s), s.ok, Matches(f, n, s),
           NEW l, l = f[n + 1], l.kind = "page"
    PROVE  /\ IsStory(f, readPage(s, l)) /\ (readPage(s, l).ok <=> Rule(f, n + 1))
           /\ readPage(s, l).ok => Matches(f, n + 1, readPage(s, l))
<1> DEFINE L == Len(s.pages)
<1>1. s.pages \in Seq(Pages(f)) /\ L \in Nat /\ DOMAIN s.pages = 1 .. L
      /\ n \in Nat /\ n + 1 \in 1 .. Len(f) /\ Len(f) \in Nat /\ n \in Int
    BY DEF IsStory, IsFile
<1>2. l.num \in Nat /\ l.type \in {"N", "W", "L"}
    BY <1>1 DEF IsFile, IsLine
<1>3. \A p \in 1 .. L : s.pages[p].num \in Nat
    <2>1. \A p \in 1 .. L : s.pages[p] \in Pages(f)
        BY <1>1
    <2> QED
        BY <2>1, PageFields
<1>4. \A i \in 1 .. n : f[i].kind = "page" => f[i].num \in Nat
    BY <1>1 DEF IsFile, IsLine
<1>5. Rule(f, n + 1) <=> \A i \in 1 .. n : f[i].kind = "page" => f[i].num < l.num
    BY <1>1 DEF Rule
<1>6. Rule(f, n + 1) <=> \A p \in 1 .. L : s.pages[p].num < l.num
    BY <1>5 DEF Matches, Same
<1>7. CASE s.pages # <<>> /\ l.num <= Last(s.pages).num
    <2>1. readPage(s, l) = Refused(s)
        BY <1>7 DEF readPage
    <2>2. L \in 1 .. L /\ Last(s.pages) = s.pages[L]
        BY <1>1, <1>7 DEF Last
    <2>3. ~Rule(f, n + 1)
        BY <1>2, <1>3, <1>6, <1>7, <2>2
    <2> QED
        BY <2>1, <2>3, RefusedStory
<1>8. CASE ~(s.pages # <<>> /\ l.num <= Last(s.pages).num)
    <2>1. PICK t : t = readPage(s, l)
        OBVIOUS
    <2>2. t = [s EXCEPT !.pages = Append(@, NewPage(l))]
        BY <1>8, <2>1 DEF readPage
    <2>3. t.pages = Append(s.pages, NewPage(l)) /\ t.gadgets = s.gadgets /\ t.nexts = s.nexts /\ t.ok = s.ok
          /\ t = [pages |-> t.pages, gadgets |-> t.gadgets, nexts |-> t.nexts, ok |-> t.ok]
        BY <2>2 DEF IsStory
    <2>4. NewPage(l) \in Pages(f) /\ Same(NewPage(l), l)
        <3>1. [g \in {} |-> 0] \in [{} -> Values(f)]
            OBVIOUS
        <3>2. [g \in {} |-> 0] \in UNION {[G -> Values(f)] : G \in SUBSET Names(f)}
            BY <3>1
        <3>3. <<>> \in Seq(ChoicesIn(f))
            OBVIOUS
        <3> QED
            BY <1>2, <3>2, <3>3 DEF NewPage, Pages, Same
    <2>5. t.pages \in Seq(Pages(f)) /\ Len(t.pages) = L + 1 /\ t.pages[L + 1] = NewPage(l)
          /\ \A p \in 1 .. L : t.pages[p] = s.pages[p]
        BY <1>1, <2>3, <2>4
    <2>6. IsStory(f, t)
        BY <2>3, <2>5 DEF IsStory
    <2>7. \A p \in 1 .. L : s.pages[p].num < l.num
        <3>1. CASE L = 0
            BY <1>1, <3>1
        <3>2. CASE L # 0
            <4>1. L \in 1 .. L /\ Last(s.pages) = s.pages[L] /\ s.pages # <<>>
                BY <1>1, <3>2 DEF Last
            <4>2. s.pages[L].num < l.num
                BY <1>2, <1>3, <1>8, <4>1
            <4>3. ASSUME NEW p \in 1 .. L PROVE s.pages[p].num < l.num
                <5>1. CASE p = L
                    BY <4>2, <5>1
                <5>2. CASE p < L
                    <6>1. s.pages[p].num < s.pages[L].num
                        BY <4>1, <5>2 DEF Matches
                    <6>2. s.pages[p].num \in Nat /\ s.pages[L].num \in Nat
                        BY <1>3, <4>1
                    <6> QED
                        BY <1>2, <4>2, <6>1, <6>2
                <5> QED
                    BY <1>1, <5>1, <5>2
            <4> QED
                BY <4>3
        <3> QED
            BY <3>1, <3>2
    <2>8. Rule(f, n + 1) /\ t.ok
        BY <1>6, <2>3, <2>7
    <2>9. Matches(f, n + 1, t)
        <3>1. \A i, j \in 1 .. L + 1 : i < j => t.pages[i].num < t.pages[j].num
            <4> SUFFICES ASSUME NEW i \in 1 .. L + 1, NEW j \in 1 .. L + 1, i < j
                         PROVE  t.pages[i].num < t.pages[j].num
                OBVIOUS
            <4>1. i \in 1 .. L
                BY <1>1
            <4>2. CASE j \in 1 .. L
                BY <2>5, <4>1, <4>2 DEF Matches
            <4>3. CASE j = L + 1
                BY <2>4, <2>5, <2>7, <4>1, <4>3 DEF Same
            <4> QED
                BY <1>1, <4>2, <4>3
        <3>2. \A p \in 1 .. L + 1 : \E i \in 1 .. n + 1 : Same(t.pages[p], f[i])
            <4> SUFFICES ASSUME NEW p \in 1 .. L + 1 PROVE \E i \in 1 .. n + 1 : Same(t.pages[p], f[i])
                OBVIOUS
            <4>1. CASE p \in 1 .. L
                <5>1. PICK i \in 1 .. n : Same(s.pages[p], f[i])
                    BY <4>1 DEF Matches
                <5> QED
                    BY <1>1, <2>5, <4>1, <5>1
            <4>2. CASE p = L + 1
                <5>1. n + 1 \in 1 .. n + 1
                    BY <1>1
                <5> QED
                    BY <2>4, <2>5, <4>2, <5>1
            <4> QED
                BY <1>1, <4>1, <4>2
        <3>3. \A i \in 1 .. n + 1 : f[i].kind = "page" => \E p \in 1 .. L + 1 : Same(t.pages[p], f[i])
            <4> SUFFICES ASSUME NEW i \in 1 .. n + 1, f[i].kind = "page"
                         PROVE  \E p \in 1 .. L + 1 : Same(t.pages[p], f[i])
                OBVIOUS
            <4>1. CASE i \in 1 .. n
                <5>1. PICK p \in 1 .. L : Same(s.pages[p], f[i])
                    BY <4>1 DEF Matches
                <5> QED
                    BY <1>1, <2>5, <5>1
            <4>2. CASE i = n + 1
                <5>1. L + 1 \in 1 .. L + 1
                    BY <1>1
                <5> QED
                    BY <2>4, <2>5, <4>2, <5>1
            <4> QED
                BY <1>1, <4>1, <4>2
        <3>4. {j \in 1 .. n + 1 : f[j].kind = "choice"} = {j \in 1 .. n : f[j].kind = "choice"}
            BY <1>1
        <3> QED
            BY <2>3, <2>5, <3>1, <3>2, <3>3, <3>4 DEF Matches
    <2> QED
        BY <2>1, <2>6, <2>8, <2>9
<1> QED
    BY <1>7, <1>8

\* A line that adds to a page leaves the numbers and types of all of them.
LEMMA SameMatches ==
    ASSUME NEW f, NEW n \in Nat, NEW s, Matches(f, n, s), NEW t, Len(t.pages) = Len(s.pages),
           \A p \in 1 .. Len(s.pages) : t.pages[p].num = s.pages[p].num /\ t.pages[p].type = s.pages[p].type,
           f[n + 1].kind # "page",
           t.nexts = IF f[n + 1].kind = "choice" THEN s.nexts \cup {f[n + 1].next} ELSE s.nexts
    PROVE  Matches(f, n + 1, t)
<1>1. \A i, j \in 1 .. Len(t.pages) : i < j => t.pages[i].num < t.pages[j].num
    BY DEF Matches
<1>2. \A p \in 1 .. Len(t.pages) : \E i \in 1 .. n + 1 : Same(t.pages[p], f[i])
    <2> SUFFICES ASSUME NEW p \in 1 .. Len(t.pages) PROVE \E i \in 1 .. n + 1 : Same(t.pages[p], f[i])
        OBVIOUS
    <2>1. PICK i \in 1 .. n : Same(s.pages[p], f[i])
        BY DEF Matches
    <2> QED
        BY <2>1 DEF Same
<1>3. \A i \in 1 .. n + 1 : f[i].kind = "page" => \E p \in 1 .. Len(t.pages) : Same(t.pages[p], f[i])
    <2> SUFFICES ASSUME NEW i \in 1 .. n + 1, f[i].kind = "page"
                 PROVE  \E p \in 1 .. Len(t.pages) : Same(t.pages[p], f[i])
        OBVIOUS
    <2>1. i \in 1 .. n
        OBVIOUS
    <2>2. PICK p \in 1 .. Len(s.pages) : Same(s.pages[p], f[i])
        BY <2>1 DEF Matches
    <2> QED
        BY <2>2 DEF Same
<1>4. t.nexts = {f[i].next : i \in {j \in 1 .. n + 1 : f[j].kind = "choice"}}
    <2>1. s.nexts = {f[i].next : i \in {j \in 1 .. n : f[j].kind = "choice"}}
        BY DEF Matches
    <2>2. n + 1 \in 1 .. n + 1 /\ \A j \in 1 .. n + 1 : j \in 1 .. n \/ j = n + 1
        OBVIOUS
    <2>3. \A j \in 1 .. n : j \in 1 .. n + 1
        OBVIOUS
    <2> QED
        BY <2>1, <2>2, <2>3
<1> QED
    BY <1>1, <1>2, <1>3, <1>4 DEF Matches

\* A gadget.
LEMMA ReadsGadget ==
    ASSUME NEW f, IsFile(f), NEW n \in 0 .. Len(f) - 1, NEW s, IsStory(f, s), s.ok, Matches(f, n, s),
           NEW l, l = f[n + 1], l.kind = "gadget"
    PROVE  /\ IsStory(f, readGadget(s, l)) /\ (readGadget(s, l).ok <=> Rule(f, n + 1))
           /\ readGadget(s, l).ok => Matches(f, n + 1, readGadget(s, l))
<1>1. n \in Nat /\ n + 1 \in DOMAIN f
    BY DEF IsFile
<1>2. Rule(f, n + 1) <=> \E i \in 1 .. n : Declares(f[i], l.num)
    <2>1. ~Declares(f[n + 1], l.num)
        BY DEF Declares
    <2> QED
        BY <1>1, <2>1 DEF Rule
<1>3. Rule(f, n + 1) <=> l.num \in Seen(s)
    BY <1>1, <1>2, SeenIsDeclared
<1>4. CASE l.num \notin Seen(s)
    <2>1. readGadget(s, l) = Refused(s)
        BY <1>4 DEF readGadget
    <2> QED
        BY <1>3, <1>4, <2>1, RefusedStory
<1>5. CASE l.num \in Seen(s)
    <2>1. PICK t : t = readGadget(s, l)
        OBVIOUS
    <2>2. PICK k \in 1 .. Len(s.pages) : k = IndexOf(s, l.num) /\ s.pages[k] \in Pages(f)
        BY <1>5, SeenPage
    <2>3. PICK p : p = s.pages[k]
        OBVIOUS
    <2>4. PICK x : x = addGadget(p, l)
        OBVIOUS
    <2>5. t = [s EXCEPT !.pages[k] = x, !.gadgets = [g \in DOMAIN @ \cup {l.gadget} |-> 0]]
        BY <1>5, <2>1, <2>2, <2>3, <2>4 DEF readGadget
    <2>6. t.pages = [s.pages EXCEPT ![k] = x] /\ t.gadgets = [g \in DOMAIN s.gadgets \cup {l.gadget} |-> 0]
          /\ t.nexts = s.nexts /\ t.ok = s.ok
          /\ t = [pages |-> t.pages, gadgets |-> t.gadgets, nexts |-> t.nexts, ok |-> t.ok]
        <3>1. s = [pages |-> s.pages, gadgets |-> s.gadgets, nexts |-> s.nexts, ok |-> s.ok]
            BY DEF IsStory
        <3> QED
            BY <2>5, <3>1
    <2>7. l.gadget \in Names(f) /\ l.value \in Values(f)
        BY <1>1 DEF Names, Values, Named
    <2>8. x \in Pages(f) /\ x.num = p.num /\ x.type = p.type
        <3>1. PICK G \in SUBSET Names(f) : p.gadgets \in [G -> Values(f)]
            BY <2>2, <2>3 DEF Pages
        <3>2. PICK h : h = [g \in DOMAIN p.gadgets \cup {l.gadget} |-> IF g = l.gadget THEN l.value ELSE p.gadgets[g]]
            OBVIOUS
        <3>3. PICK H \in SUBSET Names(f) : H = G \cup {l.gadget}
            BY <2>7
        <3>4. h \in [H -> Values(f)]
            BY <2>7, <3>1, <3>2, <3>3
        <3>5. h \in UNION {[F -> Values(f)] : F \in SUBSET Names(f)}
            BY <3>3, <3>4
        <3>6. p = [num |-> p.num, type |-> p.type, gadgets |-> p.gadgets, choices |-> p.choices]
              /\ p.num \in Nat /\ p.type \in {"N", "W", "L"} /\ p.choices \in Seq(ChoicesIn(f))
            BY <2>2, <2>3, PageFields
        <3>7. x = [p EXCEPT !.gadgets = h]
            BY <2>4, <3>2 DEF addGadget
        <3>8. x = [num |-> p.num, type |-> p.type, gadgets |-> h, choices |-> p.choices]
            BY <3>6, <3>7
        <3> QED
            BY <3>5, <3>6, <3>8 DEF Pages
    <2>9. /\ t.pages \in Seq(Pages(f)) /\ Len(t.pages) = Len(s.pages)
          /\ \A q \in 1 .. Len(s.pages) : t.pages[q].num = s.pages[q].num /\ t.pages[q].type = s.pages[q].type
        <3>1. t.pages = [s.pages EXCEPT ![k] = x]
            BY <2>6
        <3>2. x \in Pages(f) /\ x.num = s.pages[k].num /\ x.type = s.pages[k].type
            BY <2>3, <2>8
        <3>3. s.pages \in Seq(Pages(f)) /\ DOMAIN s.pages = 1 .. Len(s.pages) /\ Len(s.pages) \in Nat
            BY DEF IsStory
        <3>4. t.pages \in Seq(Pages(f)) /\ Len(t.pages) = Len(s.pages)
            BY <3>1, <3>2, <3>3
        <3> QED
            BY <3>1, <3>2, <3>3, <3>4
    <2>10. t.gadgets \in UNION {[G -> {0}] : G \in SUBSET Names(f)}
        <3>1. PICK G \in SUBSET Names(f) : s.gadgets \in [G -> {0}]
            BY DEF IsStory
        <3>2. PICK H \in SUBSET Names(f) : H = G \cup {l.gadget}
            BY <2>7
        <3>3. t.gadgets \in [H -> {0}]
            BY <2>6, <3>1, <3>2
        <3> QED
            BY <3>2, <3>3
    <2>11. IsStory(f, t)
        BY <2>6, <2>9, <2>10 DEF IsStory
    <2>12. Matches(f, n + 1, t)
        <3>1. /\ f[n + 1].kind # "page"
              /\ t.nexts = IF f[n + 1].kind = "choice" THEN s.nexts \cup {f[n + 1].next} ELSE s.nexts
            BY <2>6
        <3>2. n \in Nat
            BY <1>1
        <3> QED
            BY <2>9, <3>1, <3>2, SameMatches
    <2> QED
        BY <1>3, <1>5, <2>1, <2>6, <2>11, <2>12
<1> QED
    BY <1>4, <1>5

\* A choice.
LEMMA ReadsChoice ==
    ASSUME NEW f, IsFile(f), NEW n \in 0 .. Len(f) - 1, NEW s, IsStory(f, s), s.ok, Matches(f, n, s),
           NEW l, l = f[n + 1], l.kind = "choice"
    PROVE  /\ IsStory(f, readChoice(s, l)) /\ (readChoice(s, l).ok <=> Rule(f, n + 1))
           /\ readChoice(s, l).ok => Matches(f, n + 1, readChoice(s, l))
<1>1. n \in Nat /\ n + 1 \in DOMAIN f /\ l.next \in Nat
    BY DEF IsFile, IsLine
<1>2. Rule(f, n + 1) <=> \E i \in 1 .. n : Declares(f[i], l.num) /\ f[i].type = "N"
    <2>1. ~Declares(f[n + 1], l.num)
        BY DEF Declares
    <2> QED
        BY <1>1, <2>1 DEF Rule
<1>3. Rule(f, n + 1) <=> l.num \in Seen(s) /\ s.pages[IndexOf(s, l.num)].type = "N"
    BY <1>1, <1>2, SeenIsDeclared
<1>4. CASE l.num \notin Seen(s) \/ s.pages[IndexOf(s, l.num)].type # "N"
    <2>1. readChoice(s, l) = Refused(s)
        BY <1>4 DEF readChoice
    <2> QED
        BY <1>3, <1>4, <2>1, RefusedStory
<1>5. CASE l.num \in Seen(s) /\ s.pages[IndexOf(s, l.num)].type = "N"
    <2>1. PICK t : t = readChoice(s, l)
        OBVIOUS
    <2>2. PICK k \in 1 .. Len(s.pages) : k = IndexOf(s, l.num) /\ s.pages[k] \in Pages(f)
        BY <1>5, SeenPage
    <2>3. PICK p : p = s.pages[k]
        OBVIOUS
    <2>4. PICK x : x = addChoice(p, l)
        OBVIOUS
    <2>5. t = [s EXCEPT !.pages[k] = x, !.nexts = @ \cup {l.next}]
        BY <1>5, <2>1, <2>2, <2>3, <2>4 DEF readChoice
    <2>6. t.pages = [s.pages EXCEPT ![k] = x] /\ t.gadgets = s.gadgets
          /\ t.nexts = s.nexts \cup {l.next} /\ t.ok = s.ok
          /\ t = [pages |-> t.pages, gadgets |-> t.gadgets, nexts |-> t.nexts, ok |-> t.ok]
        <3>1. s = [pages |-> s.pages, gadgets |-> s.gadgets, nexts |-> s.nexts, ok |-> s.ok]
            BY DEF IsStory
        <3> QED
            BY <2>5, <3>1
    <2>7. NewChoice(l) \in ChoicesIn(f)
        BY <1>1 DEF Names, Values, Named, NewChoice, ChoicesIn
    <2>8. x \in Pages(f) /\ x.num = p.num /\ x.type = p.type
        <3>1. p = [num |-> p.num, type |-> p.type, gadgets |-> p.gadgets, choices |-> p.choices]
              /\ p.num \in Nat /\ p.type \in {"N", "W", "L"} /\ p.choices \in Seq(ChoicesIn(f))
            BY <2>2, <2>3, PageFields
        <3>2. p.gadgets \in UNION {[G -> Values(f)] : G \in SUBSET Names(f)}
            BY <2>2, <2>3 DEF Pages
        <3>3. x = [p EXCEPT !.choices = Append(p.choices, NewChoice(l))]
            BY <2>4 DEF addChoice
        <3>4. x = [num |-> p.num, type |-> p.type, gadgets |-> p.gadgets, choices |-> Append(p.choices, NewChoice(l))]
            BY <3>1, <3>3
        <3>5. Append(p.choices, NewChoice(l)) \in Seq(ChoicesIn(f))
            BY <2>7, <3>1
        <3> QED
            BY <3>1, <3>2, <3>4, <3>5 DEF Pages
    <2>9. /\ t.pages \in Seq(Pages(f)) /\ Len(t.pages) = Len(s.pages)
          /\ \A q \in 1 .. Len(s.pages) : t.pages[q].num = s.pages[q].num /\ t.pages[q].type = s.pages[q].type
        <3>1. t.pages = [s.pages EXCEPT ![k] = x]
            BY <2>6
        <3>2. x \in Pages(f) /\ x.num = s.pages[k].num /\ x.type = s.pages[k].type
            BY <2>3, <2>8
        <3>3. s.pages \in Seq(Pages(f)) /\ DOMAIN s.pages = 1 .. Len(s.pages) /\ Len(s.pages) \in Nat
            BY DEF IsStory
        <3>4. t.pages \in Seq(Pages(f)) /\ Len(t.pages) = Len(s.pages)
            BY <3>1, <3>2, <3>3
        <3> QED
            BY <3>1, <3>2, <3>3, <3>4
    <2>10. IsStory(f, t)
        BY <1>1, <2>6, <2>9 DEF IsStory
    <2>11. Matches(f, n + 1, t)
        <3>1. /\ f[n + 1].kind # "page"
              /\ t.nexts = IF f[n + 1].kind = "choice" THEN s.nexts \cup {f[n + 1].next} ELSE s.nexts
            BY <2>6
        <3>2. n \in Nat
            BY <1>1
        <3> QED
            BY <2>9, <3>1, <3>2, SameMatches
    <2> QED
        BY <1>3, <1>5, <2>1, <2>6, <2>10, <2>11
<1> QED
    BY <1>4, <1>5

\* What a line makes of a story.
Follows(f, n, s, t) ==
    /\ IsStory(f, t)
    /\ t.ok <=> s.ok /\ Rule(f, n + 1)
    /\ t.ok => Matches(f, n + 1, t)

\* A line, whatever it is.
LEMMA ReadsLine ==
    ASSUME NEW f, IsFile(f), NEW n \in 0 .. Len(f) - 1, NEW s, IsStory(f, s), s.ok => Matches(f, n, s),
           NEW t, t = readLine(s, f[n + 1])
    PROVE  Follows(f, n, s, t)
<1> USE DEF Follows
<1> DEFINE l == f[n + 1]
<1>1. CASE ~s.ok
    <2>1. t = s
        BY <1>1 DEF readLine
    <2> QED
        BY <1>1, <2>1
<1>2. CASE s.ok
    <2>1. IsLine(l) /\ n \in Nat
        BY DEF IsFile
    <2>2. CASE l.kind = "page"
        <3>1. t = readPage(s, l)
            BY <1>2, <2>2 DEF readLine
        <3> QED
            BY <1>2, <2>2, <3>1, ReadsPage
    <2>3. CASE l.kind = "gadget"
        <3>1. t = readGadget(s, l)
            BY <1>2, <2>3 DEF readLine
        <3> QED
            BY <1>2, <2>3, <3>1, ReadsGadget
    <2>4. CASE l.kind = "choice"
        <3>1. t = readChoice(s, l)
            BY <1>2, <2>4 DEF readLine
        <3> QED
            BY <1>2, <2>4, <3>1, ReadsChoice
    <2>5. CASE l.kind = "blank"
        <3>1. t = s
            BY <1>2, <2>5 DEF readLine
        <3>2. Rule(f, n + 1)
            BY <2>5 DEF Rule
        <3>3. Matches(f, n + 1, t)
            BY <1>2, <2>1, <2>5, <3>1, SameMatches
        <3> QED
            BY <1>2, <3>1, <3>2, <3>3
    <2>6. CASE l.kind = "malformed"
        <3>1. t = Refused(s)
            BY <1>2, <2>6 DEF readLine
        <3>2. ~Rule(f, n + 1)
            BY <2>6 DEF Rule
        <3> QED
            BY <3>1, <3>2, RefusedStory
    <2> QED
        BY <2>1, <2>2, <2>3, <2>4, <2>5, <2>6 DEF IsLine
<1> QED
    BY <1>1, <1>2

\* All of them: the story is refused at the first line that breaks a rule.
LEMMA ReadsLines ==
    ASSUME NEW f, IsFile(f), NEW r, IsRead(r, f), NEW u, u = r[Len(f)]
    PROVE  /\ IsStory(f, u) /\ (u.ok <=> \A j \in 1 .. Len(f) : Rule(f, j))
           /\ u.ok => Matches(f, Len(f), u)
<1> DEFINE Good(n) == /\ IsStory(f, r[n]) /\ (r[n].ok <=> \A j \in 1 .. n : Rule(f, j))
                      /\ r[n].ok => Matches(f, n, r[n])
           T == {n \in 0 .. Len(f) : Good(n)}
<1>1. Len(f) \in Nat
    BY DEF IsFile
<1>2. 0 \in T
    <2>1. r[0] = Nothing
        BY <1>1 DEF IsRead
    <2>2. PICK s : s = Nothing
        OBVIOUS
    <2>3. s.pages = <<>> /\ s.gadgets = [g \in {} |-> 0] /\ s.nexts = {} /\ s.ok = TRUE
          /\ s = [pages |-> s.pages, gadgets |-> s.gadgets, nexts |-> s.nexts, ok |-> s.ok]
        BY <2>2 DEF Nothing, Story
    <2>4. s.gadgets \in UNION {[G -> {0}] : G \in SUBSET Names(f)}
        <3>1. s.gadgets \in [{} -> {0}]
            BY <2>3
        <3> QED
            BY <3>1
    <2>5. s.pages \in Seq(Pages(f)) /\ s.nexts \in SUBSET Nat
        BY <2>3
    <2>6. s.ok \in BOOLEAN /\ s.ok
        BY <2>3, Zenon
    <2>7. IsStory(f, s)
        BY <2>3, <2>4, <2>5, <2>6 DEF IsStory
    <2>8. Matches(f, 0, s)
        BY <2>3 DEF Matches
    <2>9. \A j \in 1 .. 0 : Rule(f, j)
        OBVIOUS
    <2>10. Good(0)
        BY <2>1, <2>2, <2>6, <2>7, <2>8, <2>9
    <2> QED
        BY <1>1, <2>10
<1>3. ASSUME NEW n \in 0 .. Len(f) - 1, n \in T PROVE n + 1 \in T
    <2>1. PICK s, t : s = r[n] /\ t = r[n + 1]
        OBVIOUS
    <2>2. t = readLine(s, f[n + 1])
        BY <1>1, <2>1 DEF IsRead
    <2>3. IsStory(f, s) /\ (s.ok <=> \A j \in 1 .. n : Rule(f, j)) /\ (s.ok => Matches(f, n, s))
        BY <1>3, <2>1
    <2>4. /\ IsStory(f, t) /\ (t.ok <=> s.ok /\ Rule(f, n + 1))
          /\ t.ok => Matches(f, n + 1, t)
        <3>1. s.ok => Matches(f, n, s)
            BY <2>3
        <3>2. IsStory(f, s)
            BY <2>3
        <3>3. Follows(f, n, s, t)
            BY <2>2, <3>1, <3>2, ReadsLine
        <3> QED
            BY <3>3 DEF Follows
    <2>5. (\A j \in 1 .. n + 1 : Rule(f, j)) <=> (\A j \in 1 .. n : Rule(f, j)) /\ Rule(f, n + 1)
        <3>1. n + 1 \in 1 .. n + 1 /\ \A j \in 1 .. n + 1 : j \in 1 .. n \/ j = n + 1
            BY <1>1
        <3>2. \A j \in 1 .. n : j \in 1 .. n + 1
            BY <1>1
        <3> QED
            BY <3>1, <3>2, Zenon
    <2>6. Good(n + 1)
        BY <2>1, <2>3, <2>4, <2>5
    <2>7. n + 1 \in 0 .. Len(f)
        BY <1>1
    <2> QED
        BY <2>6, <2>7
<1>4. Len(f) \in T
    <2> HIDE DEF T
    <2>1. 0 .. Len(f) \subseteq T
        BY <1>1, <1>2, <1>3, BoundedInduction
    <2> QED
        BY <1>1, <2>1
<1> QED
    BY <1>4

\* What the rules say of the lines one by one, WellFormed says of all.
LEMMA RulesOfLines ==
    ASSUME IsFile(file)
    PROVE  (\A j \in 1 .. Len(file) : Rule(file, j)) <=>
                /\ \A i, j \in DOMAIN file :
                      i < j /\ file[i].kind = "page" /\ file[j].kind = "page" => file[i].num < file[j].num
                /\ \A j \in DOMAIN file :
                      /\ file[j].kind # "malformed"
                      /\ file[j].kind = "gadget" => \E i \in 1..j : Declares(file[i], file[j].num)
                      /\ file[j].kind = "choice" => \E i \in 1..j : Declares(file[i], file[j].num) /\ file[i].type = "N"
<1>1. Len(file) \in Nat /\ DOMAIN file = 1 .. Len(file)
    BY DEF IsFile
<1>2. \A j \in 1 .. Len(file) : \A i \in 1 .. Len(file) : i < j <=> i \in 1 .. j - 1
    BY <1>1
<1>3. \A j \in 1 .. Len(file) : \A i \in 1 .. j - 1 : i \in 1 .. Len(file)
    BY <1>1
<1> QED
    BY <1>1, <1>2, <1>3 DEF Rule

\* The story of a file, and whether it is refused.
LEMMA StoryOfFile ==
    ASSUME file \in Files, NEW s, s = readAStory(file)
    PROVE  /\ IsFile(file)
           /\ \E u : /\ IsStory(file, u) /\ s.pages = u.pages /\ s.gadgets = u.gadgets
                     /\ s.ok <=> u.ok /\ Complete(u)
                     /\ u.ok <=> \A j \in 1 .. Len(file) : Rule(file, j)
                     /\ u.ok => Matches(file, Len(file), u)
<1>1. IsFile(file)
    BY AdventureAssumption DEF IsFile
<1>2. PICK r, u : IsRead(r, file) /\ u = r[Len(file)]
                  /\ s = [u EXCEPT !.ok = u.ok /\ Complete(u)]
    BY <1>1, ReadAStory
<1>3. /\ IsStory(file, u) /\ (u.ok <=> \A j \in 1 .. Len(file) : Rule(file, j))
      /\ u.ok => Matches(file, Len(file), u)
    BY <1>1, <1>2, ReadsLines
<1>4. DOMAIN u = {"pages", "gadgets", "nexts", "ok"}
    <2>1. u = [pages |-> u.pages, gadgets |-> u.gadgets, nexts |-> u.nexts, ok |-> u.ok]
        BY <1>3 DEF IsStory
    <2> QED
        BY <2>1
<1>5. s.pages = u.pages /\ s.gadgets = u.gadgets
    BY <1>2, <1>4
<1>6. s.ok = (u.ok /\ Complete(u))
    BY <1>2, <1>4
<1>7. s.ok <=> u.ok /\ Complete(u)
    BY <1>6, Zenon
<1> QED
    BY <1>1, <1>3, <1>5, <1>7

\* Every file is read to a story.
LEMMA StoryTyped ==
    ASSUME file \in Files, story = readAStory(file)
    PROVE  StoryOK
<1>1. PICK u : IsStory(file, u) /\ story.pages = u.pages /\ story.gadgets = u.gadgets
    BY StoryOfFile
<1>2. story.pages \in Seq(Pages(file))
    BY <1>1 DEF IsStory
<1>3. \A g \in DOMAIN story.gadgets : story.gadgets[g] = 0
    <2>1. PICK G \in SUBSET Names(file) : story.gadgets \in [G -> {0}]
        BY <1>1 DEF IsStory
    <2> QED
        BY <2>1
<1>4. ASSUME NEW n \in DOMAIN story.pages, NEW c, c = story.pages[n].choices
      PROVE  /\ Len(c) \in Nat /\ DOMAIN c = 1 .. Len(c)
             /\ \A i \in DOMAIN c : c[i].next \in Nat
    <2>1. story.pages[n] \in Pages(file)
        BY <1>2
    <2>2. c \in Seq(ChoicesIn(file))
        BY <1>4, <2>1, PageFields
    <2>3. \A x \in ChoicesIn(file) : x.next \in Nat
        BY DEF ChoicesIn
    <2> QED
        BY <2>2, <2>3
<1>5. Len(story.pages) \in Nat /\ DOMAIN story.pages = 1 .. Len(story.pages)
    BY <1>2
<1> QED
    BY <1>3, <1>4, <1>5 DEF StoryOK

\* The first page has the least number.
LEMMA FirstPage ==
    ASSUME file \in Files, IsFile(file), NEW u, IsStory(file, u), Matches(file, Len(file), u)
    PROVE  /\ Seen(u) = Declared /\ u.nexts = Nexts
           /\ 1 \in DOMAIN u.pages /\ First = u.pages[1].num
           /\ \A i \in DOMAIN u.pages \ {1} : u.pages[i].num # First
<1>1. u.pages \in Seq(Pages(file)) /\ DOMAIN u.pages = 1 .. Len(u.pages) /\ Len(u.pages) \in Nat
      /\ DOMAIN file = 1 .. Len(file)
    BY DEF IsStory, IsFile
<1>2. Seen(u) = Declared
    <2>1. ASSUME NEW p \in DOMAIN u.pages PROVE u.pages[p].num \in Declared
        <3>1. PICK i \in 1 .. Len(file) : Same(u.pages[p], file[i])
            BY <1>1 DEF Matches
        <3> QED
            BY <1>1, <3>1 DEF Same, Declared
    <2>2. ASSUME NEW i \in DOMAIN file, file[i].kind = "page" PROVE file[i].num \in Seen(u)
        <3>1. PICK p \in 1 .. Len(u.pages) : Same(u.pages[p], file[i])
            BY <1>1, <2>2 DEF Matches
        <3> QED
            BY <1>1, <3>1 DEF Same, Seen
    <2> QED
        BY <2>1, <2>2 DEF Seen, Declared
<1>3. u.nexts = Nexts
    BY <1>1 DEF Matches, Nexts
<1>4. 1 \in DOMAIN u.pages
    <2>1. PICK i \in 1 .. Len(file) : file[i].kind = "page"
        BY <1>1, AdventureAssumption
    <2>2. PICK p \in 1 .. Len(u.pages) : Same(u.pages[p], file[i])
        BY <2>1 DEF Matches
    <2> QED
        BY <1>1, <2>2
<1>5. \A i \in DOMAIN u.pages : u.pages[i].num \in Nat
    <2>1. \A i \in DOMAIN u.pages : u.pages[i] \in Pages(file)
        BY <1>1
    <2> QED
        BY <2>1, PageFields
<1>6. \A i \in DOMAIN u.pages \ {1} : u.pages[1].num < u.pages[i].num
    BY <1>1, <1>4 DEF Matches
<1>7. First = u.pages[1].num
    <2>1. u.pages[1].num \in Declared /\ \A m \in Declared : u.pages[1].num <= m
        BY <1>2, <1>4, <1>5, <1>6 DEF Seen
    <2>2. \A n \in Declared : (\A m \in Declared : n <= m) => n = u.pages[1].num
        <3>1. PICK a : a = u.pages[1].num
            OBVIOUS
        <3>2. \A n \in Declared : n \in Nat
            BY <1>2, <1>5 DEF Seen
        <3>3. a \in Declared /\ \A m \in Declared : a <= m
            BY <2>1, <3>1
        <3>4. \A n \in Declared : (\A m \in Declared : n <= m) => n = a
            BY <3>2, <3>3
        <3> QED
            BY <3>1, <3>4
    <2> QED
        BY <2>1, <2>2 DEF First
<1>8. \A i \in DOMAIN u.pages \ {1} : u.pages[i].num # First
    BY <1>4, <1>5, <1>6, <1>7
<1> QED
    BY <1>2, <1>3, <1>4, <1>7, <1>8

\* A story is refused for what WellFormed asks, and for nothing else.
LEMMA RefusedForCause ==
    ASSUME file \in Files, story = readAStory(file)
    PROVE  story.ok <=> WellFormed
<1>1. PICK u : /\ IsStory(file, u) /\ story.pages = u.pages /\ story.gadgets = u.gadgets
               /\ story.ok <=> u.ok /\ Complete(u)
               /\ u.ok <=> \A j \in 1 .. Len(file) : Rule(file, j)
               /\ u.ok => Matches(file, Len(file), u)
    BY StoryOfFile
<1>2. IsFile(file)
    BY StoryOfFile
<1>3. WellFormed <=> /\ u.ok
                     /\ Nexts \subseteq Declared /\ Declared \ {First} \subseteq Nexts
                     /\ \A type \in {"W", "L"} : \E i \in DOMAIN file : file[i].kind = "page" /\ file[i].type = type
    BY <1>1, <1>2, RulesOfLines DEF WellFormed
<1>4. CASE ~u.ok
    BY <1>1, <1>3, <1>4
<1>5. CASE u.ok
    <2>1. Matches(file, Len(file), u)
        BY <1>1, <1>5
    <2>2. /\ Seen(u) = Declared /\ u.nexts = Nexts
          /\ 1 \in DOMAIN u.pages /\ First = u.pages[1].num
          /\ \A i \in DOMAIN u.pages \ {1} : u.pages[i].num # First
        BY <1>1, <1>2, <2>1, FirstPage
    <2>3. (\A i \in DOMAIN u.pages \ {1} : u.pages[i].num \in u.nexts) <=> Declared \ {First} \subseteq Nexts
        BY <2>2 DEF Seen
    <2>4. DOMAIN u.pages = 1 .. Len(u.pages) /\ DOMAIN file = 1 .. Len(file)
        BY <1>1, <1>2 DEF IsStory, IsFile
    <2>5. ASSUME NEW type PROVE HasPage(u, type) <=> \E i \in DOMAIN file : file[i].kind = "page" /\ file[i].type = type
        <3>1. ASSUME NEW p \in DOMAIN u.pages, u.pages[p].type = type
              PROVE  \E i \in DOMAIN file : file[i].kind = "page" /\ file[i].type = type
            <4>1. PICK i \in 1 .. Len(file) : Same(u.pages[p], file[i])
                BY <2>1, <2>4 DEF Matches
            <4> QED
                BY <2>4, <3>1, <4>1 DEF Same
        <3>2. ASSUME NEW i \in DOMAIN file, file[i].kind = "page", file[i].type = type
              PROVE  \E p \in DOMAIN u.pages : u.pages[p].type = type
            <4>1. PICK p \in 1 .. Len(u.pages) : Same(u.pages[p], file[i])
                BY <2>1, <2>4, <3>2 DEF Matches
            <4> QED
                BY <2>4, <3>2, <4>1 DEF Same
        <3> QED
            BY <3>1, <3>2 DEF HasPage
    <2>6. Complete(u) <=> /\ Nexts \subseteq Declared /\ Declared \ {First} \subseteq Nexts
                          /\ \A type \in {"W", "L"} : \E i \in DOMAIN file : file[i].kind = "page" /\ file[i].type = type
        BY <2>2, <2>3, <2>5 DEF Complete
    <2> QED
        BY <1>1, <1>3, <1>5, <2>6
<1> QED
    BY <1>4, <1>5

\* The story is that of the file, and what is refused is refused for cause.
StoryInv ==
    /\ file \in Files /\ story = readAStory(file)
    /\ phase \in {"read", "refused", "playing", "searching", "done", "undefined"}
    /\ phase = "refused" => ~story.ok
    /\ phase = "read" => story.ok

LEMMA StoryHolds == Spec => []StoryInv
<1>1. Init => StoryInv
    <2> SUFFICES ASSUME Init PROVE StoryInv
        OBVIOUS
    <2>1. CASE story.ok
        BY <2>1 DEF Init, StoryInv
    <2>2. CASE ~story.ok
        BY <2>2 DEF Init, StoryInv
    <2> QED
        BY <2>1, <2>2
<1>2. StoryInv /\ [Next]_vars => StoryInv'
    <2> SUFFICES ASSUME StoryInv, [Next]_vars PROVE StoryInv'
        OBVIOUS
    <2>1. file' = file /\ story' = story
        BY DEF Next, Begin, playStory, Turn, LastPage, PlayBeyond, printWinPath, TakeUp, SearchBeyond,
               PrintPaths, Undefined, input, vars
    <2>2. phase' = phase \/ phase' \in {"playing", "searching", "done", "undefined"}
        BY DEF Next, Begin, playStory, Turn, LastPage, PlayBeyond, printWinPath, TakeUp, SearchBeyond,
               PrintPaths, Undefined, vars
    <2> QED
        BY <2>1, <2>2 DEF StoryInv
<1> QED
    BY <1>1, <1>2, PTL DEF Spec

\* A file is refused if, and only if, it breaks a rule, wherever in it that shows.
THEOREM RefusedForGood == Spec => []RefusesExactly
<1>1. StoryInv => RefusesExactly
    BY RefusedForCause DEF StoryInv, RefusesExactly
<1> QED
    BY <1>1, StoryHolds, PTL
-----------------------------------------------------------------------------
(* Searching                                                                *)

Paths == {p \in [pages : Seq(Nat), choices : Seq(Nat \ {0})] : Len(p.pages) = Len(p.choices) + 1}

\* The path starts at page 0 and goes on by choices that are there.
Chain(p) ==
    /\ Len(p.pages) = Len(p.choices) + 1 /\ p.pages[1] = 0
    /\ \A i \in 1 .. Len(p.choices) :
          /\ p.choices[i] \in DOMAIN ChoicesOf(p.pages[i])
          /\ ChoicesOf(p.pages[i])[p.choices[i]].next = p.pages[i + 1]

\* All its pages but the last have been taken up, each at its first visit.
TakenUp(p) ==
    \A i \in 1 .. Len(p.choices) :
        /\ p.pages[i] \in visited /\ PageAt(p.pages[i]).type = "N"
        /\ \A j \in 1 .. Len(p.choices) : p.pages[i] = p.pages[j] => i = j

SearchInv ==
    /\ todo \in Seq(Paths) /\ lovely \in Seq(Paths)
    /\ \A i \in DOMAIN todo : Chain(todo[i]) /\ TakenUp(todo[i])
    /\ LovelyPathsWin

\* A path that comes to a page that is won is one to print.
LEMMA WonPath ==
    ASSUME NEW p \in Paths, Chain(p), TakenUp(p), PageAt(Last(p.pages)).type = "W"
    PROVE  IsWinningPath(p)
<1>1. p.pages \in Seq(Nat) /\ p.choices \in Seq(Nat \ {0})
    BY DEF Paths
<1>2. PICK m \in Nat : m = Len(p.choices) /\ Len(p.pages) = m + 1
    BY <1>1 DEF Chain
<1>3. DOMAIN p.pages = 1 .. m + 1 /\ DOMAIN p.choices = 1 .. m
    BY <1>1, <1>2
<1>4. Last(p.pages) = p.pages[m + 1]
    BY <1>2 DEF Last
<1>5. \A i \in 1 .. m : p.pages[i] # p.pages[m + 1]
    BY <1>2, <1>4 DEF TakenUp
<1>6. \A i, j \in 1 .. m + 1 : p.pages[i] = p.pages[j] => i = j
    BY <1>2, <1>5 DEF TakenUp
<1> QED
    BY <1>2, <1>3, <1>6 DEF IsWinningPath, Chain

\* A page at its first visit extends its path by each of its choices.
LEMMA ExtendedPath ==
    ASSUME NEW p \in Paths, Chain(p), TakenUp(p), StoryOK,
           NEW n, n = Last(p.pages), InVector(n), n \notin visited, PageAt(n).type = "N",
           visited' = visited \cup {n}, story' = story,
           NEW i \in DOMAIN Extensions(p), NEW q, q = Extensions(p)[i]
    PROVE  q \in Paths /\ Chain(q)' /\ TakenUp(q)'
<1>1. p.pages \in Seq(Nat) /\ p.choices \in Seq(Nat \ {0})
    BY DEF Paths
<1>2. PICK m \in Nat : m = Len(p.choices) /\ Len(p.pages) = m + 1
    BY <1>1 DEF Chain
<1>3. n = p.pages[m + 1] /\ n \in Nat
    BY <1>1, <1>2 DEF Last
<1>4. n + 1 \in DOMAIN story.pages
    BY <1>3 DEF InVector, StoryOK
<1>5. i \in DOMAIN PageAt(n).choices /\ i \in Nat \ {0} /\ PageAt(n).choices[i].next \in Nat
    BY <1>4 DEF Extensions, StoryOK, PageAt
<1>7. q.pages = Append(p.pages, PageAt(n).choices[i].next) /\ q.choices = Append(p.choices, i)
      /\ q = [pages |-> q.pages, choices |-> q.choices]
    BY <1>5 DEF Extensions, Path
<1>8. /\ q.pages \in Seq(Nat) /\ Len(q.pages) = m + 2
      /\ \A k \in 1 .. m + 1 : q.pages[k] = p.pages[k]
      /\ q.pages[m + 2] = PageAt(n).choices[i].next
    BY <1>1, <1>2, <1>5, <1>7
<1>9. /\ q.choices \in Seq(Nat \ {0}) /\ Len(q.choices) = m + 1
      /\ \A k \in 1 .. m : q.choices[k] = p.choices[k]
      /\ q.choices[m + 1] = i
    BY <1>1, <1>2, <1>5, <1>7
<1>10. q \in Paths
    <2>1. q \in [pages : Seq(Nat), choices : Seq(Nat \ {0})]
        BY <1>7, <1>8, <1>9
    <2>2. Len(q.pages) = Len(q.choices) + 1
        BY <1>2, <1>8, <1>9
    <2> QED
        BY <2>1, <2>2 DEF Paths
<1>11. Chain(q)'
    <2>1. Len(q.pages) = Len(q.choices) + 1 /\ q.pages[1] = 0
        <3>1. p.pages[1] = 0
            BY DEF Chain
        <3>2. 1 \in 1 .. m + 1
            BY <1>2
        <3> QED
            BY <1>2, <1>8, <1>9, <3>1, <3>2
    <2>2. ASSUME NEW k \in 1 .. m + 1
          PROVE  /\ q.choices[k] \in DOMAIN PageAt(q.pages[k]).choices
                 /\ PageAt(q.pages[k]).choices[q.choices[k]].next = q.pages[k + 1]
        <3>1. CASE k \in 1 .. m
            <4>1. k \in 1 .. m + 1 /\ k + 1 \in 1 .. m + 1
                BY <1>2, <3>1
            <4>2. q.choices[k] = p.choices[k] /\ q.pages[k] = p.pages[k] /\ q.pages[k + 1] = p.pages[k + 1]
                BY <1>8, <1>9, <3>1, <4>1
            <4>3. /\ p.choices[k] \in DOMAIN PageAt(p.pages[k]).choices
                  /\ PageAt(p.pages[k]).choices[p.choices[k]].next = p.pages[k + 1]
                BY <1>2, <3>1 DEF Chain, ChoicesOf
            <4>4. PICK from, by, to :
                  /\ from = p.pages[k] /\ by = p.choices[k] /\ to = p.pages[k + 1]
                  /\ from = q.pages[k] /\ by = q.choices[k] /\ to = q.pages[k + 1]
                BY <4>2
            <4>5. by \in DOMAIN PageAt(from).choices /\ PageAt(from).choices[by].next = to
                BY <4>3, <4>4, Zenon
            <4> QED
                BY <4>4, <4>5
        <3>2. CASE k = m + 1
            <4>1. q.pages[k] = n /\ q.choices[k] = i /\ q.pages[k + 1] = PageAt(n).choices[i].next
                <5>1. k + 1 = m + 2 /\ m + 1 \in 1 .. m + 1
                    BY <1>2, <3>2
                <5>2. q.pages[m + 1] = n
                    BY <1>3, <1>8, <5>1
                <5> QED
                    BY <1>8, <1>9, <3>2, <5>1, <5>2
            <4> QED
                BY <1>5, <4>1
        <3> QED
            BY <1>2, <3>1, <3>2
    <2> QED
        BY <1>2, <1>9, <2>1, <2>2 DEF Chain, ChoicesOf, PageAt
<1>12. TakenUp(q)'
    <2>1. \A k \in 1 .. m : q.pages[k] \in visited /\ PageAt(q.pages[k]).type = "N" /\ q.pages[k] # n
        <3> SUFFICES ASSUME NEW k \in 1 .. m
                     PROVE  q.pages[k] \in visited /\ PageAt(q.pages[k]).type = "N" /\ q.pages[k] # n
            OBVIOUS
        <3>1. q.pages[k] = p.pages[k]
            <4>1. k \in 1 .. m + 1
                BY <1>2
            <4> QED
                BY <1>8, <4>1
        <3>2. p.pages[k] \in visited /\ PageAt(p.pages[k]).type = "N"
            BY <1>2 DEF TakenUp
        <3> QED
            BY <3>1, <3>2
    <2>2. q.pages[m + 1] = n
        <3>1. m + 1 \in 1 .. m + 1
            BY <1>2
        <3> QED
            BY <1>3, <1>8, <3>1
    <2>3. \A k, j \in 1 .. m : q.pages[k] = q.pages[j] => k = j
        <3>1. \A k, j \in 1 .. m : p.pages[k] = p.pages[j] => k = j
            BY <1>2 DEF TakenUp
        <3>2. \A k \in 1 .. m : q.pages[k] = p.pages[k]
            <4>1. \A k \in 1 .. m : k \in 1 .. m + 1
                BY <1>2
            <4> QED
                BY <1>8, <4>1
        <3> QED
            BY <3>1, <3>2
    <2>5. \A k, j \in 1 .. m + 1 : q.pages[k] = q.pages[j] => k = j
        <3>1. \A k \in 1 .. m + 1 : k \in 1 .. m \/ k = m + 1
            BY <1>2
        <3> QED
            BY <2>1, <2>2, <2>3, <3>1
    <2>4. \A k \in 1 .. m + 1 : q.pages[k] \in visited' /\ PageAt(q.pages[k]).type = "N"
        BY <1>2, <2>1, <2>2
    <2> QED
        BY <1>2, <1>9, <2>4, <2>5 DEF TakenUp, PageAt
<1> QED
    BY <1>10, <1>11, <1>12

\* The paths that stay are as they were.
LEMMA StayingPath ==
    ASSUME NEW p, visited \subseteq visited', story' = story
    PROVE  /\ Chain(p) => Chain(p)'
           /\ TakenUp(p) => TakenUp(p)'
           /\ IsWinningPath(p) => IsWinningPath(p)'
BY DEF Chain, TakenUp, IsWinningPath, ChoicesOf, PageAt

\* Taking up a path keeps what is known of all of them.
LEMMA TakeUpSearch ==
    ASSUME SearchInv, StoryOK, TakeUp
    PROVE  SearchInv'
<1>1. PICK p, n : /\ p = Last(todo) /\ n = Last(p.pages)
                  /\ todo # <<>> /\ InVector(n) /\ Visit(p, n)
    BY DEF TakeUp
<1>2. story' = story /\ visited' = visited \cup {n} /\ visited \subseteq visited'
    BY <1>1 DEF TakeUp, Visit, input
<1>3. PICK m \in Nat : Len(todo) = m + 1 /\ DOMAIN todo = 1 .. m + 1
    BY <1>1 DEF SearchInv
<1>4. p = todo[m + 1] /\ p \in Paths /\ Chain(p) /\ TakenUp(p)
    BY <1>1, <1>3 DEF Last, SearchInv
<1>5. PICK f : f = Front(todo)
    OBVIOUS
<1>6. f \in Seq(Paths) /\ Len(f) = m /\ \A k \in 1 .. m : f[k] = todo[k]
    BY <1>3, <1>5 DEF Front, SearchInv
<1>7. \A k \in 1 .. m : Chain(f[k])' /\ TakenUp(f[k])'
    <2> SUFFICES ASSUME NEW k \in 1 .. m, NEW q, q = f[k] PROVE Chain(q)' /\ TakenUp(q)'
        BY <1>5
    <2>1. Chain(q) /\ TakenUp(q)
        BY <1>3, <1>6 DEF SearchInv
    <2> QED
        BY <1>2, <2>1, StayingPath
<1>8. ASSUME lovely' = lovely PROVE LovelyPathsWin'
    <2> SUFFICES ASSUME NEW k \in DOMAIN lovely, NEW q, q = lovely[k] PROVE IsWinningPath(q)'
        BY <1>8 DEF LovelyPathsWin
    <2>1. IsWinningPath(q)
        BY DEF SearchInv, LovelyPathsWin
    <2> QED
        BY <1>2, <2>1, StayingPath
<1>9. CASE PageAt(n).type = "W" /\ lovely' = Append(lovely, p) /\ todo' = f
    <2>1. IsWinningPath(p)
        BY <1>1, <1>4, <1>9, WonPath
    <2>2. lovely \in Seq(Paths) /\ \A k \in 1 .. Len(lovely) : IsWinningPath(lovely[k])
        BY DEF SearchInv, LovelyPathsWin
    <2>3. PICK l \in Nat : l = Len(lovely)
        BY <2>2
    <2>4. /\ lovely' \in Seq(Paths) /\ DOMAIN lovely' = 1 .. l + 1
          /\ \A k \in 1 .. l : lovely'[k] = lovely[k]
          /\ lovely'[l + 1] = p
        BY <1>4, <1>9, <2>2, <2>3
    <2>5. ASSUME NEW k \in 1 .. l + 1, NEW q, q = lovely'[k] PROVE IsWinningPath(q)'
        <3>1. IsWinningPath(q)
            <4>1. CASE k \in 1 .. l
                <5>1. q = lovely[k]
                    BY <2>4, <2>5, <4>1
                <5> QED
                    BY <2>2, <2>3, <4>1, <5>1
            <4>2. CASE k = l + 1
                BY <2>1, <2>4, <2>5, <4>2
            <4> QED
                BY <2>3, <4>1, <4>2
        <3> QED
            BY <1>2, <3>1, StayingPath
    <2>6. LovelyPathsWin'
        BY <2>4, <2>5 DEF LovelyPathsWin
    <2> QED
        BY <1>6, <1>7, <1>9, <2>4, <2>6 DEF SearchInv
<1>10. CASE todo' = f /\ lovely' = lovely
    BY <1>6, <1>7, <1>8, <1>10 DEF SearchInv
<1>11. CASE PageAt(n).type = "N" /\ n \notin visited /\ todo' = f \o Extensions(p) /\ lovely' = lovely
    <2>1. PICK e : e = Extensions(p)
        OBVIOUS
    <2>2. n \in Nat /\ n + 1 \in DOMAIN story.pages
        <3>1. p.pages \in Seq(Nat) /\ p.choices \in Seq(Nat \ {0}) /\ Len(p.pages) = Len(p.choices) + 1
            BY <1>4 DEF Paths, Chain
        <3>2. n \in Nat
            BY <1>1, <3>1 DEF Last
        <3> QED
            BY <1>1, <3>2 DEF InVector, StoryOK
    <2>3. PICK c \in Nat : DOMAIN e = 1 .. c
        BY <1>1, <2>1, <2>2 DEF Extensions, PageAt, StoryOK
    <2>4. ASSUME NEW i \in 1 .. c, NEW q, q = e[i]
          PROVE  q \in Paths /\ Chain(q)' /\ TakenUp(q)'
        BY <1>1, <1>2, <1>4, <1>11, <2>1, <2>3, <2>4, ExtendedPath
    <2>5. e = [i \in 1 .. c |-> e[i]]
        BY <2>1, <2>3 DEF Extensions
    <2>6. e \in Seq(Paths) /\ Len(e) = c
        BY <2>3, <2>4, <2>5
    <2>7. PICK t : t = todo' /\ t = f \o e
        BY <1>11, <2>1
    <2>8. /\ t \in Seq(Paths) /\ DOMAIN t = 1 .. m + c
          /\ \A k \in 1 .. m : t[k] = f[k]
          /\ \A k \in 1 .. m + c : k \notin 1 .. m => k - m \in 1 .. c /\ t[k] = e[k - m]
        <3>1. t \in Seq(Paths) /\ Len(t) = m + c
            BY <1>6, <2>6, <2>7, ConcatProperties
        <3>a. Len(f) = m /\ Len(e) = c
            BY <1>6, <2>6
        <3>b. \A k \in 1 .. Len(f) + Len(e) : (f \o e)[k] = IF k <= Len(f) THEN f[k] ELSE e[k - Len(f)]
            BY <1>6, <2>6, ConcatProperties
        <3>2. \A k \in 1 .. m + c : t[k] = IF k <= m THEN f[k] ELSE e[k - m]
            BY <2>7, <3>a, <3>b
        <3> QED
            BY <1>3, <2>3, <3>1, <3>2
    <2>9. ASSUME NEW k \in DOMAIN t, NEW q, q = t[k] PROVE Chain(q)' /\ TakenUp(q)'
        <3>1. CASE k \in 1 .. m
            BY <1>6, <1>7, <2>8, <2>9, <3>1
        <3>2. CASE k \notin 1 .. m
            BY <2>4, <2>8, <2>9, <3>2
        <3> QED
            BY <3>1, <3>2
    <2> QED
        BY <1>8, <1>11, <2>6, <2>7, <2>8, <2>9 DEF SearchInv
<1> QED
    BY <1>1, <1>5, <1>9, <1>10, <1>11 DEF Visit

\* The search keeps it.
LEMMA SearchHolds == Spec => []SearchInv
<1>1. Init => SearchInv
    <2> SUFFICES ASSUME Init PROVE SearchInv
        OBVIOUS
    <2>1. PICK p : p = [pages |-> <<0>>, choices |-> <<>>]
        OBVIOUS
    <2>2. p \in Paths /\ p.pages = <<0>> /\ p.choices = <<>>
        <3>1. p.pages = <<0>> /\ p.choices = <<>>
            BY <2>1
        <3>2. <<0>> \in Seq(Nat) /\ <<>> \in Seq(Nat \ {0})
            OBVIOUS
        <3>3. p \in [pages : Seq(Nat), choices : Seq(Nat \ {0})]
            BY <2>1, <3>2
        <3>4. Len(p.pages) = Len(p.choices) + 1
            BY <3>1
        <3> QED
            BY <3>1, <3>3, <3>4 DEF Paths
    <2>3. Chain(p) /\ TakenUp(p)
        BY <2>2 DEF Chain, TakenUp
    <2>4. todo = <<p>> /\ lovely = <<>>
        BY <2>1 DEF Init, Path
    <2> QED
        BY <2>2, <2>3, <2>4 DEF SearchInv, LovelyPathsWin
<1>2. SearchInv /\ StoryOK /\ [Next]_vars => SearchInv'
    <2> SUFFICES ASSUME SearchInv, StoryOK, [Next]_vars PROVE SearchInv'
        OBVIOUS
    <2>1. CASE TakeUp
        BY <2>1, TakeUpSearch
    <2>2. CASE story' = story /\ visited' = visited /\ todo' = todo /\ lovely' = lovely
        <3>1. ASSUME NEW i \in DOMAIN todo, NEW p, p = todo[i] PROVE Chain(p)' /\ TakenUp(p)'
            BY <2>2, <3>1, StayingPath DEF SearchInv
        <3>2. ASSUME NEW i \in DOMAIN lovely, NEW p, p = lovely[i] PROVE IsWinningPath(p)'
            BY <2>2, <3>2, StayingPath DEF SearchInv, LovelyPathsWin
        <3> QED
            BY <2>2, <3>1, <3>2 DEF SearchInv, LovelyPathsWin
    <2>3. CASE Begin \/ playStory \/ SearchBeyond \/ PrintPaths \/ UNCHANGED vars
        BY <2>2, <2>3 DEF Begin, playStory, Turn, LastPage, PlayBeyond, Undefined, SearchBeyond,
                          PrintPaths, vars, input, search
    <2> QED
        BY <2>1, <2>3 DEF Next, printWinPath
<1>3. StoryInv => StoryOK
    BY StoryTyped DEF StoryInv
<1> QED
    BY <1>1, <1>2, <1>3, StoryHolds, PTL DEF Spec

\* What is printed are ways to win: from page 0, by choices that are there, to a page
\* that is won, coming to no page twice.
THEOREM LovelyPathsAreWays == Spec => []LovelyPathsWin
<1>1. SearchInv => LovelyPathsWin
    BY DEF SearchInv
<1> QED
    BY <1>1, SearchHolds, PTL
-----------------------------------------------------------------------------
(* Listing                                                                  *)

\* Pages that are won or lost have no choices.
Dead(s) == \A k \in DOMAIN s.pages : s.pages[k].type # "N" => s.pages[k].choices = <<>>

LEMMA LineDead ==
    ASSUME NEW f, NEW s, IsStory(f, s), Dead(s), NEW l, IsLine(l), NEW t, t = readLine(s, l)
    PROVE  Dead(t)
<1>1. /\ s.pages \in Seq(Pages(f)) /\ DOMAIN s.pages = 1 .. Len(s.pages)
      /\ DOMAIN s = {"pages", "gadgets", "nexts", "ok"}
    <2>1. s = [pages |-> s.pages, gadgets |-> s.gadgets, nexts |-> s.nexts, ok |-> s.ok]
        BY DEF IsStory
    <2>2. DOMAIN s = {"pages", "gadgets", "nexts", "ok"}
        BY <2>1
    <2> QED
        BY <2>2 DEF IsStory
<1>2. CASE t.pages = s.pages
    BY <1>2 DEF Dead
<1>3. ASSUME t = Refused(s) PROVE t.pages = s.pages
    BY <1>1, <1>3 DEF Refused
<1>4. ASSUME NEW x, t.pages = Append(s.pages, x), x.choices = <<>> PROVE Dead(t)
    <2>1. PICK P : P = Pages(f) \cup {x}
        OBVIOUS
    <2>2. s.pages \in Seq(P) /\ x \in P
        BY <1>1, <2>1
    <2>3. \A k \in DOMAIN t.pages : t.pages[k] = x \/ (k \in DOMAIN s.pages /\ t.pages[k] = s.pages[k])
        <3>1. PICK q, h : q = s.pages /\ h = t.pages
            OBVIOUS
        <3>2. q \in Seq(P) /\ h = Append(q, x)
            BY <1>4, <2>2, <3>1
        <3>3. /\ Len(q) \in Nat /\ DOMAIN q = 1 .. Len(q) /\ DOMAIN h = 1 .. Len(q) + 1
              /\ h[Len(q) + 1] = x /\ \A k \in 1 .. Len(q) : h[k] = q[k]
            BY <2>2, <3>2, AppendProperties
        <3>4. \A k \in 1 .. Len(q) + 1 : k = Len(q) + 1 \/ k \in 1 .. Len(q)
            BY <3>3
        <3>5. \A k \in DOMAIN h : h[k] = x \/ (k \in DOMAIN q /\ h[k] = q[k])
            BY <3>3, <3>4
        <3> QED
            BY <3>1, <3>5, Zenon
    <2> QED
        BY <1>4, <2>3 DEF Dead
<1>5. ASSUME NEW k \in DOMAIN s.pages, NEW x, t.pages = [s.pages EXCEPT ![k] = x],
             x.type # "N" => x.choices = <<>>
      PROVE  Dead(t)
    BY <1>1, <1>5 DEF Dead
<1>6. CASE l.kind = "page" /\ s.ok
    <2>1. t = readPage(s, l)
        BY <1>6 DEF readLine
    <2>2. CASE t = [s EXCEPT !.pages = Append(@, NewPage(l))]
        <3>1. t.pages = Append(s.pages, NewPage(l))
            BY <1>1, <2>2
        <3>2. NewPage(l).choices = <<>>
            BY DEF NewPage
        <3> QED
            BY <1>4, <3>1, <3>2
    <2> QED
        BY <1>2, <1>3, <2>1, <2>2 DEF readPage
<1>7. CASE l.kind = "gadget" /\ s.ok
    <2>1. t = readGadget(s, l)
        BY <1>7 DEF readLine
    <2>2. CASE l.num \in Seen(s)
        <3>1. PICK k \in 1 .. Len(s.pages) : k = IndexOf(s, l.num) /\ s.pages[k] \in Pages(f)
            BY <2>2, SeenPage
        <3>2. PICK p, x : p = s.pages[k] /\ x = addGadget(p, l)
            OBVIOUS
        <3>3. t = [s EXCEPT !.pages[k] = x, !.gadgets = [g \in DOMAIN @ \cup {l.gadget} |-> 0]]
            BY <2>1, <2>2, <3>1, <3>2 DEF readGadget
        <3>4. t.pages = [s.pages EXCEPT ![k] = x]
            BY <1>1, <3>3
        <3>5. x.type = p.type /\ x.choices = p.choices
            <4>1. p = [num |-> p.num, type |-> p.type, gadgets |-> p.gadgets, choices |-> p.choices]
                BY <3>1, <3>2, PageFields
            <4> QED
                BY <3>2, <4>1 DEF addGadget
        <3>6. x.type # "N" => x.choices = <<>>
            BY <1>1, <3>1, <3>2, <3>5 DEF Dead
        <3> QED
            BY <1>1, <1>5, <3>1, <3>4, <3>6
    <2>3. CASE l.num \notin Seen(s)
        BY <1>2, <1>3, <2>1, <2>3 DEF readGadget
    <2> QED
        BY <2>2, <2>3
<1>8. CASE l.kind = "choice" /\ s.ok
    <2>1. t = readChoice(s, l)
        BY <1>8 DEF readLine
    <2>2. CASE l.num \in Seen(s) /\ s.pages[IndexOf(s, l.num)].type = "N"
        <3>1. PICK k \in 1 .. Len(s.pages) : k = IndexOf(s, l.num) /\ s.pages[k] \in Pages(f)
            BY <2>2, SeenPage
        <3>2. PICK p, x : p = s.pages[k] /\ x = addChoice(p, l)
            OBVIOUS
        <3>3. t = [s EXCEPT !.pages[k] = x, !.nexts = @ \cup {l.next}]
            BY <2>1, <2>2, <3>1, <3>2 DEF readChoice
        <3>4. t.pages = [s.pages EXCEPT ![k] = x]
            BY <1>1, <3>3
        <3>5. x.type = "N"
            <4>1. p = [num |-> p.num, type |-> p.type, gadgets |-> p.gadgets, choices |-> p.choices]
                BY <3>1, <3>2, PageFields
            <4>2. x.type = p.type
                BY <3>2, <4>1 DEF addChoice
            <4> QED
                BY <2>2, <3>1, <3>2, <4>2
        <3> QED
            BY <1>1, <1>5, <3>1, <3>4, <3>5
    <2>3. CASE ~(l.num \in Seen(s) /\ s.pages[IndexOf(s, l.num)].type = "N")
        BY <1>2, <1>3, <2>1, <2>3 DEF readChoice
    <2> QED
        BY <2>2, <2>3
<1>9. CASE l.kind = "malformed" /\ s.ok
    BY <1>2, <1>3, <1>9 DEF readLine
<1>10. CASE l.kind = "blank" \/ ~s.ok
    BY <1>2, <1>10 DEF readLine
<1> QED
    BY <1>6, <1>7, <1>8, <1>9, <1>10 DEF IsLine

\* Whatever is read.
LEMMA StoryDead ==
    ASSUME file \in Files, story = readAStory(file)
    PROVE  Dead(story)
<1>1. IsFile(file) /\ Len(file) \in Nat
    BY AdventureAssumption DEF IsFile
<1>2. PICK r, u : IsRead(r, file) /\ u = r[Len(file)]
                  /\ readAStory(file) = [u EXCEPT !.ok = u.ok /\ Complete(u)]
    BY <1>1, ReadAStory
<1> DEFINE T == {n \in 0 .. Len(file) : /\ IsStory(file, r[n]) /\ Dead(r[n])
                                        /\ r[n].ok => Matches(file, n, r[n])}
<1>3. 0 \in T
    <2>1. PICK s : s = Nothing
        OBVIOUS
    <2>2. s.pages = <<>> /\ s.gadgets = [g \in {} |-> 0] /\ s.nexts = {} /\ s.ok = TRUE
          /\ s = [pages |-> s.pages, gadgets |-> s.gadgets, nexts |-> s.nexts, ok |-> s.ok]
        BY <2>1 DEF Nothing, Story
    <2>3. IsStory(file, s)
        <3>1. s.gadgets \in [{} -> {0}] /\ s.pages \in Seq(Pages(file)) /\ s.nexts \in SUBSET Nat
            BY <2>2
        <3>2. s.ok \in BOOLEAN
            BY <2>2, Zenon
        <3>3. s.gadgets \in UNION {[G -> {0}] : G \in SUBSET Names(file)}
            BY <3>1
        <3> QED
            BY <2>2, <3>1, <3>2, <3>3 DEF IsStory
    <2>4. Matches(file, 0, s) /\ Dead(s)
        BY <2>2 DEF Matches, Dead
    <2>5. r[0] = s
        BY <1>1, <1>2, <2>1 DEF IsRead
    <2> QED
        BY <1>1, <2>3, <2>4, <2>5
<1>4. ASSUME NEW n \in 0 .. Len(file) - 1, n \in T PROVE n + 1 \in T
    <2>1. PICK s, t : s = r[n] /\ t = r[n + 1]
        OBVIOUS
    <2>2. t = readLine(s, file[n + 1])
        BY <1>1, <1>2, <2>1 DEF IsRead
    <2>3. IsStory(file, s) /\ Dead(s) /\ (s.ok => Matches(file, n, s))
        BY <1>4, <2>1
    <2>4. Follows(file, n, s, t)
        <3>1. s.ok => Matches(file, n, s)
            BY <2>3
        <3> QED
            BY <1>1, <2>2, <2>3, <3>1, ReadsLine
    <2>5. Dead(t)
        <3>1. IsLine(file[n + 1])
            BY <1>1 DEF IsFile
        <3> QED
            BY <2>2, <2>3, <3>1, LineDead
    <2>6. n + 1 \in 0 .. Len(file)
        BY <1>1
    <2> QED
        BY <2>1, <2>4, <2>5, <2>6 DEF Follows
<1>5. Len(file) \in T
    <2> HIDE DEF T
    <2>1. 0 .. Len(file) \subseteq T
        BY <1>1, <1>3, <1>4, BoundedInduction
    <2> QED
        BY <1>1, <2>1
<1>6. IsStory(file, u) /\ Dead(u)
    BY <1>2, <1>5
<1>7. story.pages = u.pages
    <2>1. u = [pages |-> u.pages, gadgets |-> u.gadgets, nexts |-> u.nexts, ok |-> u.ok]
        BY <1>6 DEF IsStory
    <2>2. DOMAIN u = {"pages", "gadgets", "nexts", "ok"}
        BY <2>1
    <2> QED
        BY <1>2, <2>2
<1> QED
    BY <1>6, <1>7 DEF Dead

\* The pages that the choices of the pages of S lead to.
Onward(S) == S \cup {m \in Nums : \E n \in S : \E i \in DOMAIN ChoicesOf(n) : ChoicesOf(n)[i].next = m}

\* What can be reached from page 0 are pages.
LEMMA ReachablePages ==
    ASSUME Len(story.pages) \in Nat, 0 \in Nums
    PROVE  Reachable \subseteq Nums
<1> DEFINE L == Len(story.pages)
           IsUpTo(r, n) == r = [k \in 0 .. n |-> IF k = 0 THEN {0} ELSE Onward(r[k - 1])]
           T == {n \in 0 .. L : \E r : IsUpTo(r, n)}
<1>1. 0 \in T
    <2>1. PICK g : g = [k \in 0 .. 0 |-> {0}]
        OBVIOUS
    <2>2. \A k \in 0 .. 0 : k = 0
        OBVIOUS
    <2> HIDE DEF Onward
    <2>3. IsUpTo(g, 0)
        BY <2>1, <2>2
    <2> QED
        BY <2>3
<1>2. ASSUME NEW n \in 0 .. L - 1, n \in T PROVE n + 1 \in T
    <2>1. PICK r : IsUpTo(r, n)
        BY <1>2
    <2> DEFINE g == [k \in 0 .. n + 1 |-> IF k = n + 1 THEN Onward(r[n]) ELSE r[k]]
    <2> HIDE DEF Onward
    <2>2. \A k \in 0 .. n + 1 : g[k] = IF k = 0 THEN {0} ELSE Onward(g[k - 1])
        <3> SUFFICES ASSUME NEW k \in 0 .. n + 1
                     PROVE  g[k] = IF k = 0 THEN {0} ELSE Onward(g[k - 1])
            OBVIOUS
        <3>1. CASE k = n + 1
            <4>1. k # 0 /\ k - 1 = n /\ n \in 0 .. n + 1 /\ n # n + 1
                BY <3>1
            <4>2. g[k] = Onward(r[n]) /\ g[n] = r[n]
                BY <3>1, <4>1
            <4> HIDE DEF g
            <4> QED
                BY <4>1, <4>2
        <3>2. CASE k \in 0 .. n
            <4>1. r[k] = IF k = 0 THEN {0} ELSE Onward(r[k - 1])
                BY <2>1, <3>2
            <4>2. g[k] = r[k] /\ (k # 0 => g[k - 1] = r[k - 1])
                BY <3>2
            <4> HIDE DEF g
            <4> QED
                BY <4>1, <4>2
        <3> QED
            BY <3>1, <3>2
    <2>3. g = [k \in 0 .. n + 1 |-> g[k]]
        OBVIOUS
    <2> HIDE DEF g
    <2>4. IsUpTo(g, n + 1)
        BY <2>2, <2>3
    <2>5. n + 1 \in 0 .. L
        OBVIOUS
    <2> QED
        BY <2>4, <2>5
<1>3. L \in T
    <2> HIDE DEF T
    <2>1. 0 .. L \subseteq T
        BY <1>1, <1>2, BoundedInduction
    <2> QED
        BY <2>1
<1> DEFINE r == CHOOSE r : IsUpTo(r, L)
<1>4. IsUpTo(r, L)
    BY <1>3
<1>5. Reachable = r[L]
    BY DEF Reachable, Onward
<1> HIDE DEF r
<1> DEFINE U == {n \in 0 .. L : r[n] \subseteq Nums}
<1>6. 0 \in U
    BY <1>4
<1>7. ASSUME NEW n \in 0 .. L - 1, n \in U PROVE n + 1 \in U
    <2>1. r[n + 1] = Onward(r[n])
        <3>1. n + 1 \in 0 .. L /\ n + 1 # 0 /\ (n + 1) - 1 = n
            OBVIOUS
        <3> HIDE DEF Onward
        <3> QED
            BY <1>4, <3>1
    <2> QED
        BY <1>7, <2>1 DEF Onward
<1>8. L \in U
    <2> HIDE DEF U
    <2>1. 0 .. L \subseteq U
        BY <1>6, <1>7, BoundedInduction
    <2> QED
        BY <2>1
<1> QED
    BY <1>5, <1>8

\* The page before the last.
Before(p) == p.pages[Len(p.pages) - 1]

\* They came by the same choice of the same page.
Alike(p, q) ==
    /\ Len(p.pages) > 1 /\ Len(q.pages) > 1
    /\ Before(p) = Before(q) /\ Last(p.choices) = Last(q.choices)

\* No two paths of the two lists did.
Once(a, b) ==
    /\ \A i, j \in DOMAIN a : Alike(a[i], a[j]) => i = j
    /\ \A i, j \in DOMAIN b : Alike(b[i], b[j]) => i = j
    /\ \A i \in DOMAIN a, j \in DOMAIN b : ~Alike(a[i], b[j])

\* The path ends with choice e[2] of page e[1].
Enters(p, e) == Len(p.pages) > 1 /\ p.pages[Len(p.pages) - 1] = e[1] /\ Last(p.choices) = e[2]

Covers(a, e) == \E k \in DOMAIN a : Enters(a[k], e)

\* Choice i of page n wins.
Wins(n, i) == i \in DOMAIN ChoicesOf(n) /\ PageAt(ChoicesOf(n)[i].next).type = "W"

\* Each choice that wins, on a page that has been taken up, has a path that is still to be
\* taken up or is one to print.
NoneMissed ==
    \A n \in visited : PageAt(n).type = "N" =>
        \A i \in Nat : Wins(n, i) => Covers(todo, <<n, i>>) \/ Covers(lovely, <<n, i>>)

\* The search lists each choice once and misses none that wins; what it has taken up are pages.
ListInv ==
    /\ visited \subseteq Nums
    /\ phase \in {"read", "playing"} => visited = {}
    /\ Listed => ~SearchOn
    /\ \A k \in DOMAIN lovely : Len(lovely[k].pages) > 1 => Before(lovely[k]) \in visited
    /\ Once(todo, lovely) /\ NoneMissed

LEMMA AlikeSymmetric ==
    ASSUME NEW p, NEW q, Alike(p, q)
    PROVE  Alike(q, p)
BY DEF Alike

\* The first m of f are those of a.
Keeps(f, a, m) == \A k \in 1 .. m : f[k] = a[k]

\* A path off the stack.
LEMMA OnceDropped ==
    ASSUME NEW m \in Nat, NEW a, DOMAIN a = 1 .. m + 1, NEW b, Once(a, b),
           NEW f, DOMAIN f = 1 .. m, Keeps(f, a, m)
    PROVE  Once(f, b)
<1> USE DEF Keeps
<1>1. \A k \in DOMAIN f : k \in DOMAIN a /\ f[k] = a[k]
    OBVIOUS
<1> QED
    BY <1>1 DEF Once

\* And on the list.
LEMMA OnceMoved ==
    ASSUME NEW m \in Nat, NEW a, DOMAIN a = 1 .. m + 1, NEW b, Once(a, b),
           NEW f, DOMAIN f = 1 .. m, Keeps(f, a, m), NEW l \in Nat, DOMAIN b = 1 .. l,
           NEW g, DOMAIN g = 1 .. l + 1, g[l + 1] = a[m + 1], Keeps(g, b, l)
    PROVE  Once(f, g)
<1>1. Once(f, b)
    BY OnceDropped
<1> USE DEF Keeps
<1>2. PICK p : p = a[m + 1]
    OBVIOUS
<1>3. ASSUME NEW k \in DOMAIN f PROVE ~Alike(f[k], p)
    <2>1. k \in DOMAIN a /\ m + 1 \in DOMAIN a /\ k # m + 1 /\ f[k] = a[k]
        OBVIOUS
    <2> QED
        BY <1>2, <2>1 DEF Once
<1>4. ASSUME NEW k \in DOMAIN b PROVE ~Alike(p, b[k]) /\ ~Alike(b[k], p)
    <2>1. m + 1 \in DOMAIN a
        OBVIOUS
    <2> QED
        BY <1>2, <2>1, AlikeSymmetric DEF Once
<1>5. \A k \in DOMAIN g : (k \in DOMAIN b /\ g[k] = b[k]) \/ (k = l + 1 /\ g[k] = p)
    BY <1>2
<1> QED
    BY <1>1, <1>3, <1>4, <1>5 DEF Once

\* No path of the list came from page n.
Elsewhere(a, n) == \A k \in DOMAIN a : Len(a[k].pages) > 1 => Before(a[k]) # n

\* Those after the first m came from page n, by its choices in order.
ComeFrom(t, m, c, n) == \A k \in 1 .. m + c : k \notin 1 .. m => Before(t[k]) = n /\ Last(t[k].choices) = k - m

\* The paths that go on from a page nobody came from.
LEMMA OnceExtended ==
    ASSUME NEW m \in Nat, NEW c \in Nat, NEW n,
           NEW f, DOMAIN f = 1 .. m, NEW b, Once(f, b), Elsewhere(f, n), Elsewhere(b, n),
           NEW t, DOMAIN t = 1 .. m + c, Keeps(t, f, m), ComeFrom(t, m, c, n)
    PROVE  Once(t, b)
<1> USE DEF Elsewhere, ComeFrom, Keeps
<1>1. \A k \in DOMAIN t : \/ k \in DOMAIN f /\ t[k] = f[k] /\ (Len(t[k].pages) > 1 => Before(t[k]) # n)
                          \/ k \notin 1 .. m /\ Before(t[k]) = n /\ Last(t[k].choices) = k - m
    OBVIOUS
<1>2. ASSUME NEW i \in DOMAIN t, NEW j \in DOMAIN t, Alike(t[i], t[j]) PROVE i = j
    <2>1. Len(t[i].pages) > 1 /\ Len(t[j].pages) > 1 /\ Before(t[i]) = Before(t[j])
          /\ Last(t[i].choices) = Last(t[j].choices)
        BY <1>2 DEF Alike
    <2>2. CASE i \in 1 .. m /\ j \in 1 .. m
        BY <1>2, <2>2 DEF Once
    <2>3. CASE i \notin 1 .. m /\ j \notin 1 .. m
        BY <1>1, <2>1, <2>3
    <2> QED
        BY <1>1, <2>1, <2>2, <2>3
<1>3. ASSUME NEW i \in DOMAIN t, NEW j \in DOMAIN b, Alike(t[i], b[j]) PROVE FALSE
    <2>1. Len(b[j].pages) > 1 /\ Before(t[i]) = Before(b[j])
        BY <1>3 DEF Alike
    <2>2. i \in DOMAIN f /\ t[i] = f[i]
        BY <1>1, <2>1
    <2> QED
        BY <1>3, <2>2 DEF Once
<1> QED
    BY <1>2, <1>3 DEF Once

\* Where a path of the search comes from, and what it came to.
LEMMA PathComes ==
    ASSUME NEW p \in Paths, Chain(p), Len(p.pages) > 1
    PROVE  /\ Last(p.choices) \in Nat /\ Last(p.choices) \in DOMAIN ChoicesOf(Before(p))
           /\ ChoicesOf(Before(p))[Last(p.choices)].next = Last(p.pages)
           /\ TakenUp(p) => Before(p) \in visited
<1>1. p.pages \in Seq(Nat) /\ p.choices \in Seq(Nat \ {0})
    BY DEF Paths
<1>2. PICK c \in Nat : c = Len(p.choices) /\ Len(p.pages) = c + 1 /\ c > 0
    BY <1>1 DEF Chain
<1>3. Before(p) = p.pages[c] /\ Last(p.choices) = p.choices[c] /\ Last(p.pages) = p.pages[c + 1]
    BY <1>2 DEF Before, Last
<1>4. c \in 1 .. Len(p.choices) /\ p.choices[c] \in Nat
    BY <1>1, <1>2
<1> QED
    BY <1>3, <1>4 DEF Chain, TakenUp

\* An extension comes from the page it extends, by the choice of its number.
LEMMA ExtensionComes ==
    ASSUME NEW p \in Paths, NEW n, n = Last(p.pages), NEW i \in DOMAIN Extensions(p), i \in Nat \ {0},
           PageAt(n).choices[i].next \in Nat, NEW q, q = Extensions(p)[i]
    PROVE  Len(q.pages) > 1 /\ Before(q) = n /\ Last(q.choices) = i
<1>1. p.pages \in Seq(Nat) /\ p.choices \in Seq(Nat \ {0})
    BY DEF Paths
<1>2. PICK m \in Nat : m = Len(p.choices) /\ Len(p.pages) = m + 1
    BY <1>1 DEF Paths
<1>3. q.pages = Append(p.pages, PageAt(n).choices[i].next) /\ q.choices = Append(p.choices, i)
    BY DEF Extensions, Path
<1>4. Len(q.pages) = m + 2 /\ q.pages[m + 1] = p.pages[m + 1]
    BY <1>1, <1>2, <1>3
<1>5. Len(q.choices) = m + 1 /\ q.choices[m + 1] = i
    BY <1>1, <1>2, <1>3
<1>6. n = p.pages[m + 1]
    BY <1>2 DEF Last
<1> QED
    BY <1>4, <1>5, <1>6 DEF Before, Last

\* A choice that wins keeps its path on the stack or on the list, unless its page is taken up now.
LEMMA StaysCovered ==
    ASSUME NEW m \in Nat, DOMAIN todo = 1 .. m + 1, NEW p, p = todo[m + 1], p \in Paths, Chain(p),
           NEW f, DOMAIN f = 1 .. m, \A k \in 1 .. m : f[k] = todo[k],
           NEW n, NEW i \in Nat, Wins(n, i), Covers(todo, <<n, i>>)
    PROVE  Covers(f, <<n, i>>) \/ (Enters(p, <<n, i>>) /\ PageAt(Last(p.pages)).type = "W")
<1>1. PICK k \in DOMAIN todo : Enters(todo[k], <<n, i>>)
    BY DEF Covers
<1>2. CASE k = m + 1
    <2>1. Len(p.pages) > 1 /\ Before(p) = n /\ Last(p.choices) = i
        BY <1>1, <1>2 DEF Enters, Before
    <2>2. ChoicesOf(n)[i].next = Last(p.pages)
        BY <2>1, PathComes
    <2> QED
        BY <1>1, <1>2, <2>2 DEF Wins
<1>3. CASE k \in 1 .. m
    BY <1>1, <1>3 DEF Covers
<1> QED
    BY <1>2, <1>3

\* Taking up a path lists no choice twice and misses none.
LEMMA TakeUpLists ==
    ASSUME ListInv, SearchInv, StoryOK, TakeUp
    PROVE  ListInv'
<1>1. PICK p, n : /\ p = Last(todo) /\ n = Last(p.pages)
                  /\ todo # <<>> /\ InVector(n) /\ Visit(p, n)
    BY DEF TakeUp
<1>2. story' = story /\ phase' = "searching" /\ visited' = visited \cup {n}
    BY <1>1 DEF TakeUp, Visit, input
<1>3. PICK m \in Nat : Len(todo) = m + 1 /\ DOMAIN todo = 1 .. m + 1
    BY <1>1 DEF SearchInv
<1>4. p = todo[m + 1] /\ p \in Paths /\ Chain(p) /\ TakenUp(p)
    BY <1>1, <1>3 DEF Last, SearchInv
<1>5. PICK f : f = Front(todo)
    OBVIOUS
<1>6. /\ f \in Seq(Paths) /\ Len(f) = m /\ DOMAIN f = 1 .. m
      /\ \A k \in 1 .. m : f[k] = todo[k] /\ f[k] \in Paths /\ Chain(f[k]) /\ TakenUp(f[k])
    BY <1>3, <1>5 DEF Front, SearchInv
<1>7. n \in Nat /\ n \in Nums /\ n + 1 \in DOMAIN story.pages
    <2>1. p.pages \in Seq(Nat) /\ p.choices \in Seq(Nat \ {0}) /\ Len(p.pages) = Len(p.choices) + 1
        BY <1>4 DEF Paths, Chain
    <2>2. n \in Nat
        BY <1>1, <2>1 DEF Last
    <2> QED
        BY <1>1, <2>2 DEF InVector, StoryOK, Nums
<1>8. PICK l \in Nat : l = Len(lovely) /\ DOMAIN lovely = 1 .. l /\ lovely \in Seq(Paths)
    BY DEF SearchInv
<1>9. visited' \subseteq Nums'
    BY <1>2, <1>7 DEF ListInv, Nums
<1>10. ~Listed' /\ ~(phase' \in {"read", "playing"})
    BY <1>2 DEF Listed
<1>11. SUFFICES /\ \A k \in DOMAIN lovely' : Len(lovely'[k].pages) > 1 => Before(lovely'[k]) \in visited'
                /\ Once(todo', lovely')
                /\ NoneMissed'
    BY <1>9, <1>10 DEF ListInv
<1>12. Once(f, lovely) /\ Keeps(f, todo, m)
    <2>1. Once(todo, lovely)
        BY DEF ListInv
    <2>2. Keeps(f, todo, m)
        BY <1>6 DEF Keeps
    <2>3. DOMAIN todo = 1 .. m + 1
        BY <1>3
    <2>4. DOMAIN f = 1 .. m
        BY <1>6
    <2> QED
        BY <2>1, <2>2, <2>3, <2>4, OnceDropped
<1>13. ASSUME NEW k \in DOMAIN lovely, Len(lovely[k].pages) > 1 PROVE Before(lovely[k]) \in visited
    BY <1>13 DEF ListInv
<1>14. ASSUME NEW k \in 1 .. m, Len(f[k].pages) > 1 PROVE Before(f[k]) \in visited
    BY <1>6, <1>14, PathComes
\* What was covered, of the pages taken up before.
<1>15. ASSUME NEW x \in visited, PageAt(x).type = "N", NEW i \in Nat, Wins(x, i)
       PROVE  \/ Covers(f, <<x, i>>) \/ Covers(lovely, <<x, i>>)
              \/ Enters(p, <<x, i>>) /\ PageAt(n).type = "W"
    <2>1. Covers(todo, <<x, i>>) \/ Covers(lovely, <<x, i>>)
        BY <1>15 DEF ListInv, NoneMissed
    <2> QED
        BY <1>1, <1>3, <1>4, <1>6, <1>15, <2>1, StaysCovered
<1>16. \A x, i : Wins(x, i)' <=> Wins(x, i)
    BY <1>2 DEF Wins, ChoicesOf, PageAt
<1>17. \A x : PageAt(x)' = PageAt(x)
    BY <1>2 DEF PageAt
<1>18. CASE PageAt(n).type = "W" /\ lovely' = Append(lovely, p) /\ todo' = f
    <2>1. PICK g : g = lovely'
        OBVIOUS
    <2>2. /\ DOMAIN g = 1 .. l + 1 /\ g[l + 1] = p
          /\ \A k \in 1 .. l : g[k] = lovely[k]
        <3>1. g = Append(lovely, p)
            BY <1>18, <2>1
        <3> QED
            BY <1>4, <1>8, <3>1, AppendProperties
    <2>3. Once(f, g)
        <3>1. Once(todo, lovely)
            BY DEF ListInv
        <3>2. DOMAIN todo = 1 .. m + 1
            BY <1>3
        <3>3. DOMAIN f = 1 .. m
            BY <1>6
        <3>4. DOMAIN lovely = 1 .. l
            BY <1>8
        <3>5. DOMAIN g = 1 .. l + 1
            BY <2>2
        <3>6. g[l + 1] = todo[m + 1]
            BY <1>4, <2>2
        <3>7. Keeps(f, todo, m)
            BY <1>12
        <3>8. Keeps(g, lovely, l)
            BY <2>2 DEF Keeps
        <3> QED
            BY <3>1, <3>2, <3>3, <3>4, <3>5, <3>6, <3>7, <3>8, OnceMoved
    <2>4. ASSUME NEW k \in DOMAIN g, Len(g[k].pages) > 1 PROVE Before(g[k]) \in visited'
        <3>1. CASE k = l + 1
            BY <1>2, <1>4, <2>2, <2>4, <3>1, PathComes
        <3>2. CASE k \in 1 .. l
            BY <1>2, <1>8, <1>13, <2>2, <2>4, <3>2
        <3> QED
            BY <2>2, <3>1, <3>2
    <2>5. ASSUME NEW e, Covers(lovely, e) \/ Enters(p, e) PROVE Covers(g, e)
        BY <1>8, <2>2, <2>5 DEF Covers
    <2>6. NoneMissed'
        <3> SUFFICES ASSUME NEW x \in visited', PageAt(x).type = "N", NEW i \in Nat, Wins(x, i)
                     PROVE  Covers(f, <<x, i>>) \/ Covers(g, <<x, i>>)
            BY <1>16, <1>17, <1>18, <2>1 DEF NoneMissed
        <3>1. x \in visited
            BY <1>2, <1>18
        <3> QED
            BY <1>15, <2>5, <3>1
    <2> QED
        BY <1>18, <2>1, <2>3, <2>4, <2>6
<1>19. CASE todo' = f /\ lovely' = lovely /\ (PageAt(n).type = "L" \/ (PageAt(n).type = "N" /\ n \in visited))
    <2>1. NoneMissed'
        <3> SUFFICES ASSUME NEW x \in visited', PageAt(x).type = "N", NEW i \in Nat, Wins(x, i)
                     PROVE  Covers(f, <<x, i>>) \/ Covers(lovely, <<x, i>>)
            BY <1>16, <1>17, <1>19 DEF NoneMissed
        <3>1. x \in visited
            BY <1>2, <1>19
        <3> QED
            BY <1>15, <1>19, <3>1
    <2> QED
        BY <1>2, <1>12, <1>13, <1>19, <2>1
<1>20. CASE PageAt(n).type = "N" /\ n \notin visited /\ todo' = f \o Extensions(p) /\ lovely' = lovely
    <2>1. PICK e : e = Extensions(p)
        OBVIOUS
    <2>3. PICK c \in Nat : DOMAIN e = 1 .. c /\ DOMAIN PageAt(n).choices = 1 .. c
                           /\ \A i \in 1 .. c : PageAt(n).choices[i].next \in Nat
        BY <1>1, <1>7, <2>1 DEF Extensions, PageAt, StoryOK
    <2>4. ASSUME NEW i \in 1 .. c, NEW q, q = e[i]
          PROVE  q \in Paths /\ Len(q.pages) > 1 /\ Before(q) = n /\ Last(q.choices) = i
        <3>1. i \in Nat \ {0} /\ i \in DOMAIN Extensions(p) /\ PageAt(n).choices[i].next \in Nat
            BY <2>1, <2>3
        <3>2. q \in Paths
            BY <1>1, <1>2, <1>4, <1>20, <2>1, <2>3, <2>4, ExtendedPath
        <3> QED
            BY <1>1, <1>4, <2>1, <2>4, <3>1, <3>2, ExtensionComes
    <2>5. e = [i \in 1 .. c |-> e[i]]
        BY <2>1, <2>3 DEF Extensions
    <2>6. e \in Seq(Paths) /\ Len(e) = c
        BY <2>3, <2>4, <2>5
    <2>7. PICK t : t = todo' /\ t = f \o e
        BY <1>20, <2>1
    <2>8. /\ DOMAIN t = 1 .. m + c
          /\ \A k \in 1 .. m : t[k] = f[k]
          /\ \A i \in 1 .. c : m + i \in 1 .. m + c /\ t[m + i] = e[i]
          /\ \A k \in 1 .. m + c : k \notin 1 .. m => k - m \in 1 .. c /\ t[k] = e[k - m]
        <3>1. t \in Seq(Paths) /\ Len(t) = m + c
            BY <1>6, <2>6, <2>7, ConcatProperties
        <3>a. Len(f) = m /\ Len(e) = c
            BY <1>6, <2>6
        <3>b. \A k \in 1 .. Len(f) + Len(e) : (f \o e)[k] = IF k <= Len(f) THEN f[k] ELSE e[k - Len(f)]
            BY <1>6, <2>6, ConcatProperties
        <3>2. \A k \in 1 .. m + c : t[k] = IF k <= m THEN f[k] ELSE e[k - m]
            BY <2>7, <3>a, <3>b
        <3> QED
            BY <1>3, <2>3, <3>1, <3>2
    <2>9. Once(t, lovely)
        <3>1. Elsewhere(f, n)
            BY <1>6, <1>14, <1>20 DEF Elsewhere
        <3>2. Elsewhere(lovely, n)
            BY <1>13, <1>20 DEF Elsewhere
        <3>3. ComeFrom(t, m, c, n)
            BY <2>4, <2>8 DEF ComeFrom
        <3>4. DOMAIN f = 1 .. m
            BY <1>6
        <3>5. DOMAIN t = 1 .. m + c
            BY <2>8
        <3>6. Keeps(t, f, m)
            BY <2>8 DEF Keeps
        <3> QED
            BY <1>12, <3>1, <3>2, <3>3, <3>4, <3>5, <3>6, OnceExtended
    <2>10. \A x : Covers(f, x) => Covers(t, x)
        <3>1. \A k \in 1 .. m : k \in 1 .. m + c
            OBVIOUS
        <3> QED
            BY <1>6, <2>8, <3>1 DEF Covers
    <2>11. NoneMissed'
        <3> SUFFICES ASSUME NEW x \in visited', PageAt(x).type = "N", NEW i \in Nat, Wins(x, i)
                     PROVE  Covers(t, <<x, i>>) \/ Covers(lovely, <<x, i>>)
            BY <1>16, <1>17, <1>20, <2>7 DEF NoneMissed
        <3>1. CASE x \in visited
            BY <1>15, <1>20, <2>10, <3>1
        <3>2. CASE x = n
            <4>1. i \in 1 .. c
                BY <2>3, <3>2 DEF Wins, ChoicesOf
            <4>2. m + i \in DOMAIN t /\ t[m + i] = e[i]
                BY <2>8, <4>1
            <4>3. Enters(t[m + i], <<n, i>>)
                BY <2>4, <4>1, <4>2 DEF Enters, Before
            <4> QED
                BY <3>2, <4>2, <4>3 DEF Covers
        <3> QED
            BY <1>2, <3>1, <3>2
    <2> QED
        BY <1>2, <1>13, <1>20, <2>7, <2>9, <2>11
<1> QED
    BY <1>1, <1>5, <1>18, <1>19, <1>20 DEF Visit

\* The search, and the reader, keep it.
LEMMA ListHolds == Spec => []ListInv
<1>1. Init => ListInv
    <2> SUFFICES ASSUME Init PROVE ListInv
        OBVIOUS
    <2>1. visited = {} /\ ~Listed
        BY DEF Init, Listed
    <2>2. PICK p : todo = <<p>> /\ p.pages = <<0>>
        BY DEF Init, Path
    <2>3. DOMAIN todo = {1} /\ lovely = <<>>
        BY <2>2 DEF Init
    <2>4. Once(todo, lovely)
        BY <2>3 DEF Once
    <2> QED
        BY <2>1, <2>3, <2>4 DEF ListInv, NoneMissed
<1>2. ListInv /\ SearchInv /\ StoryOK /\ [Next]_vars => ListInv'
    <2> SUFFICES ASSUME ListInv, SearchInv, StoryOK, [Next]_vars PROVE ListInv'
        OBVIOUS
    <2>1. CASE TakeUp
        BY <2>1, TakeUpLists
    <2>2. ASSUME story' = story, visited' = visited, todo' = todo, lovely' = lovely,
                 phase' \in {"read", "playing"} => visited = {},
                 phase' = "done" /\ visited # {} => ~SearchOn
          PROVE  ListInv'
        <3>1. NoneMissed'
            BY <2>2 DEF ListInv, NoneMissed, Wins, ChoicesOf, PageAt
        <3>2. Listed' => ~SearchOn'
            BY <2>2 DEF Listed, SearchOn
        <3> QED
            BY <2>2, <3>1, <3>2 DEF ListInv, Nums
    <2>3. CASE Begin
        BY <2>2, <2>3 DEF Begin, input, play, search, ListInv
    <2>4. CASE \E i \in valid_choices(current) : Turn(i)
        BY <2>2, <2>4 DEF Turn, input, search, ListInv
    <2>5. CASE LastPage
        BY <2>2, <2>5 DEF LastPage, input, play, search, ListInv
    <2>6. CASE PlayBeyond \/ SearchBeyond
        BY <2>2, <2>6 DEF PlayBeyond, SearchBeyond, Undefined, input, play, search, ListInv
    <2>7. CASE PrintPaths
        BY <2>2, <2>7 DEF PrintPaths, input, play, search, ListInv
    <2>8. CASE UNCHANGED vars
        BY <2>2, <2>8 DEF vars, input, play, search, ListInv, Listed
    <2> QED
        BY <2>1, <2>3, <2>4, <2>5, <2>6, <2>7, <2>8 DEF Next, playStory, printWinPath
<1>3. StoryInv => StoryOK
    BY StoryTyped DEF StoryInv
<1> QED
    BY <1>1, <1>2, <1>3, StoryHolds, SearchHolds, PTL DEF Spec

\* When the search has ended, every page has been taken up.
LEMMA AllTakenUp ==
    ASSUME ListInv, StoryOK, Listed
    PROVE  visited = Nums /\ todo = <<>> /\ Reachable \subseteq visited
<1>1. Len(story.pages) \in Nat /\ visited \subseteq Nums /\ visited # {} /\ todo = <<>>
      /\ Cardinality(visited) = Len(story.pages)
    BY DEF ListInv, StoryOK, Listed, SearchOn
<1>2. IsFiniteSet(Nums) /\ Cardinality(Nums) = Len(story.pages)
    <2>1. PICK a, b : a = 0 /\ b = Len(story.pages) - 1
        OBVIOUS
    <2>2. a \in Int /\ b \in Int
        BY <1>1, <2>1
    <2>3. IsFiniteSet(a .. b) /\ Cardinality(a .. b) = IF a > b THEN 0 ELSE b - a + 1
        BY <2>2, FS_Interval
    <2>4. Nums = a .. b
        BY <2>1 DEF Nums
    <2>5. Cardinality(a .. b) = Len(story.pages)
        BY <1>1, <2>1, <2>3
    <2> QED
        BY <2>3, <2>4, <2>5
<1>3. visited = Nums
    BY <1>1, <1>2, FS_Subset
<1>4. 0 \in Nums
    <2>1. PICK n : n \in 0 .. Len(story.pages) - 1
        BY <1>1 DEF Nums
    <2>2. 0 \in 0 .. Len(story.pages) - 1
        BY <1>1, <2>1
    <2> QED
        BY <2>2 DEF Nums
<1> QED
    BY <1>1, <1>3, <1>4, ReachablePages

\* A page that is won and has been taken up ends a path on the list.
WonListed ==
    \A n \in visited : PageAt(n).type = "W" => \E k \in DOMAIN lovely : Last(lovely[k].pages) = n

LEMMA TakeUpListsWon ==
    ASSUME WonListed, SearchInv, TakeUp
    PROVE  WonListed'
<1>1. PICK p, n : p = Last(todo) /\ n = Last(p.pages) /\ Visit(p, n)
    BY DEF TakeUp
<1>2. story' = story /\ visited' = visited \cup {n}
    BY <1>1 DEF TakeUp, Visit, input
<1>3. \A x : PageAt(x)' = PageAt(x)
    BY <1>2 DEF PageAt
<1>4. CASE lovely' = Append(lovely, p)
    <2>1. PICK l \in Nat : l = Len(lovely) /\ DOMAIN lovely = 1 .. l /\ lovely \in Seq(Paths)
        BY DEF SearchInv
    <2>2. p \in Paths
        BY <1>1 DEF SearchInv, TakeUp, Last
    <2>3. PICK g : g = lovely'
        OBVIOUS
    <2>4. /\ DOMAIN g = 1 .. l + 1 /\ g[l + 1] = p
          /\ \A k \in 1 .. l : g[k] = lovely[k]
        BY <1>4, <2>1, <2>2, <2>3, AppendProperties
    <2>5. ASSUME NEW x \in visited', PageAt(x).type = "W"
          PROVE  \E k \in DOMAIN g : Last(g[k].pages) = x
        <3>1. CASE x = n
            <4>1. l + 1 \in DOMAIN g /\ Last(g[l + 1].pages) = x
                BY <1>1, <2>4, <3>1
            <4> QED
                BY <4>1
        <3>2. CASE x \in visited
            <4>1. PICK k \in DOMAIN lovely : Last(lovely[k].pages) = x
                BY <2>5, <3>2 DEF WonListed
            <4>2. k \in DOMAIN g /\ g[k] = lovely[k]
                BY <2>1, <2>4
            <4> QED
                BY <4>1, <4>2
        <3> QED
            BY <1>2, <2>5, <3>1, <3>2
    <2> QED
        BY <1>3, <2>3, <2>5 DEF WonListed
<1>5. CASE lovely' = lovely /\ PageAt(n).type # "W"
    BY <1>2, <1>3, <1>5 DEF WonListed
<1> QED
    BY <1>1, <1>4, <1>5 DEF Visit

LEMMA WonHolds == Spec => []WonListed
<1>1. Init => WonListed
    BY DEF Init, WonListed
<1>2. WonListed /\ SearchInv /\ [Next]_vars => WonListed'
    <2> SUFFICES ASSUME WonListed, SearchInv, [Next]_vars PROVE WonListed'
        OBVIOUS
    <2>1. CASE TakeUp
        BY <2>1, TakeUpListsWon
    <2>2. ASSUME story' = story, visited' = visited, lovely' = lovely PROVE WonListed'
        BY <2>2 DEF WonListed, PageAt
    <2>3. CASE Begin \/ LastPage \/ PlayBeyond \/ SearchBeyond \/ PrintPaths
        BY <2>2, <2>3 DEF Begin, LastPage, PlayBeyond, SearchBeyond, PrintPaths, Undefined, input, search
    <2>4. CASE \E i \in valid_choices(current) : Turn(i)
        BY <2>2, <2>4 DEF Turn, input, search
    <2>5. CASE UNCHANGED vars
        BY <2>2, <2>5 DEF vars, input, search
    <2> QED
        BY <2>1, <2>3, <2>4, <2>5 DEF Next, playStory, printWinPath
<1> QED
    BY <1>1, <1>2, SearchHolds, PTL DEF Spec

\* What is printed, of any story, are ways to win, none of them with a cycle; and each page that
\* is won and can be reached ends one of them: no story is called unwinnable that can be won.
THEOREM WonPagesListed == Spec => []PathsWin
<1>1. ListInv /\ SearchInv /\ StoryInv /\ WonListed => PathsWin
    <2> SUFFICES ASSUME ListInv, SearchInv, StoryInv, WonListed, Listed, NEW n \in Reachable,
                        PageAt(n).type = "W"
                 PROVE  \E k \in DOMAIN lovely : Last(lovely[k].pages) = n
        BY DEF PathsWin, SearchInv
    <2>1. n \in visited
        BY StoryTyped, AllTakenUp DEF StoryInv
    <2> QED
        BY <2>1 DEF WonListed
<1> QED
    BY <1>1, ListHolds, SearchHolds, StoryHolds, WonHolds, PTL

\* Winning choices of pages that can be reached.
Entrances == {e \in Reachable \X (1..Len(file)) :
                 e[2] \in DOMAIN ChoicesOf(e[1]) /\ PageAt(ChoicesOf(e[1])[e[2]].next).type = "W"}

\* How far the list goes: each choice that wins, on a page that can be reached, is listed with
\* one path to it, whatever the other ways there are.
OneWayAnEntrance ==
    Listed => \A e \in Entrances : Cardinality({k \in DOMAIN lovely : Enters(lovely[k], e)}) = 1

\* The search of any story lists one path a winning choice: none is missed and none listed twice.
\* The README asks for all paths, see EveryWayPrinted.
THEOREM ListsEachWayOnce == Spec => []OneWayAnEntrance
<1>1. ListInv /\ SearchInv /\ StoryInv => OneWayAnEntrance
    <2> SUFFICES ASSUME ListInv, SearchInv, StoryInv, Listed, NEW e \in Entrances
                 PROVE  Cardinality({k \in DOMAIN lovely : Enters(lovely[k], e)}) = 1
        BY DEF OneWayAnEntrance
    <2>1. StoryOK /\ Dead(story) /\ Len(file) \in Nat
        BY StoryTyped, StoryDead, AdventureAssumption DEF StoryInv
    <2>2. PICK n, i : /\ n \in Reachable /\ i \in 1 .. Len(file) /\ e = <<n, i>>
                      /\ i \in DOMAIN ChoicesOf(n) /\ PageAt(ChoicesOf(n)[i].next).type = "W"
        BY DEF Entrances
    <2>3. n \in visited /\ n \in Nums /\ todo = <<>>
        BY <2>1, <2>2, AllTakenUp
    <2>4. PageAt(n).type = "N"
        <3>1. n + 1 \in DOMAIN story.pages
            BY <2>1, <2>3 DEF Nums, StoryOK
        <3>2. PageAt(n).choices # <<>>
            BY <2>2 DEF ChoicesOf
        <3> QED
            BY <2>1, <3>1, <3>2 DEF Dead, PageAt
    <2>5. i \in Nat /\ Wins(n, i)
        BY <2>1, <2>2 DEF Wins
    <2>6. Covers(lovely, e)
        BY <2>2, <2>3, <2>4, <2>5 DEF ListInv, NoneMissed, Covers
    <2>7. PICK k \in DOMAIN lovely : Enters(lovely[k], e)
        BY <2>6 DEF Covers
    <2>8. ASSUME NEW j \in DOMAIN lovely, Enters(lovely[j], e) PROVE j = k
        <3>1. Alike(lovely[j], lovely[k])
            BY <2>7, <2>8 DEF Enters, Alike, Before
        <3> QED
            BY <3>1 DEF ListInv, Once
    <2>9. {j \in DOMAIN lovely : Enters(lovely[j], e)} = {k}
        BY <2>7, <2>8
    <2> QED
        BY <2>9, FS_Singleton
<1> QED
    BY <1>1, ListHolds, SearchHolds, StoryHolds, PTL
-----------------------------------------------------------------------------
(* Types                                                                    *)

\* A reader and the search stay among numbers.
NumbersInv == current \in Nat /\ visited \subseteq Nat

LEMMA NumbersHold == Spec => []NumbersInv
<1>1. Init => NumbersInv
    BY DEF Init, NumbersInv
<1>2. NumbersInv /\ StoryOK /\ SearchInv /\ [Next]_vars => NumbersInv'
    <2> SUFFICES ASSUME NumbersInv, StoryOK, SearchInv, [Next]_vars PROVE NumbersInv'
        OBVIOUS
    <2>1. CASE \E i \in valid_choices(current) : InVector(current) /\ Turn(i)
        <3>1. PICK i \in valid_choices(current) : InVector(current) /\ Turn(i)
            BY <2>1
        <3>2. current + 1 \in DOMAIN story.pages
            BY <3>1 DEF InVector, StoryOK, NumbersInv
        <3>3. PageAt(current).choices[i].next \in Nat
            BY <3>2 DEF StoryOK, PageAt, valid_choices
        <3>4. current' = PageAt(current).choices[i].next /\ visited' = visited
            BY <3>1 DEF Turn, search
        <3> QED
            BY <3>3, <3>4 DEF NumbersInv
    <2>2. CASE TakeUp
        <3>1. PICK p, n : p = Last(todo) /\ n = Last(p.pages) /\ todo # <<>> /\ visited' = visited \cup {n}
            BY <2>2 DEF TakeUp, Visit
        <3>2. p \in Paths
            BY <3>1 DEF SearchInv, Last
        <3>3. p.pages \in Seq(Nat) /\ p.choices \in Seq(Nat \ {0}) /\ Len(p.pages) = Len(p.choices) + 1
            BY <3>2 DEF Paths
        <3>4. n \in Nat
            BY <3>1, <3>3 DEF Last
        <3>5. current' = current
            BY <2>2 DEF TakeUp, play
        <3> QED
            BY <3>1, <3>4, <3>5 DEF NumbersInv
    <2>3. CASE UNCHANGED <<current, visited>>
        BY <2>3 DEF NumbersInv
    <2> QED
        BY <2>1, <2>2, <2>3 DEF Next, Begin, playStory, LastPage, PlayBeyond, printWinPath, SearchBeyond,
                                PrintPaths, Undefined, play, search, vars
<1>3. StoryInv => StoryOK
    BY StoryTyped DEF StoryInv
<1> QED
    BY <1>1, <1>2, <1>3, StoryHolds, SearchHolds, PTL DEF Spec

\* Whatever the files, what is read is a story, the reader is on a page with a number,
\* and the search has paths with a choice between two pages.
THEOREM StoriesTyped == Spec => []TypeOK
<1>1. StoryInv /\ SearchInv /\ NumbersInv => TypeOK
    <2> SUFFICES ASSUME StoryInv, SearchInv, NumbersInv PROVE TypeOK
        OBVIOUS
    <2>1. \A p \in Paths : IsPath(p)
        BY DEF Paths, IsPath
    <2>2. (\A i \in DOMAIN todo : IsPath(todo[i])) /\ \A i \in DOMAIN lovely : IsPath(lovely[i])
        BY <2>1 DEF SearchInv
    <2>3. StoryOK
        BY StoryTyped DEF StoryInv
    <2> QED
        BY <2>2, <2>3 DEF TypeOK, StoryInv, NumbersInv
<1> QED
    BY <1>1, StoryHolds, SearchHolds, NumbersHold, PTL
-----------------------------------------------------------------------------
(* Playing                                                                  *)

Turns == [page : Nat, choice : Nat]

\* There is a last one of the turns that set a gadget.
LastSetter(k, g) == Setters(k, g) = {} \/ \E j \in Setters(k, g) : \A i \in Setters(k, g) : i <= j

\* The gadgets have the values that the last setters gave them.
PlayInv ==
    /\ trail \in Seq(Turns)
    /\ DOMAIN gadgets = DOMAIN story.gadgets
    /\ \A k \in 0 .. Len(trail) : \A g : LastSetter(k, g)
    /\ \A g \in DOMAIN gadgets : gadgets[g] = Value(Len(trail), g)
    /\ ConditionsHold

\* The turns go on.
LEMMA NextTurn ==
    ASSUME PlayInv, TypeOK, NEW i \in valid_choices(current), InVector(current), Turn(i)
    PROVE  /\ trail' \in Seq(Turns) /\ Len(trail') = Len(trail) + 1 /\ Len(trail) \in Nat
           /\ \A k \in 1 .. Len(trail) : trail'[k] = trail[k]
           /\ trail'[Len(trail) + 1] = [page |-> current, choice |-> i]
<1> DEFINE t == [page |-> current, choice |-> i]
<1>1. current \in Nat /\ StoryOK
    BY DEF TypeOK
<1>2. current + 1 \in DOMAIN story.pages
    BY <1>1 DEF InVector, StoryOK
<1>3. i \in DOMAIN story.pages[current + 1].choices
    BY DEF valid_choices, PageAt
<1>4. i \in Nat
    BY <1>1, <1>2, <1>3 DEF StoryOK
<1>5. t \in Turns
    BY <1>1, <1>4 DEF Turns
<1>6. trail \in Seq(Turns) /\ trail' = Append(trail, t)
    BY DEF PlayInv, Turn
<1> HIDE DEF t
<1>7. /\ trail' \in Seq(Turns) /\ Len(trail') = Len(trail) + 1 /\ Len(trail) \in Nat
      /\ \A k \in 1 .. Len(trail) : trail'[k] = trail[k]
      /\ trail'[Len(trail) + 1] = t
    BY <1>5, <1>6
<1> QED
    BY <1>7 DEF t

\* A turn changes nothing about the turns before it, and its own page is the last
\* that sets what it sets.
LEMMA TurnValues ==
    ASSUME PlayInv, TypeOK, NEW i \in valid_choices(current), InVector(current), Turn(i)
    PROVE  /\ \A k \in 0 .. Len(trail) + 1 : \A g : LastSetter(k, g)'
           /\ \A k \in 0 .. Len(trail) : \A g : Value(k, g)' = Value(k, g)
           /\ \A g \in DOMAIN gadgets : Value(Len(trail), g)' = gadgets'[g]
<1>0. trail \in Seq(Turns)
    BY DEF PlayInv
<1>a. /\ Len(trail) \in Nat /\ Len(trail') = Len(trail) + 1
      /\ \A k \in 1 .. Len(trail) : trail'[k] = trail[k]
      /\ trail'[Len(trail) + 1] = [page |-> current, choice |-> i]
    BY NextTurn
<1>1. PICK L \in Nat :
      /\ L = Len(trail) /\ Len(trail') = L + 1
      /\ \A k \in 1 .. L : trail'[k] = trail[k]
      /\ trail'[L + 1].page = current
    BY <1>a
<1>2. story' = story
    BY DEF Turn, input
<1>4. \A k \in 0 .. L : \A g : Setters(k, g)' = Setters(k, g)
    <2> SUFFICES ASSUME NEW k \in 0 .. L, NEW g PROVE Setters(k, g)' = Setters(k, g)
        OBVIOUS
    <2>1. \A j \in 1 .. k : trail'[j] = trail[j]
        BY <1>1
    <2> QED
        BY <1>2, <2>1 DEF Setters, PageAt
<1>5. \A k \in 0 .. L : \A g : LastSetter(k, g)
    BY <1>1 DEF PlayInv
<1>6. \A k \in 0 .. L : \A g : LastSetter(k, g)'
    BY <1>4, <1>5 DEF LastSetter
<1>7. \A k \in 0 .. L : \A g : Value(k, g)' = Value(k, g)
    <2> SUFFICES ASSUME NEW k \in 0 .. L, NEW g PROVE Value(k, g)' = Value(k, g)
        OBVIOUS
    <2>1. CASE Setters(k, g) = {}
        BY <1>4, <2>1 DEF Value
    <2>2. CASE Setters(k, g) # {}
        <3> DEFINE j == CHOOSE m \in Setters(k, g) : \A h \in Setters(k, g) : h <= m
        <3>1. j \in Setters(k, g)
            BY <1>5, <2>2 DEF LastSetter
        <3>2. j \in 1 .. L
            <4> HIDE DEF j
            <4> QED
                BY <1>1, <3>1 DEF Setters
        <3>3. trail'[j] = trail[j]
            BY <1>1, <3>2
        <3>4. Value(k, g) = PageAt(trail[j].page).gadgets[g]
            BY <2>2 DEF Value
        <3>5. Value(k, g)' = PageAt(trail'[j].page).gadgets[g]
            BY <1>2, <1>4, <2>2 DEF Value, PageAt
        <3> QED
            BY <3>3, <3>4, <3>5
    <2> QED
        BY <2>1, <2>2
<1>8. ASSUME NEW g, g \in DOMAIN PageAt(current).gadgets
      PROVE  LastSetter(L + 1, g)' /\ Value(L + 1, g)' = PageAt(current).gadgets[g]
    <2>1. L + 1 \in Setters(L + 1, g)'
        BY <1>1, <1>2, <1>8 DEF Setters, PageAt
    <2>2. \A h \in Setters(L + 1, g)' : h \in 1 .. L + 1
        BY DEF Setters
    <2>3. \A h \in Setters(L + 1, g)' : h <= L + 1
        BY <1>1, <2>2
    <2>4. \A m \in Setters(L + 1, g)' : (\A h \in Setters(L + 1, g)' : h <= m) => m = L + 1
        BY <1>1, <2>1, <2>2
    <2>5. (CHOOSE m \in Setters(L + 1, g)' : \A h \in Setters(L + 1, g)' : h <= m) = L + 1
        BY <2>1, <2>3, <2>4
    <2>6. LastSetter(L + 1, g)'
        BY <2>1, <2>3 DEF LastSetter
    <2> QED
        BY <1>1, <1>2, <2>1, <2>5, <2>6 DEF Value, PageAt
<1>9. ASSUME NEW g, g \notin DOMAIN PageAt(current).gadgets
      PROVE  LastSetter(L + 1, g)' /\ Value(L + 1, g)' = Value(L, g)
    <2>1. \A j \in 1 .. L : trail'[j] = trail[j]
        BY <1>1
    <2>2. Setters(L + 1, g)' = Setters(L, g)'
        BY <1>1, <1>2, <1>9 DEF Setters, PageAt
    <2>3. LastSetter(L, g)' /\ Value(L, g)' = Value(L, g)
        BY <1>1, <1>6, <1>7
    <2> QED
        BY <2>2, <2>3 DEF LastSetter, Value
<1>13. gadgets' = Set(gadgets, PageAt(current)) /\ \A g \in DOMAIN gadgets : gadgets[g] = Value(L, g)
    BY <1>1 DEF Turn, PlayInv
<1>14. \A g \in DOMAIN gadgets : Value(L + 1, g)' = gadgets'[g]
    BY <1>1, <1>8, <1>9, <1>13 DEF Set
<1>15. \A g : LastSetter(L + 1, g)'
    BY <1>8, <1>9
<1>16. \A k \in 0 .. L + 1 : k \in 0 .. L \/ k = L + 1
    BY <1>1
<1> QED
    BY <1>1, <1>6, <1>7, <1>14, <1>15, <1>16

\* A turn passes no condition that does not hold.
LEMMA TurnConditions ==
    ASSUME PlayInv, TypeOK, NEW i \in valid_choices(current), InVector(current), Turn(i)
    PROVE  ConditionsHold'
<1>0. trail \in Seq(Turns) /\ trail' \in Seq(Turns)
    BY NextTurn DEF PlayInv
<1>a. /\ Len(trail) \in Nat /\ Len(trail') = Len(trail) + 1
      /\ \A k \in 1 .. Len(trail) : trail'[k] = trail[k]
      /\ trail'[Len(trail) + 1] = [page |-> current, choice |-> i]
    BY NextTurn
<1>b. /\ \A k \in 0 .. Len(trail) : \A g : Value(k, g)' = Value(k, g)
      /\ \A g \in DOMAIN gadgets : Value(Len(trail), g)' = gadgets'[g]
    BY TurnValues
<1>1. PICK L \in Nat :
      /\ L = Len(trail) /\ Len(trail') = L + 1
      /\ \A k \in 1 .. L : trail'[k] = trail[k]
      /\ trail'[L + 1] = [page |-> current, choice |-> i]
    BY <1>a
<1>2. /\ \A k \in 0 .. L : \A g : Value(k, g)' = Value(k, g)
      /\ \A g \in DOMAIN gadgets : Value(L + 1, g)' = gadgets'[g]
    BY <1>1, <1>b
<1>3. story' = story /\ DOMAIN gadgets = DOMAIN story.gadgets
    BY DEF Turn, input, PlayInv
<1>d. DOMAIN trail' = 1 .. L + 1
    BY <1>0, <1>1
<1>4. SUFFICES ASSUME NEW k \in 1 .. L + 1, NEW t, t = trail'[k],
                      NEW c, c = PageAt(t.page).choices[t.choice], c.gadget \in DOMAIN story.gadgets
               PROVE  Value(k, c.gadget)' = c.value
    BY <1>d, <1>3 DEF ConditionsHold, PageAt
<1>5. CASE k \in 1 .. L
    <2>1. t = trail[k] /\ k \in DOMAIN trail
        BY <1>0, <1>1, <1>4, <1>5
    <2>2. Value(k, c.gadget) = c.value
        BY <2>1, <1>4 DEF ConditionsHold, PlayInv
    <2> QED
        BY <1>2, <1>5, <2>2
<1>6. CASE k = L + 1
    <2>1. c = PageAt(current).choices[i]
        BY <1>1, <1>4, <1>6
    <2>2. /\ gadgets' = Set(gadgets, PageAt(current))
          /\ ~hit_unavilable(gadgets', c)
        BY <2>1 DEF Turn
    <2>3. c.gadget \in DOMAIN gadgets /\ c.gadget \in DOMAIN gadgets'
        BY <1>3, <1>4, <2>2 DEF Set
    <2>4. gadgets'[c.gadget] = c.value
        BY <2>2, <2>3 DEF hit_unavilable, is_ggt_match
    <2> QED
        BY <1>2, <1>6, <2>3, <2>4
<1> QED
    BY <1>1, <1>5, <1>6

\* Nothing of the game changes before it starts and after it ends.
LEMMA PlayStays ==
    ASSUME PlayInv, trail' = trail, gadgets' = gadgets, story' = story
    PROVE  PlayInv'
<1>1. \A k : \A g : Setters(k, g)' = Setters(k, g)
    <2> SUFFICES ASSUME NEW k, NEW g PROVE Setters(k, g)' = Setters(k, g)
        OBVIOUS
    <2> QED
        BY DEF Setters, PageAt
<1>2. \A k : \A g : Value(k, g)' = Value(k, g)
    <2> SUFFICES ASSUME NEW k, NEW g PROVE Value(k, g)' = Value(k, g)
        OBVIOUS
    <2>1. PICK S : S = Setters(k, g) /\ S = Setters(k, g)'
        BY <1>1
    <2>2. PICK j : j = CHOOSE m \in S : \A h \in S : h <= m
        OBVIOUS
    <2>3. Value(k, g) = IF S = {} THEN 0 ELSE PageAt(trail[j].page).gadgets[g]
        BY <2>1, <2>2 DEF Value
    <2>4. Value(k, g)' = IF S = {} THEN 0 ELSE PageAt(trail[j].page).gadgets[g]
        BY <2>1, <2>2 DEF Value, PageAt
    <2> QED
        BY <2>3, <2>4
<1>3. \A k : \A g : LastSetter(k, g)' = LastSetter(k, g)
    <2> SUFFICES ASSUME NEW k, NEW g PROVE LastSetter(k, g)' = LastSetter(k, g)
        OBVIOUS
    <2> QED
        BY <1>1 DEF LastSetter
<1>4. ConditionsHold'
    <2> SUFFICES ASSUME NEW k \in DOMAIN trail, NEW c, c = PageAt(trail[k].page).choices[trail[k].choice],
                        c.gadget \in DOMAIN story.gadgets
                 PROVE  Value(k, c.gadget)' = c.value
        BY DEF ConditionsHold, PageAt
    <2> QED
        BY <1>2 DEF ConditionsHold, PlayInv
<1>5. \A g \in DOMAIN gadgets : gadgets[g] = Value(Len(trail), g)
    BY DEF PlayInv
<1>6. PICK L : L = Len(trail)
    OBVIOUS
<1>7. \A g \in DOMAIN gadgets : gadgets[g] = Value(L, g)'
    BY <1>2, <1>5, <1>6
<1> QED
    BY <1>3, <1>4, <1>6, <1>7 DEF PlayInv

\* A turn keeps what is known of the game.
LEMMA TurnPlay ==
    ASSUME PlayInv, TypeOK, NEW i \in valid_choices(current), InVector(current), Turn(i)
    PROVE  PlayInv'
<1>1. trail' \in Seq(Turns) /\ Len(trail') = Len(trail) + 1
    BY NextTurn
<1>2. ConditionsHold'
    BY TurnConditions
<1>3. DOMAIN gadgets' = DOMAIN gadgets /\ DOMAIN gadgets = DOMAIN story.gadgets /\ story' = story
    BY DEF Turn, Set, PlayInv, input
<1>4. /\ \A k \in 0 .. Len(trail) + 1 : \A g : LastSetter(k, g)'
      /\ \A g \in DOMAIN gadgets : Value(Len(trail), g)' = gadgets'[g]
    BY TurnValues
<1>5. PICK L : L = Len(trail) + 1 /\ L = Len(trail')
    BY <1>1
<1>6. /\ \A k \in 0 .. L : \A g : LastSetter(k, g)'
      /\ \A g \in DOMAIN gadgets : Value(L, g)' = gadgets'[g]
    BY <1>4, <1>5
<1> QED
    BY <1>1, <1>2, <1>3, <1>5, <1>6 DEF PlayInv

\* Before the first page is turned no gadget is set.
LEMMA PlayInit == Init /\ TypeOK => PlayInv
<1> SUFFICES ASSUME Init, TypeOK PROVE PlayInv
    OBVIOUS
<1>1. trail = <<>> /\ gadgets = story.gadgets /\ StoryOK
    BY DEF Init, TypeOK
<1>2. \A g : Setters(0, g) = {}
    BY DEF Setters
<1>3. \A g : Value(0, g) = 0 /\ LastSetter(0, g)
    BY <1>2 DEF Value, LastSetter
<1> QED
    BY <1>1, <1>3 DEF PlayInv, StoryOK, ConditionsHold

\* The reader never gets past a condition that does not hold.
THEOREM NoChoiceAgainstItsCondition == Spec => []ConditionsHold
<1>1. Init /\ TypeOK => PlayInv
    BY PlayInit
<1>2. PlayInv /\ TypeOK /\ [Next]_vars => PlayInv'
    <2> SUFFICES ASSUME PlayInv, TypeOK, [Next]_vars PROVE PlayInv'
        OBVIOUS
    <2>1. CASE Begin
        BY <2>1, PlayStays DEF Begin, input, play
    <2>2. CASE \E i \in valid_choices(current) : InVector(current) /\ Turn(i)
        BY <2>2, TurnPlay
    <2>3. CASE LastPage \/ PlayBeyond
        BY <2>3, PlayStays DEF LastPage, PlayBeyond, Undefined, input, play
    <2>4. CASE printWinPath
        BY <2>4, PlayStays DEF printWinPath, TakeUp, SearchBeyond, PrintPaths, Undefined, input, play
    <2>5. CASE UNCHANGED vars
        BY <2>5, PlayStays DEF vars, input, play
    <2> QED
        BY <2>1, <2>2, <2>3, <2>4, <2>5 DEF Next, playStory
<1>3. PlayInv => ConditionsHold
    BY DEF PlayInv
<1> QED
    BY <1>1, <1>2, <1>3, StoriesTyped, PTL DEF Spec
=============================================================================
