------------------------------- MODULE Paging -------------------------------
(***************************************************************************)
(* How the lists of LiteLLM are walked (litellm.py:1291-1345, 1467-1525,   *)
(* 1583-1601).  A server gives fewer entries per page than it is asked     *)
(* for, with or without a total, and may ignore which page it is asked     *)
(* for; a page may fail.  The sampler and the panels walk at the same time *)
(* and keep the last list of keys in one place.                            *)
(*                                                                         *)
(* `server' is one such server, `walk' what each caller has read so far    *)
(* and `cached' _KEY_BUDGETS_CACHE; the list does not change while it is   *)
(* walked.                                                                 *)
(***************************************************************************)
EXTENDS Integers, FiniteSets

CONSTANTS Callers,     \* coroutines that may walk a list
          MaxEntries,  \* bound: entries of the list
          MaxPage,     \* bound: entries of a page
          PageLimit    \* the walks end there in any case (50)

ASSUME PagingAssumption == MaxEntries \in Nat /\ MaxPage \in Nat /\ PageLimit \in Nat \ {0}

VARIABLES server, cached, walk

walkVars == <<server, cached, walk>>

\* What the server may say of the whole list with each page.
Totals == SUBSET {"pages", "count"}

\* No page is asked for yet: of no list, or of the list that is to be walked.
NewWalk(list) == [list |-> list, out |-> {}, count |-> 0, size |-> 0, asked |-> 0,
                phase |-> "on"]

WalkInit ==
    /\ server \in [size : 0..MaxEntries, page : 1..MaxPage, totals : Totals, heeds : BOOLEAN]
    /\ cached \in SUBSET (1..server.size)
    /\ walk = [c \in Callers |-> NewWalk("none")]

All == 1..server.size
PageCount == (server.size + server.page - 1) \div server.page

\* The entries of a page: of the first, where the server ignores the number.
PageOf(n) == LET p == IF server.heeds THEN n ELSE 1
             IN  {i \in All : i > (p - 1) * server.page /\ i <= p * server.page}

-----------------------------------------------------------------------------
Begin(c) ==
    /\ walk[c].list = "none"
    /\ \E list \in {"keys", "users"} : walk' = [walk EXCEPT ![c] = NewWalk(list)]
    /\ UNCHANGED <<server, cached>>

\* Mutant of LastPage: a page shorter than what was asked for is the last.
LastPageShort(n, count, first) == TRUE

\* Is this the last page?  The totals say so, or the page is shorter than the first.
LastPage(n, count, first) ==
    IF "pages" \in server.totals THEN n >= PageCount
    ELSE IF "count" \in server.totals THEN count >= server.size
    ELSE Cardinality(PageOf(n)) < first

Asks(c) == walk[c].list # "none" /\ walk[c].phase = "on" /\ walk[c].asked < PageLimit

\* The answer to the next page brings these entries; with none the walk is over.
Reads(w, new, count) ==
    LET n == w.asked + 1
        first == IF n = 1 THEN Cardinality(PageOf(n)) ELSE w.size
    IN  IF new = {} THEN [w EXCEPT !.asked = n, !.phase = "read"]
        ELSE [w EXCEPT !.asked = n, !.out = @ \cup new, !.count = count, !.size = first,
                       !.phase = IF LastPage(n, count, first) THEN "read" ELSE "on"]

\* A page of /key/list: what it brings is appended as it is.
KeyPage(c) ==
    /\ Asks(c) /\ walk[c].list = "keys"
    /\ LET page == PageOf(walk[c].asked + 1)
       IN  walk' = [walk EXCEPT ![c] = Reads(@, page, @.count + Cardinality(page))]
    /\ UNCHANGED <<server, cached>>

\* _paginate: what was seen before is left out, and a page with nothing new is the last.
UserPage(c) ==
    /\ Asks(c) /\ walk[c].list = "users"
    /\ LET new == PageOf(walk[c].asked + 1) \ walk[c].out
       IN  walk' = [walk EXCEPT ![c] = Reads(@, new, @.count + Cardinality(new))]
    /\ UNCHANGED <<server, cached>>

PageFails(c) ==
    /\ Asks(c)
    /\ walk' = [walk EXCEPT ![c] = [walk[c] EXCEPT !.asked = @ + 1, !.phase = "cut"]]
    /\ UNCHANGED <<server, cached>>

\* key_budgets: a walk that was cut, or has fewer entries than the total the server
\* gave, is kept unless the list kept so far is fuller.
KeptList(w) ==
    LET short == w.phase = "cut" \/ ("count" \in server.totals /\ Cardinality(w.out) < server.size)
    IN  IF w.out = {} \/ (short /\ Cardinality(w.out) < Cardinality(cached)) THEN cached
        ELSE w.out

Ended(c) == walk[c].list # "none" /\ (walk[c].phase # "on" \/ walk[c].asked = PageLimit)

EndWalk(c) ==
    /\ Ended(c)
    /\ cached' = IF walk[c].list = "keys" THEN KeptList(walk[c]) ELSE cached
    /\ walk' = [walk EXCEPT ![c] = NewWalk("none")]
    /\ UNCHANGED server

WalkNext == \E c \in Callers : Begin(c) \/ KeyPage(c) \/ UserPage(c) \/ PageFails(c) \/ EndWalk(c)
WalkSpec == WalkInit /\ [][WalkNext]_walkVars

-----------------------------------------------------------------------------
WalkTypeOK ==
    /\ cached \subseteq All
    /\ \A c \in Callers :
          /\ walk[c] \in [list : {"none", "keys", "users"}, out : SUBSET All, count : Nat, size : Nat,
                          asked : 0..PageLimit, phase : {"on", "read", "cut"}]
          /\ walk[c].list = "none" => walk[c] = NewWalk("none")

\* A server that heeds the page is read to its end, whatever it says of totals, and
\* asked no more than one page beyond it; unless a page fails, or the list is longer
\* than the walks are (litellm.py:1508-1524).
WholeListRead ==
    server.heeds => \A c \in Callers :
        /\ walk[c].asked <= PageCount + 1
        /\ Ended(c) /\ walk[c].phase # "cut" /\ PageCount <= PageLimit => walk[c].out = All

\* The walk of the users ends on a server that ignores the page (litellm.py:1296).
NoEndlessWalk == ~server.heeds => \A c \in Callers : walk[c].list = "users" => walk[c].asked <= 2

\* A walk that is cut short leaves no fewer keys on the board, and a complete list
\* stays complete whatever fails and whoever walks (litellm.py:1583-1596).
KeptStep ==
    /\ \A c \in Callers :
          EndWalk(c) /\ walk[c].phase = "cut" => Cardinality(cached') >= Cardinality(cached)
    /\ server.heeds /\ PageCount <= PageLimit /\ cached = All => cached' = All

\* Lists are read to their end, and what was kept of one does not shrink.
ListsRead == [](WalkTypeOK /\ WholeListRead /\ NoEndlessWalk) /\ [][KeptStep]_walkVars
=============================================================================
