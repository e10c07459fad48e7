------------------------------ MODULE RuleBook ------------------------------
(***************************************************************************)
(* What a denylist promises those who ask while it grows.  It is a book of *)
(* entries.  Writing one takes a while, during which it may be found or    *)
(* not; an answer has regard to every entry that was settled when the      *)
(* question was asked, and to none that is not in the book.                *)
(***************************************************************************)
EXTENDS Integers, Sequences

CONSTANTS
  Entries,           \* [line, rule, ...]: what may be written
  Queries,           \* what may be asked
  Readers,           \* those who ask
  IsAbout(_, _),     \* whether an entry is about a query
  Overrules(_, _),   \* whether an entry has preference over another one, when
                     \* both are about a query
  Certain(_)         \* the entries that are not overlooked

VARIABLES
  book,              \* the entries, in the order of their lines
  settled,           \* how many of them are settled
  asked,             \* what each reader asks ...
  open,              \* ... and has not been answered yet
  since,             \* how many entries were settled when it asked
  answer             \* the answer it got

vars == <<book, settled, asked, open, since, answer>>

Init ==
  /\ book = << >>
  /\ settled = 0
  /\ asked \in [Readers -> Queries]
  /\ open = [r \in Readers |-> FALSE]
  /\ since = [r \in Readers |-> 0]
  /\ answer = [r \in Readers |-> [status |-> "none", line |-> 0]]

\* An entry begins to be written, when the one before it is.
Write ==
  /\ settled = Len(book)
  /\ \E e \in Entries :
       /\ \A i \in 1 .. Len(book) : book[i].line < e.line
       /\ book' = Append(book, e)
  /\ UNCHANGED <<settled, asked, open, since, answer>>

\* It is written.
Settle ==
  /\ settled < Len(book)
  /\ settled' = settled + 1
  /\ UNCHANGED <<book, asked, open, since, answer>>

Ask(r) ==
  /\ ~open[r]
  /\ \E q \in Queries : asked' = [asked EXCEPT ![r] = q]
  /\ open' = [open EXCEPT ![r] = TRUE]
  /\ since' = [since EXCEPT ![r] = settled]
  /\ answer' = [answer EXCEPT ![r] = [status |-> "none", line |-> 0]]
  /\ UNCHANGED <<book, settled>>

Answer(r, response) ==
  /\ open[r]
  /\ answer' = [answer EXCEPT ![r] = response]
  /\ open' = [open EXCEPT ![r] = FALSE]
  /\ UNCHANGED <<book, settled, asked, since>>

\* An entry decides that is about the query and that no settled one overrules.
Found(r) ==
  \E i \in 1 .. Len(book) :
    /\ IsAbout(book[i], asked[r])
    /\ \A j \in 1 .. since[r] :
         Overrules(book[j], book[i]) => ~IsAbout(book[j], asked[r])
    /\ Answer(r, [status |-> IF book[i].rule.allow THEN "allowed" ELSE "blocked",
                  line   |-> book[i].line])

NotFound(r) ==
  /\ \A j \in 1 .. since[r] : Certain(book[j]) => ~IsAbout(book[j], asked[r])
  /\ Answer(r, [status |-> "notfound", line |-> 0])

Next == Write \/ Settle \/ \E r \in Readers : Ask(r) \/ Found(r) \/ NotFound(r)

Spec == Init /\ [][Next]_vars
=============================================================================
