------------------------------- MODULE Report -------------------------------
(***************************************************************************)
(* What a page or a report shows: the filter of the SLA page with its      *)
(* paging, and the sections in which Slack, Discord and Telegram get a     *)
(* report.  A result is what a row tells of a round: its number and        *)
(* whether the prober was up.                                              *)
(***************************************************************************)
EXTENDS Integers, Sequences

CONSTANTS
  DefaultPageSize,    \* global.DefaultPageSize, 100
  MaxInt              \* the largest int

ASSUME PageSizeAssumption ==
  /\ MaxInt \in Nat /\ DefaultPageSize \in 1 .. MaxInt

\* The arithmetic of int.
MinInt == - MaxInt - 1
Wrap(n) == ((n - MinInt) % (2 * (MaxInt + 1))) + MinInt

\* A filter: the status asked for, the page and its size.
Filter(status, page, size) == [status |-> status, page |-> page, size |-> size]

NewEmptyFilter == Filter("any", 1, DefaultPageSize)

\* Check: the request is answered with an error.
Check(f) == f.page >= 1 /\ f.size >= 1

\* Mutant: the page begins with the last row of the one before it.
StartOverlaps(f) == Wrap((f.page - 1) * (f.size - 1))

\* getIndics: the first and the last match of the page, counted from 0.
Start(f) == Wrap((f.page - 1) * f.size)
End(f)   == Wrap(f.page * f.size - 1)

InPage(f, cnt) == Start(f) <= cnt /\ cnt <= End(f)

Matches(f, result) ==
  f.status = "any" \/ f.status = IF result.up THEN "up" ELSE "down"

\* The number of pages the HTML says there are.
PageCount(f, cnt) == cnt \div f.size + 1

-----------------------------------------------------------------------------
\* The sections of n rows, `size' in each, the last with what is left:
\* SLASlack, NewEmbeds and splitMessage.
SectionCount(n, size) == n \div size + (IF n % size > 0 THEN 1 ELSE 0)

SectionStart(p, size) == (p - 1) * size + 1
SectionEnd(p, n, size) == IF n < p * size THEN n ELSE p * size

Sections(rows, size) ==
  [p \in 1 .. SectionCount(Len(rows), size) |->
     SubSeq(rows, SectionStart(p, size), SectionEnd(p, Len(rows), size))]
=============================================================================
